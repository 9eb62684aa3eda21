--------------------------- MODULE SerialExecutor ---------------------------
(***************************************************************************)
(* What a jobs::Sequence promises its clients: jobs are accepted in some   *)
(* order, run one at a time in that order, and every accepted job either   *)
(* runs to its end or is discarded before it starts.  Sequence.tla         *)
(* implements this specification.  Endless jobs may run for ever; NoJob is *)
(* no member of Jobs.                                                      *)
(***************************************************************************)
EXTENDS Integers, Sequences

CONSTANTS Jobs, Endless, NoJob

VARIABLES
  queue,      \* accepted jobs that have not started, oldest first
  running,    \* the job that runs, or NoJob
  finished,   \* jobs that ran to their end
  dropped,    \* jobs that will never run
  closed      \* no further job is accepted

vars == <<queue, running, finished, dropped, closed>>

Waiting == {queue[k] : k \in DOMAIN queue}
Known == Waiting \cup finished \cup dropped \cup {running}

TypeOK ==
  /\ queue \in Seq(Jobs)
  /\ running \in Jobs \cup {NoJob}
  /\ finished \subseteq Jobs
  /\ dropped \subseteq Jobs
  /\ closed \in BOOLEAN

Init ==
  /\ queue = <<>>
  /\ running = NoJob
  /\ finished = {}
  /\ dropped = {}
  /\ closed = FALSE

Submit(j) ==
  /\ ~closed
  /\ j \notin Known
  /\ queue' = Append(queue, j)
  /\ UNCHANGED <<running, finished, dropped, closed>>

Refuse(j) ==
  /\ closed
  /\ j \notin Known
  /\ dropped' = dropped \cup {j}
  /\ UNCHANGED <<queue, running, finished, closed>>

Start ==
  /\ running = NoJob
  /\ queue # <<>>
  /\ running' = Head(queue)
  /\ queue' = Tail(queue)
  /\ UNCHANGED <<finished, dropped, closed>>

Finish ==
  /\ running # NoJob
  /\ finished' = finished \cup {running}
  /\ running' = NoJob
  /\ UNCHANGED <<queue, dropped, closed>>

Discard ==
  /\ dropped' = dropped \cup Waiting
  /\ queue' = <<>>
  /\ UNCHANGED <<running, finished, closed>>

Close ==
  /\ closed' = TRUE
  /\ UNCHANGED <<queue, running, finished, dropped>>

Next ==
  \/ \E j \in Jobs : Submit(j) \/ Refuse(j)
  \/ Start
  \/ Finish
  \/ Discard
  \/ Close

Spec == Init /\ [][Next]_vars

(* An accepted job is not starved: what is queued starts when nothing runs, *)
(* and what runs ends, unless it is one of the Endless jobs.                *)
FairSpec ==
  /\ Spec
  /\ WF_vars(Start)
  /\ \A j \in Jobs \ Endless : WF_vars(running = j /\ Finish)
=============================================================================
