------------------------------ MODULE Sequence ------------------------------
(***************************************************************************)
(* cppkg/jobs/sequence.h: one master thread takes jobs from a locked list, *)
(* runs each on a thread of its own and joins it before it takes the next. *)
(*                                                                         *)
(* Atomicity.  A critical section of queue_mutex_ is one step: nothing     *)
(* outside it reads tasks_, and the flags it reads without the mutex (the  *)
(* futures) are read once.  What happens outside the mutex is split: the   *)
(* two moves of the constructor, setting last_future_ before the push, the *)
(* notification after it, and the four statements of the destructor.       *)
(*                                                                         *)
(* last_future_ has no lock, so callers of attach_job and join take turns  *)
(* (Unclaimed); stop() may come from any thread, attach_job from the owner *)
(* or from inside a running job.                                           *)
(***************************************************************************)
EXTENDS Integers, Sequences

CONSTANTS
  Jobs,      \* the jobs a client may attach
  Endless,   \* those that return true on no attempt
  Owner,     \* the thread that constructs and destroys the sequence
  NoJob      \* an empty last_future_

ASSUME JobsAssumption == Endless \subseteq Jobs /\ Owner \notin Jobs /\ NoJob \notin Jobs

VARIABLES
  jst,       \* state of each job, see JobStates
  tasks,     \* tasks_
  last,      \* the job whose future last_future_ is
  master,    \* where the master thread is
  cur,       \* the job it took last
  pc,        \* where each calling thread (the owner, a job) is
  stopSig,   \* stop_signal_ is set
  exitSig,   \* master_'s exit_signal_ is set
  stopped,   \* stopped_
  number,    \* history: a job's place in the order of attach_job calls, 0 before
  late       \* history: calls of a job begun after stop_signal_ was set, up to 2

signals == <<stopSig, exitSig, stopped>>
history == <<number, late>>
vars == <<jst, tasks, last, master, cur, pc, signals, history>>

Threads == Jobs \cup {Owner}

(* held: its thread is about to call job(i); call: inside the call;        *)
(* poll: job(i) returned false, about to look at stop_future_;             *)
(* dropped: its packaged_task died unrun, which breaks the promise.        *)
JobStates == {"new", "announced", "queued", "held", "call", "poll", "done", "dropped"}
Active(j) == jst[j] \in {"held", "call", "poll"}
Settled(j) == jst[j] \in {"done", "dropped"}     \* the job's future is ready

InConstructor == pc[Owner] \in {"spawned", "broken"}
InDestructor == pc[Owner] \in {"d_stop", "d_exit", "d_join", "gone"}

Init ==
  /\ jst = [j \in Jobs |-> "new"]
  /\ tasks = <<>>
  /\ last = NoJob
  /\ master = "lock"
  /\ cur = NoJob
  /\ pc = [t \in Threads |-> IF t = Owner THEN "spawned" ELSE "idle"]
  /\ stopSig = FALSE
  /\ exitSig = FALSE
  /\ stopped = FALSE
  /\ number = [j \in Jobs |-> 0]
  /\ late = [j \in Jobs |-> 0]

Goto(t, from, to) == pc[t] = from /\ pc' = [pc EXCEPT ![t] = to]

(* Seeded fault: the notification is forgotten. *)
FaultWoken == master
Woken == IF master = "waiting" THEN "lock" ELSE master    \* notify_one

(* The master thread exists before master_ is assigned: moving exit_signal_ *)
(* breaks the default promise that exit_future_ still refers to.            *)
MoveSignal ==
  /\ Goto(Owner, "spawned", "broken")
  /\ UNCHANGED <<jst, tasks, last, master, cur, signals, history>>

MoveFuture ==
  /\ Goto(Owner, "broken", "idle")
  /\ UNCHANGED <<jst, tasks, last, master, cur, signals, history>>

-----------------------------------------------------------------------------
(* The master thread. *)

ExitFutureReady == exitSig \/ pc[Owner] = "broken"

Ready == ExitFutureReady \/ tasks # <<>>     \* the predicate of the wait

Park ==
  /\ master = "lock" /\ ~Ready
  /\ master' = "waiting"
  /\ UNCHANGED <<jst, tasks, last, cur, pc, signals, history>>

Take ==
  /\ master = "lock" /\ Ready /\ tasks # <<>>
  /\ cur' = Head(tasks)
  /\ tasks' = Tail(tasks)
  /\ jst' = [jst EXCEPT ![cur'] = "held"]
  /\ master' = "join"
  /\ UNCHANGED <<last, pc, signals, history>>

ReturnEmpty ==
  /\ master = "lock" /\ Ready /\ tasks = <<>>
  /\ master' = "check"
  /\ UNCHANGED <<jst, tasks, last, cur, pc, signals, history>>

(* Seeded fault: the job's thread is detached. *)
FaultJobThreadEnded == TRUE
JobThreadEnded == jst[cur] = "done"

MasterJoin ==
  /\ master = "join" /\ JobThreadEnded
  /\ master' = "check"
  /\ UNCHANGED <<jst, tasks, last, cur, pc, signals, history>>

(* Seeded faults: the loop looks at master_.exit_future_, or never ends. *)
FaultStopItShared == ExitFutureReady
FaultStopItNever == FALSE
StopIt == exitSig     \* the loop of ManagedJob has its own copy of the future

LoopCheck ==
  /\ master = "check"
  /\ master' = IF StopIt THEN "exited" ELSE "lock"
  /\ UNCHANGED <<jst, tasks, last, cur, pc, signals, history>>

SpuriousWake ==
  /\ master = "waiting"
  /\ master' = "lock"
  /\ UNCHANGED <<jst, tasks, last, cur, pc, signals, history>>

Master == Park \/ Take \/ ReturnEmpty \/ MasterJoin \/ LoopCheck

-----------------------------------------------------------------------------
(* The thread of a job. *)

Becomes(j, from, to) == jst[j] = from /\ jst' = [jst EXCEPT ![j] = to]

CallJob(j) ==
  /\ Becomes(j, "held", "call")
  /\ late' = [late EXCEPT ![j] = IF stopSig /\ @ < 2 THEN @ + 1 ELSE @]
  /\ UNCHANGED <<tasks, last, master, cur, pc, signals, number>>

ReturnFalse(j) ==
  /\ Becomes(j, "call", "poll") /\ pc[j] = "idle"
  /\ UNCHANGED <<tasks, last, master, cur, pc, signals, history>>

ReturnTrue(j) ==
  /\ j \notin Endless
  /\ Becomes(j, "call", "done") /\ pc[j] = "idle"
  /\ UNCHANGED <<tasks, last, master, cur, pc, signals, history>>

(* fatal() threw out of a nested attach_job: the packaged_task keeps the exception. *)
Unwind(j) ==
  /\ Becomes(j, "call", "done") /\ Goto(j, "threw", "idle")
  /\ UNCHANGED <<tasks, last, master, cur, signals, history>>

(* Seeded fault: a job is retried until it returns true. *)
FaultStopSeen == FALSE
StopSeen == stopSig

PollStop(j) ==
  /\ Becomes(j, "poll", IF StopSeen THEN "done" ELSE "held")
  /\ UNCHANGED <<tasks, last, master, cur, pc, signals, history>>

JobStep(j) == CallJob(j) \/ ReturnFalse(j) \/ ReturnTrue(j) \/ Unwind(j) \/ PollStop(j)

-----------------------------------------------------------------------------
(* attach_job, join and stop. *)

MayCall(t) == pc[t] = "idle" /\ (t \in Jobs => jst[t] = "call")
Unclaimed == \A u \in Threads : pc[u] \notin {"push", "join"}
NextNumber == IF last = NoJob THEN 1 ELSE number[last] + 1

(* last_future_ is replaced before the queue is locked. *)
Announce(t, j) ==
  /\ MayCall(t) /\ Unclaimed
  /\ Becomes(j, "new", "announced") /\ Goto(t, "idle", "push")
  /\ last' = j
  /\ number' = [number EXCEPT ![j] = NextNumber]
  /\ UNCHANGED <<tasks, master, cur, signals, late>>

(* Seeded faults: stopped_ is not looked at; a push to the front; a task moved from. *)
FaultRefused == FALSE
FaultPushFront(j) == <<j>> \o tasks
FaultPushMoved(j) == Append(tasks, NoJob)
Refused == stopped
PushBack(j) == Append(tasks, j)

Push(t) ==
  /\ ~Refused
  /\ Goto(t, "push", "notify")
  /\ Becomes(last, "announced", "queued")
  /\ tasks' = PushBack(last)
  /\ UNCHANGED <<last, master, cur, signals, history>>

(* fatal() throws under the lock: unwinding destroys the new task. *)
Reject(t) ==
  /\ Refused
  /\ Goto(t, "push", "threw")
  /\ Becomes(last, "announced", "dropped")
  /\ UNCHANGED <<tasks, last, master, cur, signals, history>>

Notify(t) ==
  /\ Goto(t, "notify", "idle")
  /\ master' = Woken
  /\ UNCHANGED <<jst, tasks, last, cur, signals, history>>

Attach(t) == Push(t) \/ Reject(t) \/ Notify(t)

Join ==
  /\ last # NoJob /\ Unclaimed
  /\ Goto(Owner, "idle", "join")
  /\ UNCHANGED <<jst, tasks, last, master, cur, signals, history>>

JoinReturns ==
  /\ Goto(Owner, "join", "idle")
  /\ Settled(last)
  /\ UNCHANGED <<jst, tasks, last, master, cur, signals, history>>

stop ==
  /\ jst' = [j \in Jobs |-> IF jst[j] = "queued" THEN "dropped" ELSE jst[j]]
  /\ tasks' = <<>>
  /\ stopSig' = TRUE
  /\ master' = Woken
  /\ UNCHANGED <<last, cur, exitSig, stopped, number, late>>

(* Any thread, except that nobody starts a stop() while the destructor runs. *)
Stop == ~InConstructor /\ ~InDestructor /\ stop /\ UNCHANGED pc

-----------------------------------------------------------------------------
(* The destructor, one step per statement. *)

SetStopped ==
  /\ Goto(Owner, "idle", "d_stop")
  /\ stopped' = TRUE
  /\ UNCHANGED <<jst, tasks, last, master, cur, stopSig, exitSig, number, late>>

DtorStop == Goto(Owner, "d_stop", "d_exit") /\ stop

StopMaster ==
  /\ Goto(Owner, "d_exit", "d_join")
  /\ exitSig' = TRUE
  /\ UNCHANGED <<jst, tasks, last, master, cur, stopSig, stopped, number, late>>

MasterEnded == master = "exited"

JoinMaster ==
  /\ MasterEnded
  /\ Goto(Owner, "d_join", "gone")
  /\ UNCHANGED <<jst, tasks, last, master, cur, signals, history>>

OwnerStep == MoveSignal \/ MoveFuture \/ JoinReturns \/ DtorStop \/ StopMaster \/ JoinMaster

Next ==
  \/ OwnerStep \/ Join \/ SetStopped \/ Stop
  \/ Master \/ SpuriousWake
  \/ \E t \in Threads : Attach(t) \/ \E j \in Jobs : Announce(t, j)
  \/ \E j \in Jobs : JobStep(j)

Spec == Init /\ [][Next]_vars

(* Threads are scheduled fairly and a call in progress goes on; a job that *)
(* may return true does so on some attempt.  Nothing makes a client call,  *)
(* and no spurious wakeup is relied on.                                    *)
Fairness ==
  /\ WF_vars(OwnerStep)
  /\ WF_vars(Master)
  /\ \A t \in Threads : WF_vars(Attach(t))
  /\ \A j \in Jobs : WF_vars(JobStep(j)) /\ SF_vars(ReturnTrue(j))

FairSpec == Spec /\ Fairness

-----------------------------------------------------------------------------
(* Properties. *)

(* Every variable has its type. *)
TypeOK ==
  /\ jst \in [Jobs -> JobStates]
  /\ tasks \in Seq(Jobs)
  /\ last \in Jobs \cup {NoJob}
  /\ master \in {"lock", "waiting", "join", "check", "exited"}
  /\ cur \in Jobs \cup {NoJob}
  /\ pc \in [Threads -> {"spawned", "broken", "idle", "push", "notify", "threw", "join",
                         "d_stop", "d_exit", "d_join", "gone"}]
  /\ stopSig \in BOOLEAN /\ exitSig \in BOOLEAN /\ stopped \in BOOLEAN
  /\ number \in [Jobs -> Nat]
  /\ late \in [Jobs -> 0 .. 2]

(* attach_job adds "a new job that depends on all jobs previously          *)
(* attached": a job runs, or has run, only if every job attached before it *)
(* is finished or was discarded.                                           *)
InOrder ==
  \A i, j \in Jobs :
    0 < number[i] /\ number[i] < number[j] /\ (Active(j) \/ jst[j] = "done") => Settled(i)

(* What join() waits on, the last attached job, covers all the others as  *)
(* long as nobody stopped the sequence.                                   *)
LastCoversAll ==
  last # NoJob /\ Settled(last) /\ ~stopSig /\ ~stopped
    => \A j \in Jobs : jst[j] # "new" => Settled(j)

(* Once the destructor is past its stop(), no attach_job that was under   *)
(* way, or that a running job starts, can leave a task in the list.       *)
EmptyOnceStopped == pc[Owner] \in {"d_exit", "d_join", "gone"} => tasks = <<>>

(* The destructor leaves nothing behind: no thread, no task, and every    *)
(* future handed out inside it is ready.                                  *)
NothingOutlivesIt ==
  pc[Owner] = "gone" =>
    master = "exited" /\ tasks = <<>> /\ \A j \in Jobs : jst[j] # "new" => Settled(j)

(* The exit_future_ that is momentarily ready inside the constructor does  *)
(* not end the master thread: it ends only for the destructor.             *)
MasterLives == master = "exited" => pc[Owner] \in {"d_join", "gone"}

(* A job is called at most once more after stop_signal_ is set.            *)
StopsSoon == \A j \in Jobs : late[j] <= 1

(* The destructor ends if the master is not parked when it starts to join. *)
DestructorEnds == pc[Owner] = "d_join" /\ master # "waiting" ~> pc[Owner] = "gone"

Running == IF \E j \in Jobs : Active(j) THEN CHOOSE j \in Jobs : Active(j) ELSE NoJob

(* The sequence is a serial executor: a job is submitted when it is pushed. *)
Executor == INSTANCE SerialExecutor WITH
  queue <- tasks,
  running <- Running,
  finished <- {j \in Jobs : jst[j] = "done"},
  dropped <- {j \in Jobs : jst[j] = "dropped"},
  closed <- stopped

(* Every behaviour is one of a serial executor, with its progress: no      *)
(* notification is lost on a master about to wait.                         *)
ImplementsExecutor == Executor!FairSpec

(* Comment of the destructor's wait, sequence.h:48, "immediately trigger   *)
(* condition": once exit is signalled the master stops waiting.            *)
ExitTriggersCondition == exitSig /\ master = "waiting" ~> master # "waiting"

(* sequence.h:113, "Join all jobs to complete": no job is still active or  *)
(* queued when join() returns.                                             *)
JoinJoinsAll ==
  [][pc[Owner] = "join" /\ pc'[Owner] = "idle" =>
       \A j \in Jobs : ~Active(j) /\ jst[j] # "queued"]_vars
=============================================================================
