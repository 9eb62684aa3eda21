----------------------------- MODULE ManagedJob -----------------------------
(***************************************************************************)
(* cppkg/jobs/managed_job.h: a handle that owns a looping thread and the   *)
(* promise that ends the loop.  Every constructor that is given a job makes *)
(* one shared state and one thread; both carry the same name here, so that *)
(* s stands for "the state and thread of the s-th construction".           *)
(*                                                                         *)
(* A member function is one step, except the destructor, which signals and *)
(* then blocks in join().  Each handle has one caller at a time, but stop() *)
(* may come while another thread blocks in join(), as in the tests.        *)
(***************************************************************************)
EXTENDS Integers

CONSTANTS
  Handles,    \* the ManagedJob objects
  States,     \* shared states, one per construction
  Nil         \* no shared state, no thread

ASSUME ManagedAssumption == Nil \notin States

VARIABLES
  life,       \* of a handle: "none", "live", "dying" (in its destructor)
  sig,        \* exit_signal_: the state it can set, or Nil once moved from
  fut,        \* exit_future_: the state it refers to, or Nil
  job,        \* job_: the thread it can join, or Nil
  promise,    \* of a shared state: "unused", "pending", "set", "broken"
  thread,     \* of a thread: "none", "run", "check", "exited"
  dead        \* std::terminate was called

vars == <<life, sig, fut, job, promise, thread, dead>>

TypeOK ==
  /\ life \in [Handles -> {"none", "live", "dying"}]
  /\ sig \in [Handles -> States \cup {Nil}]
  /\ fut \in [Handles -> States \cup {Nil}]
  /\ job \in [Handles -> States \cup {Nil}]
  /\ promise \in [States -> {"unused", "pending", "set", "broken"}]
  /\ thread \in [States -> {"none", "run", "check", "exited"}]
  /\ dead \in BOOLEAN

Init ==
  /\ life = [o \in Handles |-> "none"]
  /\ sig = [o \in Handles |-> Nil]
  /\ fut = [o \in Handles |-> Nil]
  /\ job = [o \in Handles |-> Nil]
  /\ promise = [s \in States |-> "unused"]
  /\ thread = [s \in States |-> "none"]
  /\ dead = FALSE

joinable(o) == job[o] # Nil
Live(o) == ~dead /\ life[o] = "live"
Unsatisfied(s) == s # Nil /\ promise[s] = "pending"    \* set_value does not throw
Told(s) == promise[s] \in {"set", "broken"}            \* the future is ready

(* ~promise abandons its shared state. *)
Abandon(s) == IF Unsatisfied(s) THEN [promise EXCEPT ![s] = "broken"] ELSE promise

(* Seeded fault: set_value_at_thread_exit for set_value. *)
FaultSetValue(s) == [promise EXCEPT ![s] = "deferred"]
SetValue(s) == [promise EXCEPT ![s] = "set"]

-----------------------------------------------------------------------------
(* Constructors. *)

Construct(o, s) ==
  /\ ~dead /\ life[o] = "none" /\ promise[s] = "unused"
  /\ life' = [life EXCEPT ![o] = "live"]
  /\ sig' = [sig EXCEPT ![o] = s]
  /\ fut' = [fut EXCEPT ![o] = s]
  /\ promise' = [promise EXCEPT ![s] = "pending"]
  /\ UNCHANGED dead

Default(o, s) == Construct(o, s) /\ UNCHANGED <<job, thread>>

Start(o, s) ==
  /\ Construct(o, s)
  /\ job' = [job EXCEPT ![o] = s]
  /\ thread' = [thread EXCEPT ![s] = "run"]

(* The move constructor asks the promise for a future that was handed out  *)
(* before (or for one of no state): it always throws, and unwinding        *)
(* destroys the moved members; a joinable thread among them is fatal.      *)
MoveConstruct(other) ==
  /\ Live(other)
  /\ sig' = [sig EXCEPT ![other] = Nil]
  /\ job' = [job EXCEPT ![other] = Nil]
  /\ promise' = IF joinable(other) THEN promise ELSE Abandon(sig[other])
  /\ dead' = joinable(other)
  /\ UNCHANGED <<life, fut, thread>>

-----------------------------------------------------------------------------
(* Operations. *)

(* Seeded fault: exit_signal_ stays with the handle moved from. *)
FaultTakeSignal(o, other) == sig
TakeSignal(o, other) == [sig EXCEPT ![o] = sig[other], ![other] = Nil]
(* Seeded fault: the thread is let go, not taken over. *)
FaultTakeJob(o, other) == [job EXCEPT ![other] = Nil]
TakeJob(o, other) == [job EXCEPT ![o] = job[other], ![other] = Nil]

TakeAll(o, other) ==
  /\ sig' = TakeSignal(o, other)
  /\ fut' = [fut EXCEPT ![o] = fut[other], ![other] = Nil]
  /\ job' = TakeJob(o, other)
  /\ UNCHANGED <<life, thread, dead>>

(* Seeded fault: signalled only when there is nothing to join. *)
FaultMustSignal(o) == ~joinable(o) /\ fut[o] # Nil
MustSignal(o) == joinable(o) /\ fut[o] # Nil

(* A running job is told to stop and detached, not joined. *)
AssignOverJob(o, other) ==
  /\ Live(o) /\ Live(other) /\ o # other
  /\ MustSignal(o)
  /\ Unsatisfied(sig[o])    \* otherwise set_value throws and nothing has changed
  /\ promise' = SetValue(sig[o])
  /\ TakeAll(o, other)

AssignOverNone(o, other) ==
  /\ Live(o) /\ Live(other) /\ o # other
  /\ ~joinable(o)
  /\ promise' = Abandon(sig[o])
  /\ TakeAll(o, other)

(* On a job that was stopped before, set_value throws: no state changes. *)
stop(o) ==
  /\ Live(o) /\ joinable(o) /\ Unsatisfied(sig[o])
  /\ promise' = SetValue(sig[o])
  /\ UNCHANGED <<life, sig, fut, job, thread, dead>>

join(o) ==
  /\ Live(o) /\ joinable(o) /\ thread[job[o]] = "exited"
  /\ job' = [job EXCEPT ![o] = Nil]
  /\ UNCHANGED <<life, sig, fut, promise, thread, dead>>

(* The destructor is noexcept: a second set_value ends the program. *)
DtorSignal(o) ==
  /\ Live(o)
  /\ IF MustSignal(o)
     THEN IF Unsatisfied(sig[o])
          THEN promise' = SetValue(sig[o]) /\ UNCHANGED dead
          ELSE dead' = TRUE /\ UNCHANGED promise
     ELSE UNCHANGED <<promise, dead>>
  /\ life' = [life EXCEPT ![o] = "dying"]
  /\ UNCHANGED <<sig, fut, job, thread>>

DtorMayEnd(o) == joinable(o) => thread[job[o]] = "exited"

DtorJoin(o) ==
  /\ ~dead /\ life[o] = "dying" /\ DtorMayEnd(o)
  /\ life' = [life EXCEPT ![o] = "none"]
  /\ promise' = Abandon(sig[o])
  /\ sig' = [sig EXCEPT ![o] = Nil]
  /\ fut' = [fut EXCEPT ![o] = Nil]
  /\ job' = [job EXCEPT ![o] = Nil]
  /\ UNCHANGED <<thread, dead>>

-----------------------------------------------------------------------------
(* The thread: do job(...) while its own copy of the future is not ready. *)

RunJob(s) ==
  /\ ~dead /\ thread[s] = "run"
  /\ thread' = [thread EXCEPT ![s] = "check"]
  /\ UNCHANGED <<life, sig, fut, job, promise, dead>>

LoopEnds(s) == Told(s)

CheckExit(s) ==
  /\ ~dead /\ thread[s] = "check"
  /\ thread' = [thread EXCEPT ![s] = IF LoopEnds(s) THEN "exited" ELSE "run"]
  /\ UNCHANGED <<life, sig, fut, job, promise, dead>>

Thread(s) == RunJob(s) \/ CheckExit(s)

Next ==
  \/ \E o \in Handles, s \in States : Default(o, s) \/ Start(o, s)
  \/ \E o, other \in Handles : AssignOverJob(o, other) \/ AssignOverNone(o, other)
  \/ \E o \in Handles : MoveConstruct(o) \/ stop(o) \/ join(o) \/ DtorSignal(o) \/ DtorJoin(o)
  \/ \E s \in States : Thread(s)

Spec == Init /\ [][Next]_vars

(* Threads run, and a destructor that began goes on; jobs return. *)
FairSpec ==
  /\ Spec
  /\ \A s \in States : WF_vars(Thread(s))
  /\ \A o \in Handles : WF_vars(DtorJoin(o))

-----------------------------------------------------------------------------
(* Properties. *)

(* A handle that can join a thread can also end it: after any moves,       *)
(* exit_signal_ and exit_future_ are those of job_, and of no other handle. *)
HandleControlsJob ==
  \A o \in Handles : joinable(o) =>
    /\ sig[o] = job[o] /\ fut[o] = job[o]
    /\ \A other \in Handles \ {o} : job[o] \notin {sig[other], fut[other], job[other]}

(* No thread runs that nobody can end: it has a handle or was told to stop. *)
NoOrphan ==
  ~dead => \A s \in States : thread[s] \in {"run", "check"} =>
             Told(s) \/ \E o \in Handles : job[o] = s

(* A destructor, which signals first, does not wait forever. *)
DestructorEnds == \A o \in Handles : life[o] = "dying" ~> life[o] = "none" \/ dead
=============================================================================
