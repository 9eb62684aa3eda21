--------------------------- MODULE SequenceProofs ---------------------------
(***************************************************************************)
(* Proofs about Sequence for any set of jobs.  The safety invariants rest  *)
(* on one inductive invariant, IndInv, whose parts say what the queue, the *)
(* numbering, the threads and the destructor have to do with each other.   *)
(***************************************************************************)
EXTENDS Sequence, TLAPS

(* A job has a number once it is attached; the last attached has the       *)
(* greatest; a job not yet pushed is the last one, and somebody pushes it. *)
Numbering ==
  /\ \A i, j \in Jobs : number[i] = number[j] /\ number[i] # 0 => i = j
  /\ \A j \in Jobs : jst[j] = "new" <=> number[j] = 0
  /\ last = NoJob => \A j \in Jobs : number[j] = 0
  /\ last # NoJob => number[last] # 0 /\ \A j \in Jobs : number[j] <= number[last]
  /\ \A j \in Jobs : jst[j] = "announced" => j = last
  /\ last # NoJob /\ jst[last] = "announced" => \E t \in Threads : pc[t] = "push"

(* tasks_ holds the queued jobs, in the order of their numbers. *)
Queueing ==
  /\ \A k \in 1 .. Len(tasks) : jst[tasks[k]] = "queued"
  /\ \A j \in Jobs : jst[j] = "queued" => \E k \in 1 .. Len(tasks) : tasks[k] = j
  /\ \A k, l \in 1 .. Len(tasks) : k < l => number[tasks[k]] < number[tasks[l]]

(* The master joins the one active job; a job calls only from inside itself. *)
Working ==
  /\ \A j \in Jobs : Active(j) => master = "join" /\ cur = j
  /\ master = "join" => cur \in Jobs
  /\ \A j \in Jobs : pc[j] # "idle" => jst[j] = "call"
  /\ \A j \in Jobs : pc[j] \in {"idle", "push", "notify", "threw"}
  /\ \A t \in Threads : pc[t] = "push" => last # NoJob

(* What the flags tell of the destructor and of the jobs. *)
Stopping ==
  /\ InDestructor => stopped
  /\ exitSig => pc[Owner] \in {"d_join", "gone"}
  /\ master = "exited" => exitSig
  /\ pc[Owner] = "gone" => master = "exited"
  /\ \A j \in Jobs : jst[j] = "dropped" => stopSig \/ stopped
  /\ \A j \in Jobs : late[j] # 0 => stopSig /\ late[j] = 1 /\ jst[j] \in {"call", "poll", "done"}

IndInv ==
  /\ TypeOK
  /\ Numbering
  /\ Queueing
  /\ Working
  /\ Stopping
  /\ InOrder
  /\ EmptyOnceStopped

(* What pop_front leaves: every other task, moved up by one. *)
LEMMA TailElements ==
  ASSUME NEW S, NEW s \in Seq(S), s # <<>>
  PROVE  /\ Len(s) \in Nat /\ 1 \in 1 .. Len(s)
         /\ \A k \in 1 .. Len(Tail(s)) :
              k \in Int /\ k + 1 \in 2 .. Len(s) /\ Tail(s)[k] = s[k + 1] /\ s[k + 1] \in S
         /\ \A k \in 2 .. Len(s) : k - 1 \in 1 .. Len(Tail(s)) /\ Tail(s)[k - 1] = s[k]
OBVIOUS

(* What push_back adds: one task, behind all the others. *)
LEMMA AppendElements ==
  ASSUME NEW S, NEW s \in Seq(S), NEW x
  PROVE  /\ Len(s) \in Nat /\ Len(Append(s, x)) = Len(s) + 1
         /\ \A k \in 1 .. Len(s) : Append(s, x)[k] = s[k] /\ s[k] \in S /\ k < Len(s) + 1
         /\ \A k \in 1 .. Len(s) + 1 :
              k \in 1 .. Len(s) \/ (k = Len(s) + 1 /\ Append(s, x)[k] = x)
         /\ Len(s) + 1 \in 1 .. Len(s) + 1
OBVIOUS

(* Every action keeps the types. *)
LEMMA TypeStep ==
  TypeOK /\ Working /\ [Next]_vars => TypeOK'
<1> SUFFICES ASSUME TypeOK, Working, [Next]_vars
             PROVE  TypeOK'
  OBVIOUS
<1> USE JobsAssumption DEF TypeOK, vars, signals, history, Threads, JobStates, Goto, Becomes, Woken, Working
<1>1. CASE MoveSignal \/ MoveFuture \/ JoinReturns \/ Join
  BY <1>1 DEF MoveSignal, MoveFuture, JoinReturns, Join
<1>2. CASE DtorStop
  BY <1>2 DEF DtorStop, stop
<1>3. CASE SetStopped \/ StopMaster \/ JoinMaster
  BY <1>3 DEF SetStopped, StopMaster, JoinMaster, MasterEnded
<1>4. CASE Stop
  BY <1>4 DEF Stop, stop
<1>5. CASE Take
  BY <1>5 DEF Take
<1>6. CASE Park \/ ReturnEmpty \/ MasterJoin \/ LoopCheck \/ SpuriousWake
  BY <1>6 DEF Park, ReturnEmpty, MasterJoin, JobThreadEnded, LoopCheck, StopIt, SpuriousWake
<1>7. ASSUME NEW t \in Threads, Attach(t) PROVE TypeOK'
  <2>1. CASE Push(t)
    BY <2>1 DEF Push, Refused, PushBack
  <2>2. CASE Reject(t)
    BY <2>2 DEF Reject, Refused
  <2>3. CASE Notify(t)
    BY <2>3 DEF Notify
  <2> QED
    BY <1>7, <2>1, <2>2, <2>3 DEF Attach
<1>8. ASSUME NEW t \in Threads, NEW k \in Jobs, Announce(t, k) PROVE TypeOK'
  BY <1>8 DEF Announce, MayCall, Unclaimed, NextNumber
<1>9. ASSUME NEW k \in Jobs, JobStep(k) PROVE TypeOK'
  <2>1. CASE CallJob(k)
    BY <2>1 DEF CallJob
  <2>2. CASE ReturnFalse(k)
    BY <2>2 DEF ReturnFalse
  <2>3. CASE ReturnTrue(k)
    BY <2>3 DEF ReturnTrue
  <2>4. CASE Unwind(k)
    BY <2>4 DEF Unwind
  <2>5. CASE PollStop(k)
    BY <2>5 DEF PollStop, StopSeen
  <2> QED
    BY <1>9, <2>1, <2>2, <2>3, <2>4, <2>5 DEF JobStep
<1>10. CASE UNCHANGED vars
  BY <1>10
<1>11. QED
  BY <1>1, <1>2, <1>3, <1>4, <1>5, <1>6, <1>7, <1>8, <1>9, <1>10 DEF Next, Master, Attach, OwnerStep

(* Numbers stay distinct, and last_future_ stays with the highest one. *)
LEMMA NumberingStep ==
  TypeOK /\ Numbering /\ Queueing /\ Working /\ [Next]_vars => Numbering'
<1> SUFFICES ASSUME TypeOK, Numbering, Queueing, Working, [Next]_vars
             PROVE  Numbering'
  OBVIOUS
<1> USE JobsAssumption DEF TypeOK, vars, signals, history, Threads, JobStates, Goto, Becomes, Woken, Numbering, Queueing, Working, Active
<1>1. CASE OwnerStep \/ Join \/ SetStopped
  BY <1>1 DEF OwnerStep, MoveSignal, MoveFuture, JoinReturns, DtorStop, stop, StopMaster,
                JoinMaster, MasterEnded, Join, SetStopped
<1>2. CASE Stop
  BY <1>2 DEF Stop, stop
<1>3. CASE Take
  BY <1>3 DEF Take
<1>4. CASE Park \/ ReturnEmpty \/ MasterJoin \/ LoopCheck \/ SpuriousWake
  BY <1>4 DEF Park, ReturnEmpty, MasterJoin, JobThreadEnded, LoopCheck, StopIt, SpuriousWake
<1>5. ASSUME NEW t \in Threads, Attach(t) PROVE Numbering'
  BY <1>5 DEF Attach, Push, Reject, Notify, Refused, PushBack
<1>6. ASSUME NEW t \in Threads, NEW k \in Jobs, Announce(t, k) PROVE Numbering'
  BY <1>6 DEF Announce, MayCall, Unclaimed, NextNumber
<1>7. ASSUME NEW k \in Jobs, JobStep(k) PROVE Numbering'
  BY <1>7 DEF JobStep, CallJob, ReturnFalse, ReturnTrue, Unwind, PollStop, StopSeen
<1>8. CASE UNCHANGED vars
  BY <1>8
<1>9. QED
  BY <1>1, <1>2, <1>3, <1>4, <1>5, <1>6, <1>7, <1>8 DEF Next, Master, Attach

(* The list keeps the order of the attach_job calls and holds each job once. *)
LEMMA QueueingStep ==
  TypeOK /\ Numbering /\ Queueing /\ Working /\ [Next]_vars => Queueing'
<1> SUFFICES ASSUME TypeOK, Numbering, Queueing, Working, [Next]_vars
             PROVE  Queueing'
  OBVIOUS
<1> USE JobsAssumption DEF TypeOK, vars, signals, history, Threads, JobStates, Goto, Becomes, Woken, Numbering, Queueing, Working, Active
<1>1. CASE OwnerStep \/ Join \/ SetStopped
  BY <1>1 DEF OwnerStep, MoveSignal, MoveFuture, JoinReturns, DtorStop, stop, StopMaster,
                JoinMaster, MasterEnded, Join, SetStopped
<1>2. CASE Stop
  BY <1>2 DEF Stop, stop
<1>3. CASE Take
  <2>1. /\ tasks # <<>> /\ tasks' = Tail(tasks) /\ cur' = tasks[1]
        /\ jst' = [jst EXCEPT ![cur'] = "held"] /\ number' = number
    BY <1>3 DEF Take
  <2>2. /\ Len(tasks) \in Nat /\ 1 \in 1 .. Len(tasks)
        /\ \A k \in 1 .. Len(tasks') :
             k \in Int /\ k + 1 \in 2 .. Len(tasks) /\ tasks'[k] = tasks[k + 1] /\ tasks[k + 1] \in Jobs
        /\ \A k \in 2 .. Len(tasks) : k - 1 \in 1 .. Len(tasks') /\ tasks'[k - 1] = tasks[k]
    BY <2>1, TailElements
  <2>3. cur' \in Jobs
    BY <2>1, <2>2
  <2>4. \A k \in 2 .. Len(tasks) : number[tasks[1]] < number[tasks[k]] /\ tasks[k] # tasks[1]
    BY <2>1, <2>2, <2>3
  <2>5. \A k \in 1 .. Len(tasks') : jst'[tasks'[k]] = "queued"
    BY <2>1, <2>2, <2>3, <2>4
  <2>6. \A j \in Jobs : jst'[j] = "queued" => \E k \in 1 .. Len(tasks') : tasks'[k] = j
    <3> SUFFICES ASSUME NEW j \in Jobs, jst'[j] = "queued"
                 PROVE  \E k \in 1 .. Len(tasks') : tasks'[k] = j
      OBVIOUS
    <3>1. j # tasks[1] /\ jst[j] = "queued"
      BY <2>1, <2>3
    <3>2. PICK k \in 1 .. Len(tasks) : tasks[k] = j
      BY <3>1
    <3>3. k \in 2 .. Len(tasks)
      BY <2>2, <3>1, <3>2
    <3> QED
      BY <2>2, <3>2, <3>3
  <2>7. \A k, l \in 1 .. Len(tasks') : k < l => number'[tasks'[k]] < number'[tasks'[l]]
    BY <2>1, <2>2
  <2> QED
    BY <2>5, <2>6, <2>7
<1>4. CASE Park \/ ReturnEmpty \/ MasterJoin \/ LoopCheck \/ SpuriousWake
  BY <1>4 DEF Park, ReturnEmpty, MasterJoin, JobThreadEnded, LoopCheck, StopIt, SpuriousWake
<1>5. ASSUME NEW t \in Threads, Push(t) PROVE Queueing'
  <2>1. /\ last \in Jobs /\ jst[last] = "announced" /\ number' = number
        /\ tasks' = Append(tasks, last) /\ jst' = [jst EXCEPT ![last] = "queued"]
    BY <1>5 DEF Push, PushBack
  <2>2. /\ Len(tasks') = Len(tasks) + 1
        /\ \A k \in 1 .. Len(tasks) : tasks'[k] = tasks[k] /\ tasks[k] \in Jobs /\ k < Len(tasks) + 1
        /\ \A k \in 1 .. Len(tasks') :
             k \in 1 .. Len(tasks) \/ (k = Len(tasks) + 1 /\ tasks'[k] = last)
        /\ Len(tasks) + 1 \in 1 .. Len(tasks')
    BY <2>1, AppendElements
  <2>3. \A k \in 1 .. Len(tasks) : tasks[k] # last /\ number[tasks[k]] < number[last]
    <3> SUFFICES ASSUME NEW k \in 1 .. Len(tasks)
                 PROVE  tasks[k] # last /\ number[tasks[k]] < number[last]
      OBVIOUS
    <3>1. tasks[k] # last /\ tasks[k] \in Jobs
      BY <2>1, <2>2
    <3>2. number[tasks[k]] <= number[last] /\ number[last] # 0 /\ number[tasks[k]] # number[last]
      BY <2>1, <3>1
    <3> QED
      BY <2>1, <3>1, <3>2
  <2>4. \A k \in 1 .. Len(tasks') : jst'[tasks'[k]] = "queued"
    BY <2>1, <2>2, <2>3
  <2>5. \A j \in Jobs : jst'[j] = "queued" => \E k \in 1 .. Len(tasks') : tasks'[k] = j
    BY <2>1, <2>2
  <2>6. \A k, l \in 1 .. Len(tasks') : k < l => number'[tasks'[k]] < number'[tasks'[l]]
    <3> SUFFICES ASSUME NEW k \in 1 .. Len(tasks'), NEW l \in 1 .. Len(tasks'), k < l
                 PROVE  number[tasks'[k]] < number[tasks'[l]]
      BY <2>1
    <3>1. CASE k \in 1 .. Len(tasks) /\ l \in 1 .. Len(tasks)
      BY <2>2, <3>1
    <3>2. CASE k \in 1 .. Len(tasks) /\ tasks'[l] = last
      BY <2>2, <2>3, <3>2
    <3>3. k \in 1 .. Len(tasks)
      BY <2>2
    <3> QED
      BY <2>2, <3>1, <3>2, <3>3
  <2> QED
    BY <2>4, <2>5, <2>6
<1>6. ASSUME NEW t \in Threads, Reject(t) \/ Notify(t) PROVE Queueing'
  BY <1>6 DEF Reject, Refused, Notify
<1>7. ASSUME NEW t \in Threads, NEW k \in Jobs, Announce(t, k) PROVE Queueing'
  BY <1>7 DEF Announce, MayCall, Unclaimed, NextNumber
<1>8. ASSUME NEW k \in Jobs, JobStep(k) PROVE Queueing'
  <2>1. CASE CallJob(k)
    BY <2>1 DEF CallJob
  <2>2. CASE ReturnFalse(k)
    BY <2>2 DEF ReturnFalse
  <2>3. CASE ReturnTrue(k)
    BY <2>3 DEF ReturnTrue
  <2>4. CASE Unwind(k)
    BY <2>4 DEF Unwind
  <2>5. CASE PollStop(k)
    BY <2>5 DEF PollStop, StopSeen
  <2> QED
    BY <1>8, <2>1, <2>2, <2>3, <2>4, <2>5 DEF JobStep
<1>9. CASE UNCHANGED vars
  BY <1>9
<1>10. QED
  BY <1>1, <1>2, <1>3, <1>4, <1>5, <1>6, <1>7, <1>8, <1>9 DEF Next, Master, Attach

(* The master keeps exactly one job under way, the one it waits for. *)
LEMMA WorkingStep ==
  TypeOK /\ Numbering /\ Queueing /\ Working /\ [Next]_vars => Working'
<1> SUFFICES ASSUME TypeOK, Numbering, Queueing, Working, [Next]_vars
             PROVE  Working'
  OBVIOUS
<1> USE JobsAssumption DEF TypeOK, vars, signals, history, Threads, JobStates, Goto, Becomes, Woken, Queueing, Working, Active, Numbering
<1>1. CASE OwnerStep \/ Join \/ SetStopped
  BY <1>1 DEF OwnerStep, MoveSignal, MoveFuture, JoinReturns, DtorStop, stop, StopMaster,
                JoinMaster, MasterEnded, Join, SetStopped
<1>2. CASE Stop
  BY <1>2 DEF Stop, stop
<1>3. CASE Take
  BY <1>3 DEF Take
<1>4. CASE Park \/ ReturnEmpty \/ MasterJoin \/ LoopCheck \/ SpuriousWake
  BY <1>4 DEF Park, ReturnEmpty, MasterJoin, JobThreadEnded, LoopCheck, StopIt, SpuriousWake
<1>5. ASSUME NEW t \in Threads, Attach(t) PROVE Working'
  <2>1. CASE Push(t)
    BY <2>1 DEF Push, Refused, PushBack
  <2>2. CASE Reject(t)
    BY <2>2 DEF Reject, Refused
  <2>3. CASE Notify(t)
    BY <2>3 DEF Notify
  <2> QED
    BY <1>5, <2>1, <2>2, <2>3 DEF Attach
<1>6. ASSUME NEW t \in Threads, NEW k \in Jobs, Announce(t, k) PROVE Working'
  BY <1>6 DEF Announce, MayCall, Unclaimed, NextNumber
<1>7. ASSUME NEW k \in Jobs, JobStep(k) PROVE Working'
  <2>1. CASE CallJob(k)
    BY <2>1 DEF CallJob
  <2>2. CASE ReturnFalse(k)
    BY <2>2 DEF ReturnFalse
  <2>3. CASE ReturnTrue(k)
    BY <2>3 DEF ReturnTrue
  <2>4. CASE Unwind(k)
    BY <2>4 DEF Unwind
  <2>5. CASE PollStop(k)
    BY <2>5 DEF PollStop, StopSeen
  <2> QED
    BY <1>7, <2>1, <2>2, <2>3, <2>4, <2>5 DEF JobStep
<1>8. CASE UNCHANGED vars
  BY <1>8
<1>9. QED
  BY <1>1, <1>2, <1>3, <1>4, <1>5, <1>6, <1>7, <1>8 DEF Next, Master, Attach

(* The signals keep following the destructor and stop(). *)
LEMMA StoppingStep ==
  TypeOK /\ Numbering /\ Queueing /\ Working /\ Stopping /\ [Next]_vars => Stopping'
<1> SUFFICES ASSUME TypeOK, Numbering, Queueing, Working, Stopping, [Next]_vars
             PROVE  Stopping'
  OBVIOUS
<1> USE JobsAssumption DEF TypeOK, vars, signals, history, Threads, JobStates, Goto, Becomes, Woken, Numbering, Queueing, Working, Stopping, Active, InDestructor, InConstructor
<1>1. CASE OwnerStep \/ Join \/ SetStopped
  BY <1>1 DEF OwnerStep, MoveSignal, MoveFuture, JoinReturns, DtorStop, stop, StopMaster,
                JoinMaster, MasterEnded, Join, SetStopped
<1>2. CASE Stop
  BY <1>2 DEF Stop, stop
<1>3. CASE Take
  BY <1>3 DEF Take
<1>4. CASE Park \/ ReturnEmpty \/ MasterJoin \/ LoopCheck \/ SpuriousWake
  BY <1>4 DEF Park, ReturnEmpty, MasterJoin, JobThreadEnded, LoopCheck, StopIt, SpuriousWake
<1>5. ASSUME NEW t \in Threads, Attach(t) PROVE Stopping'
  BY <1>5 DEF Attach, Push, Reject, Notify, Refused, PushBack
<1>6. ASSUME NEW t \in Threads, NEW k \in Jobs, Announce(t, k) PROVE Stopping'
  BY <1>6 DEF Announce, MayCall, Unclaimed, NextNumber
<1>7. ASSUME NEW k \in Jobs, JobStep(k) PROVE Stopping'
  BY <1>7 DEF JobStep, CallJob, ReturnFalse, ReturnTrue, Unwind, PollStop, StopSeen
<1>8. CASE UNCHANGED vars
  BY <1>8
<1>9. QED
  BY <1>1, <1>2, <1>3, <1>4, <1>5, <1>6, <1>7, <1>8 DEF Next, Master, Attach

(* A job still finds all earlier ones settled when it is taken. *)
LEMMA OrderStep ==
  TypeOK /\ Numbering /\ Queueing /\ Working /\ InOrder /\ [Next]_vars => InOrder'
<1> SUFFICES ASSUME TypeOK, Numbering, Queueing, Working, InOrder, [Next]_vars
             PROVE  InOrder'
  OBVIOUS
<1> USE JobsAssumption DEF TypeOK, vars, signals, history, Threads, JobStates, Goto, Becomes, Woken, Numbering, Queueing, Working, InOrder, Active, Settled
<1>1. CASE OwnerStep \/ Join \/ SetStopped
  BY <1>1 DEF OwnerStep, MoveSignal, MoveFuture, JoinReturns, DtorStop, stop, StopMaster,
                JoinMaster, MasterEnded, Join, SetStopped
<1>2. CASE Stop
  BY <1>2 DEF Stop, stop
<1>3. CASE Take
  <2>1. /\ 1 \in 1 .. Len(tasks) /\ cur' = tasks[1] /\ cur' \in Jobs /\ master = "lock"
        /\ jst' = [jst EXCEPT ![cur'] = "held"] /\ number' = number
    BY <1>3 DEF Take
  <2>2. \A i \in Jobs : 0 < number[i] /\ number[i] < number[cur'] => Settled(i)
    <3> SUFFICES ASSUME NEW i \in Jobs, 0 < number[i], number[i] < number[cur']
                 PROVE  Settled(i)
      OBVIOUS
    <3>1. jst[i] # "queued"
      <4> SUFFICES ASSUME jst[i] = "queued" PROVE FALSE
        OBVIOUS
      <4>1. PICK k \in 1 .. Len(tasks) : tasks[k] = i
        OBVIOUS
      <4> QED
        BY <2>1, <4>1
    <3>2. jst[i] # "announced"
      BY <2>1
    <3> QED
      BY <2>1, <3>1, <3>2
  <2> QED
    BY <2>1, <2>2
<1>4. CASE Park \/ ReturnEmpty \/ MasterJoin \/ LoopCheck \/ SpuriousWake
  BY <1>4 DEF Park, ReturnEmpty, MasterJoin, JobThreadEnded, LoopCheck, StopIt, SpuriousWake
<1>5. ASSUME NEW t \in Threads, Attach(t) PROVE InOrder'
  BY <1>5 DEF Attach, Push, Reject, Notify, Refused, PushBack
<1>6. ASSUME NEW t \in Threads, NEW k \in Jobs, Announce(t, k) PROVE InOrder'
  BY <1>6 DEF Announce, MayCall, Unclaimed, NextNumber
<1>7. ASSUME NEW k \in Jobs, JobStep(k) PROVE InOrder'
  BY <1>7 DEF JobStep, CallJob, ReturnFalse, ReturnTrue, Unwind, PollStop, StopSeen
<1>8. CASE UNCHANGED vars
  BY <1>8
<1>9. QED
  BY <1>1, <1>2, <1>3, <1>4, <1>5, <1>6, <1>7, <1>8 DEF Next, Master, Attach

(* Nothing enters the list once stopped_ is set and stop() has emptied it. *)
LEMMA EmptyStep ==
  TypeOK /\ Stopping /\ EmptyOnceStopped /\ [Next]_vars => EmptyOnceStopped'
<1> SUFFICES ASSUME TypeOK, Stopping, EmptyOnceStopped, [Next]_vars
             PROVE  EmptyOnceStopped'
  OBVIOUS
<1> USE JobsAssumption DEF TypeOK, vars, signals, history, Threads, JobStates, Goto, Becomes, Woken, Stopping, InDestructor, InConstructor, EmptyOnceStopped
<1>1. CASE OwnerStep \/ Join \/ SetStopped
  BY <1>1 DEF OwnerStep, MoveSignal, MoveFuture, JoinReturns, DtorStop, stop, StopMaster,
                JoinMaster, MasterEnded, Join, SetStopped
<1>2. CASE Stop
  BY <1>2 DEF Stop, stop
<1>3. CASE Take
  BY <1>3 DEF Take
<1>4. CASE Park \/ ReturnEmpty \/ MasterJoin \/ LoopCheck \/ SpuriousWake
  BY <1>4 DEF Park, ReturnEmpty, MasterJoin, JobThreadEnded, LoopCheck, StopIt, SpuriousWake
<1>5. ASSUME NEW t \in Threads, Attach(t) PROVE EmptyOnceStopped'
  BY <1>5 DEF Attach, Push, Reject, Notify, Refused, PushBack
<1>6. ASSUME NEW t \in Threads, NEW k \in Jobs, Announce(t, k) PROVE EmptyOnceStopped'
  BY <1>6 DEF Announce, MayCall, Unclaimed, NextNumber
<1>7. ASSUME NEW k \in Jobs, JobStep(k) PROVE EmptyOnceStopped'
  BY <1>7 DEF JobStep, CallJob, ReturnFalse, ReturnTrue, Unwind, PollStop, StopSeen
<1>8. CASE UNCHANGED vars
  BY <1>8
<1>9. QED
  BY <1>1, <1>2, <1>3, <1>4, <1>5, <1>6, <1>7, <1>8 DEF Next, Master, Attach

(* The constructor leaves every part of the invariant true. *)
LEMMA InitHolds == Init => IndInv
<1> SUFFICES ASSUME Init PROVE IndInv
  OBVIOUS
<1> USE JobsAssumption DEF Init, Threads
<1>1. TypeOK
  <2>1. tasks \in Seq(Jobs) /\ late \in [Jobs -> 0 .. 2]
    OBVIOUS
  <2> QED
    BY <2>1 DEF TypeOK, JobStates
<1>2. Numbering /\ InOrder
  BY DEF Numbering, InOrder, Active
<1>3. Queueing
  BY DEF Queueing
<1>4. Working
  BY DEF Working, Active
<1>5. Stopping /\ EmptyOnceStopped
  BY DEF Stopping, InDestructor, EmptyOnceStopped
<1> QED
  BY <1>1, <1>2, <1>3, <1>4, <1>5 DEF IndInv

(* Every step preserves the invariant: the lemmas on its parts together. *)
LEMMA StepHolds == IndInv /\ [Next]_vars => IndInv'
BY TypeStep, NumberingStep, QueueingStep, WorkingStep, StoppingStep, OrderStep, EmptyStep DEF IndInv

(* The inductive invariant holds in every reachable state. *)
THEOREM Inductive == Spec => []IndInv
BY InitHolds, StepHolds, PTL DEF Spec

(* Every variable keeps its type. *)
THEOREM TypeCorrect == Spec => []TypeOK
<1>1. IndInv => TypeOK
  BY DEF IndInv
<1> QED
  BY <1>1, Inductive, PTL

(* Jobs run in the order in which they were attached, one at a time. *)
THEOREM OrderCorrect == Spec => []InOrder
<1>1. IndInv => InOrder
  BY DEF IndInv
<1> QED
  BY <1>1, Inductive, PTL

(* join() on an unstopped sequence covers every job, not just the last. *)
THEOREM JoinCoversAll == Spec => []LastCoversAll
<1>1. IndInv => LastCoversAll
  <2> SUFFICES ASSUME IndInv, last # NoJob, Settled(last), ~stopSig, ~stopped,
                      NEW j \in Jobs, jst[j] # "new"
               PROVE  Settled(j)
    BY DEF LastCoversAll
  <2>1. last \in Jobs /\ number \in [Jobs -> Nat]
    BY DEF IndInv, TypeOK
  <2>2. jst[last] = "done"
    BY <2>1 DEF IndInv, Stopping, Settled
  <2>3. number[j] # 0 /\ number[j] <= number[last] /\ (number[j] = number[last] => j = last)
    BY <2>1 DEF IndInv, Numbering
  <2>4. CASE number[j] < number[last]
    BY <2>1, <2>2, <2>3, <2>4 DEF IndInv, InOrder
  <2>5. CASE number[j] = number[last]
    BY <2>3, <2>5
  <2> QED
    BY <2>1, <2>3, <2>4, <2>5
<1> QED
  BY <1>1, Inductive, PTL

(* No task is left in the list once the destructor has called stop(). *)
THEOREM NothingQueuedAfterStop == Spec => []EmptyOnceStopped
<1>1. IndInv => EmptyOnceStopped
  BY DEF IndInv
<1> QED
  BY <1>1, Inductive, PTL

(* The destructor leaves no thread, no task and no future that is not ready. *)
THEOREM DestructionIsClean == Spec => []NothingOutlivesIt
<1>1. IndInv => NothingOutlivesIt
  <2> SUFFICES ASSUME IndInv, pc[Owner] = "gone"
               PROVE  master = "exited" /\ tasks = <<>> /\ \A j \in Jobs : jst[j] # "new" => Settled(j)
    BY DEF NothingOutlivesIt
  <2>1. master = "exited" /\ tasks = <<>>
    BY DEF IndInv, Stopping, EmptyOnceStopped
  <2>2. \A j \in Jobs : ~Active(j) /\ jst[j] # "queued"
    <3>1. 1 .. Len(tasks) = {}
      BY <2>1
    <3>2. \A j \in Jobs : jst[j] # "queued"
      BY <3>1 DEF IndInv, Queueing
    <3>3. \A j \in Jobs : ~Active(j)
      BY <2>1 DEF IndInv, Working
    <3> QED
      BY <3>2, <3>3
  <2>3. \A t \in Threads : pc[t] # "push"
    BY <2>2 DEF IndInv, Working, Threads, Active
  <2>4. \A j \in Jobs : jst[j] # "announced"
    BY <2>3, JobsAssumption DEF IndInv, Numbering
  <2>5. jst \in [Jobs -> JobStates]
    BY DEF IndInv, TypeOK
  <2> QED
    BY <2>1, <2>2, <2>4, <2>5 DEF JobStates, Active, Settled
<1> QED
  BY <1>1, Inductive, PTL

(* The master thread ends for the destructor alone. *)
THEOREM MasterOnlyEndsForDestructor == Spec => []MasterLives
<1>1. IndInv => MasterLives
  BY DEF IndInv, Stopping, MasterLives
<1> QED
  BY <1>1, Inductive, PTL

(* After stop() a job is called at most once more. *)
THEOREM StopIsPrompt == Spec => []StopsSoon
<1>1. IndInv => StopsSoon
  <2> SUFFICES ASSUME IndInv, NEW j \in Jobs PROVE late[j] <= 1
    BY DEF StopsSoon
  <2>1. late[j] = 0 \/ late[j] = 1
    BY DEF IndInv, Stopping
  <2> QED
    BY <2>1
<1> QED
  BY <1>1, Inductive, PTL

-----------------------------------------------------------------------------
(* The sequence implements the serial executor: step simulation.           *)

(* The job that the abstract executor runs is the active one.              *)
OneRuns ==
  /\ Running \in Jobs \cup {NoJob}
  /\ \A j \in Jobs : Active(j) <=> Running = j

LEMMA ActiveRuns == IndInv => OneRuns
<1> SUFFICES ASSUME IndInv PROVE OneRuns
  OBVIOUS
<1>1. \A i, j \in Jobs : Active(i) /\ Active(j) => i = j
  BY DEF IndInv, Working
<1>2. CASE \E j \in Jobs : Active(j)
  <2>1. Running \in Jobs /\ Active(Running)
    BY <1>2 DEF Running
  <2> QED
    BY <1>1, <2>1 DEF OneRuns
<1>3. CASE ~\E j \in Jobs : Active(j)
  BY <1>3, JobsAssumption DEF Running, OneRuns
<1> QED
  BY <1>2, <1>3

(* What waits in the executor is what is queued.                           *)
LEMMA WaitingIsQueued ==
  IndInv => /\ Executor!Waiting \subseteq Jobs
            /\ \A j \in Jobs : j \in Executor!Waiting <=> jst[j] = "queued"
<1> SUFFICES ASSUME IndInv
             PROVE  /\ Executor!Waiting \subseteq Jobs
                    /\ \A j \in Jobs : j \in Executor!Waiting <=> jst[j] = "queued"
  OBVIOUS
<1>1. tasks \in Seq(Jobs) /\ DOMAIN tasks = 1 .. Len(tasks)
  BY DEF IndInv, TypeOK
<1> QED
  BY <1>1 DEF IndInv, Queueing, Executor!Waiting

(* A step that leaves the jobs alone as the executor sees them.            *)
LEMMA Stutters ==
  ASSUME OneRuns, OneRuns', UNCHANGED <<tasks, stopped>>,
         \A j \in Jobs : /\ Active(j)' <=> Active(j)
                         /\ jst'[j] = "done" <=> jst[j] = "done"
                         /\ jst'[j] = "dropped" <=> jst[j] = "dropped"
  PROVE  UNCHANGED Executor!vars
<1>1. Running' = Running
  BY JobsAssumption DEF OneRuns
<1>2. {j \in Jobs : jst[j] = "done"}' = {j \in Jobs : jst[j] = "done"}
  OBVIOUS
<1>3. {j \in Jobs : jst[j] = "dropped"}' = {j \in Jobs : jst[j] = "dropped"}
  OBVIOUS
<1> QED
  BY <1>1, <1>2, <1>3 DEF Executor!vars

LEMMA PushSubmits ==
  ASSUME IndInv, OneRuns, OneRuns', NEW t \in Threads, Push(t)
  PROVE  Executor!Submit(last)
<1> USE JobsAssumption
<1>1. /\ ~stopped /\ last \in Jobs /\ jst[last] = "announced"
      /\ jst' = [jst EXCEPT ![last] = "queued"]
      /\ tasks' = Append(tasks, last) /\ stopped' = stopped
  BY DEF Push, Refused, PushBack, Goto, Becomes, signals, IndInv, Working, TypeOK
<1>2. jst \in [Jobs -> JobStates]
  BY DEF IndInv, TypeOK
<1>3. \A j \in Jobs : /\ Active(j)' <=> Active(j)
                      /\ jst'[j] = "done" <=> jst[j] = "done"
                      /\ jst'[j] = "dropped" <=> jst[j] = "dropped"
  BY <1>1, <1>2 DEF Active
<1>4. /\ Running' = Running
      /\ {j \in Jobs : jst[j] = "done"}' = {j \in Jobs : jst[j] = "done"}
      /\ {j \in Jobs : jst[j] = "dropped"}' = {j \in Jobs : jst[j] = "dropped"}
  BY <1>3 DEF OneRuns
<1>5. last \notin Executor!Known
  <2>1. last \notin Executor!Waiting
    BY <1>1, WaitingIsQueued
  <2>2. last # Running
    BY <1>1 DEF OneRuns, Active
  <2> QED
    BY <1>1, <2>1, <2>2 DEF Executor!Known
<1> QED
  BY <1>1, <1>4, <1>5 DEF Executor!Submit

LEMMA RejectRefuses ==
  ASSUME IndInv, OneRuns, OneRuns', NEW t \in Threads, Reject(t)
  PROVE  Executor!Refuse(last)
<1> USE JobsAssumption
<1>1. /\ stopped /\ last \in Jobs /\ jst[last] = "announced"
      /\ jst' = [jst EXCEPT ![last] = "dropped"]
      /\ tasks' = tasks /\ stopped' = stopped
  BY DEF Reject, Refused, Goto, Becomes, signals, IndInv, Working, TypeOK
<1>2. jst \in [Jobs -> JobStates]
  BY DEF IndInv, TypeOK
<1>3. \A j \in Jobs : /\ Active(j)' <=> Active(j)
                      /\ jst'[j] = "done" <=> jst[j] = "done"
                      /\ jst'[j] = "dropped" <=> (jst[j] = "dropped" \/ j = last)
  BY <1>1, <1>2 DEF Active
<1>4. /\ Running' = Running
      /\ {j \in Jobs : jst[j] = "done"}' = {j \in Jobs : jst[j] = "done"}
      /\ {j \in Jobs : jst[j] = "dropped"}' = {j \in Jobs : jst[j] = "dropped"} \cup {last}
  BY <1>1, <1>3 DEF OneRuns
<1>5. last \notin Executor!Known
  <2>1. last \notin Executor!Waiting
    BY <1>1, WaitingIsQueued
  <2>2. last # Running
    BY <1>1 DEF OneRuns, Active
  <2> QED
    BY <1>1, <2>1, <2>2 DEF Executor!Known
<1> QED
  BY <1>1, <1>4, <1>5 DEF Executor!Refuse

LEMMA TakeStarts ==
  ASSUME IndInv, OneRuns, OneRuns', Take
  PROVE  Executor!Start
<1> USE JobsAssumption
<1>1. /\ master = "lock" /\ tasks # <<>> /\ tasks' = Tail(tasks)
      /\ jst' = [jst EXCEPT ![Head(tasks)] = "held"] /\ stopped' = stopped
  BY DEF Take, signals
<1>2. Head(tasks) \in Jobs /\ jst[Head(tasks)] = "queued"
  <2>1. tasks \in Seq(Jobs)
    BY DEF IndInv, TypeOK
  <2>2. 1 \in 1 .. Len(tasks) /\ Head(tasks) = tasks[1]
    BY <1>1, <2>1, TailElements
  <2> QED
    BY <2>1, <2>2 DEF IndInv, Queueing
<1>3. jst \in [Jobs -> JobStates]
  BY DEF IndInv, TypeOK
<1>4. Running = NoJob
  BY <1>1 DEF IndInv, Working, OneRuns
<1>5. Running' = Head(tasks)
  <2>1. PICK h \in Jobs : h = Head(tasks)
    BY <1>2
  <2>2. jst'[h] = "held"
    BY <1>1, <1>3, <2>1
  <2>3. \A j \in Jobs : Active(j)' <=> Running' = j
    BY DEF OneRuns
  <2>4. Active(h)' <=> jst'[h] \in {"held", "call", "poll"}
    BY DEF Active
  <2> QED
    BY <2>1, <2>2, <2>3, <2>4
<1>6. /\ {j \in Jobs : jst[j] = "done"}' = {j \in Jobs : jst[j] = "done"}
      /\ {j \in Jobs : jst[j] = "dropped"}' = {j \in Jobs : jst[j] = "dropped"}
  BY <1>1, <1>2, <1>3
<1> QED
  BY <1>1, <1>4, <1>5, <1>6 DEF Executor!Start

(* The job returned true, threw, or saw the stop signal after a call.      *)
LEMMA JobFinishes ==
  ASSUME IndInv, OneRuns, OneRuns', NEW j \in Jobs, Active(j),
         jst' = [jst EXCEPT ![j] = "done"], UNCHANGED <<tasks, stopped>>
  PROVE  Executor!Finish
<1> USE JobsAssumption
<1>1. jst \in [Jobs -> JobStates]
  BY DEF IndInv, TypeOK
<1>2. Running = j
  BY DEF OneRuns
<1>3. \A i \in Jobs : ~Active(i)'
  BY <1>1, <1>2 DEF OneRuns, Active
<1>4. Running' = NoJob
  BY <1>3 DEF OneRuns
<1>5. /\ {i \in Jobs : jst[i] = "done"}' = {i \in Jobs : jst[i] = "done"} \cup {j}
      /\ {i \in Jobs : jst[i] = "dropped"}' = {i \in Jobs : jst[i] = "dropped"}
  BY <1>1 DEF Active
<1> QED
  BY <1>2, <1>4, <1>5 DEF Executor!Finish

LEMMA StopDiscards ==
  ASSUME IndInv, OneRuns, OneRuns', stop
  PROVE  Executor!Discard
<1> USE JobsAssumption
<1>1. /\ jst' = [j \in Jobs |-> IF jst[j] = "queued" THEN "dropped" ELSE jst[j]]
      /\ tasks' = <<>> /\ stopped' = stopped
  BY DEF stop
<1>2. \A j \in Jobs : /\ Active(j)' <=> Active(j)
                      /\ jst'[j] = "done" <=> jst[j] = "done"
                      /\ jst'[j] = "dropped" <=> (jst[j] = "dropped" \/ jst[j] = "queued")
  BY <1>1 DEF Active
<1>3. /\ Executor!Waiting \subseteq Jobs
      /\ \A j \in Jobs : j \in Executor!Waiting <=> jst[j] = "queued"
  BY WaitingIsQueued
<1>5. /\ Running' = Running
      /\ {j \in Jobs : jst[j] = "done"}' = {j \in Jobs : jst[j] = "done"}
      /\ {j \in Jobs : jst[j] = "dropped"}' =
           {j \in Jobs : jst[j] = "dropped"} \cup Executor!Waiting
  BY <1>2, <1>3 DEF OneRuns
<1> QED
  BY <1>1, <1>5 DEF Executor!Discard

(* A call of the job begins or comes back, without an end to the job.      *)
LEMMA CallsStutter ==
  ASSUME IndInv, OneRuns, OneRuns', NEW j \in Jobs, Active(j), NEW s \in {"held", "call", "poll"},
         jst' = [jst EXCEPT ![j] = s], UNCHANGED <<tasks, stopped>>
  PROVE  UNCHANGED Executor!vars
<1>1. jst \in [Jobs -> JobStates]
  BY DEF IndInv, TypeOK
<1>2. \A i \in Jobs : /\ Active(i)' <=> Active(i)
                      /\ jst'[i] = "done" <=> jst[i] = "done"
                      /\ jst'[i] = "dropped" <=> jst[i] = "dropped"
  BY <1>1 DEF Active
<1> QED
  BY <1>2, Stutters

(* Every step of the sequence is a step of the executor or a stutter.      *)
LEMMA StepSimulates ==
  IndInv /\ OneRuns /\ OneRuns' /\ [Next]_vars => [Executor!Next]_(Executor!vars)
<1> SUFFICES ASSUME IndInv, OneRuns, OneRuns', [Next]_vars
             PROVE  Executor!Next \/ UNCHANGED Executor!vars
  OBVIOUS
<1> USE JobsAssumption
<1>1. ASSUME jst' = jst, UNCHANGED <<tasks, stopped>>
      PROVE  UNCHANGED Executor!vars
  <2>1. \A j \in Jobs : Active(j)' <=> Active(j)
    BY <1>1 DEF Active
  <2> QED
    BY <1>1, <2>1, Stutters
<1>2. CASE MoveSignal \/ MoveFuture \/ JoinReturns \/ StopMaster \/ JoinMaster \/ Join
  BY <1>1, <1>2 DEF MoveSignal, MoveFuture, JoinReturns, StopMaster, JoinMaster, Join, signals
<1>3. CASE Park \/ ReturnEmpty \/ MasterJoin \/ LoopCheck \/ SpuriousWake
  BY <1>1, <1>3 DEF Park, ReturnEmpty, MasterJoin, LoopCheck, SpuriousWake, signals
<1>4. CASE Take
  BY <1>4, TakeStarts DEF Executor!Next
<1>5. CASE Stop \/ DtorStop
  BY <1>5, StopDiscards DEF Stop, DtorStop, Executor!Next
<1>6. CASE SetStopped
  <2>1. jst' = jst /\ tasks' = tasks /\ stopped' = TRUE
    BY <1>6 DEF SetStopped
  <2>2. \A j \in Jobs : Active(j)' <=> Active(j)
    BY <2>1 DEF Active
  <2>3. Running' = Running
    BY <2>2 DEF OneRuns
  <2>4. Executor!Close
    BY <2>1, <2>3 DEF Executor!Close
  <2> QED
    BY <2>4 DEF Executor!Next
<1>7. ASSUME NEW t \in Threads, Attach(t)
      PROVE  Executor!Next \/ UNCHANGED Executor!vars
  <2>1. (Push(t) \/ Reject(t)) => last \in Jobs
    BY DEF Push, Reject, Goto, IndInv, Working, TypeOK
  <2>2. CASE Push(t)
    BY <2>1, <2>2, PushSubmits DEF Executor!Next
  <2>3. CASE Reject(t)
    <3>1. Executor!Refuse(last)
      BY <2>3, RejectRefuses
    <3>2. last \in Jobs
      BY <2>1, <2>3
    <3>3. \E j \in Jobs : Executor!Refuse(j)
      BY <3>1, <3>2 DEF Executor!Refuse
    <3> QED
      BY <3>3 DEF Executor!Next
  <2>4. CASE Notify(t)
    <3>1. jst' = jst /\ UNCHANGED <<tasks, stopped>>
      BY <2>4 DEF Notify, signals
    <3> QED
      BY <1>1, <3>1
  <2> QED
    BY <1>7, <2>2, <2>3, <2>4 DEF Attach
<1>8. ASSUME NEW t \in Threads, NEW k \in Jobs, Announce(t, k)
      PROVE  UNCHANGED Executor!vars
  <2>1. /\ jst[k] = "new" /\ jst' = [jst EXCEPT ![k] = "announced"]
        /\ UNCHANGED <<tasks, stopped>> /\ jst \in [Jobs -> JobStates]
    BY <1>8 DEF Announce, Becomes, signals, IndInv, TypeOK
  <2>2. \A j \in Jobs : /\ Active(j)' <=> Active(j)
                        /\ jst'[j] = "done" <=> jst[j] = "done"
                        /\ jst'[j] = "dropped" <=> jst[j] = "dropped"
    BY <2>1 DEF Active
  <2> QED
    BY <2>1, <2>2, Stutters
<1>9. ASSUME NEW j \in Jobs, JobStep(j)
       PROVE  Executor!Next \/ UNCHANGED Executor!vars
  <2>1. CASE CallJob(j) \/ ReturnFalse(j) \/ (PollStop(j) /\ ~StopSeen)
    <3>1. PICK s \in {"held", "call", "poll"} : jst' = [jst EXCEPT ![j] = s]
      BY <2>1 DEF CallJob, ReturnFalse, PollStop, Becomes
    <3>2. Active(j) /\ UNCHANGED <<tasks, stopped>>
      BY <2>1 DEF CallJob, ReturnFalse, PollStop, Becomes, Active, signals
    <3> QED
      BY <3>1, <3>2, CallsStutter
  <2>2. CASE ReturnTrue(j) \/ Unwind(j) \/ (PollStop(j) /\ StopSeen)
    <3>1. Active(j) /\ jst' = [jst EXCEPT ![j] = "done"] /\ UNCHANGED <<tasks, stopped>>
      BY <2>2 DEF ReturnTrue, Unwind, PollStop, Becomes, Active, signals
    <3> QED
      BY <3>1, JobFinishes DEF Executor!Next
  <2> QED
    BY <1>9, <2>1, <2>2 DEF JobStep
<1>10. CASE UNCHANGED vars
  BY <1>1, <1>10 DEF vars, signals
<1> QED
  BY <1>2, <1>3, <1>4, <1>5, <1>6, <1>7, <1>8, <1>9, <1>10 DEF Next, OwnerStep, Master

(* The constructed sequence is an executor without jobs.                   *)
LEMMA InitSimulates == Init => Executor!Init
<1> SUFFICES ASSUME Init PROVE Executor!Init
  OBVIOUS
<1>1. \A j \in Jobs : jst[j] = "new"
  BY DEF Init
<1>2. Running = NoJob
  BY <1>1 DEF Running, Active
<1> QED
  BY <1>2 DEF Init, Executor!Init

(* The sequence is a serial executor, whatever the jobs and the callers do: *)
(* tasks start one at a time in the order of the pushes, and each is run   *)
(* to its end, discarded, or refused, once.                                *)
THEOREM ImplementsSerially == Spec => Executor!Spec
BY Inductive, ActiveRuns, InitSimulates, StepSimulates, PTL DEF Spec, Executor!Spec

=============================================================================
