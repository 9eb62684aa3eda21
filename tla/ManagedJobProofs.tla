-------------------------- MODULE ManagedJobProofs --------------------------
(* Proofs about ManagedJob for any number of handles and threads. *)
EXTENDS ManagedJob, TLAPS

(* A shared state belongs to one handle at a time, whatever is moved. *)
Ownership ==
  \A o, other \in Handles : o # other =>
    /\ sig[o] # Nil => sig[o] # sig[other]
    /\ fut[o] # Nil => fut[o] # fut[other]

(* The members of a handle that owns a thread are those made with it. *)
Together ==
  \A o \in Handles : job[o] # Nil => sig[o] = job[o] /\ fut[o] = job[o]

(* Nothing refers to what was not constructed yet, and a handle that does  *)
(* not exist refers to nothing.                                            *)
Fresh ==
  /\ \A s \in States : promise[s] = "unused" =>
       /\ thread[s] = "none"
       /\ \A o \in Handles : s \notin {sig[o], fut[o], job[o]}
  /\ \A o \in Handles : life[o] = "none" => sig[o] = Nil /\ fut[o] = Nil /\ job[o] = Nil

IndInv == TypeOK /\ Ownership /\ Together /\ Fresh /\ NoOrphan

(* No handle was constructed yet. *)
LEMMA InitHolds == Init => IndInv
<1> SUFFICES ASSUME Init PROVE IndInv
  OBVIOUS
<1> USE ManagedAssumption DEF Init
<1>1. TypeOK
  BY DEF TypeOK
<1>2. Ownership /\ Together /\ Fresh /\ NoOrphan
  BY DEF Ownership, Together, Fresh, NoOrphan
<1> QED
  BY <1>1, <1>2 DEF IndInv

(* Moving out of a handle moves its signal, future and thread together. *)
LEMMA TakeAllHolds ==
  ASSUME IndInv, NEW o \in Handles, NEW other \in Handles, o # other, TakeAll(o, other),
         promise' \in [States -> {"unused", "pending", "set", "broken"}],
         \A s \in States : promise'[s] = "unused" => promise[s] = "unused",
         \A s \in States : Told(s) => Told(s)',
         life[o] # "none", life[other] # "none", ~dead,
         job[o] # Nil => promise'[job[o]] = "set"
  PROVE  IndInv'
<1> USE ManagedAssumption DEF IndInv, TypeOK, TakeAll, TakeSignal, TakeJob
<1>1. TypeOK'
  OBVIOUS
<1>2. Ownership'
  BY DEF Ownership
<1>3. Together'
  BY DEF Together
<1>4. Fresh'
  BY DEF Fresh
<1>5. NoOrphan'
  <2> SUFFICES ASSUME NEW s \in States, thread[s] \in {"run", "check"}
               PROVE  Told(s)' \/ \E h \in Handles : job'[h] = s
    BY DEF NoOrphan, Told
  <2>1. CASE Told(s)
    BY <2>1
  <2>2. ASSUME NEW h \in Handles, job[h] = s
        PROVE  Told(s)' \/ job'[h] = s \/ job'[o] = s
    BY <2>2 DEF Told
  <2> QED
    BY <2>1, <2>2 DEF NoOrphan, Told
<1> QED
  BY <1>1, <1>2, <1>3, <1>4, <1>5

(* Every operation, and every step of a thread, preserves the invariant. *)
LEMMA StepHolds == IndInv /\ [Next]_vars => IndInv'
<1> SUFFICES ASSUME IndInv, [Next]_vars
             PROVE  IndInv'
  OBVIOUS
<1> USE ManagedAssumption DEF IndInv, TypeOK, Live, joinable, Unsatisfied, Told, SetValue, Abandon
<1>1. ASSUME NEW o \in Handles, NEW s \in States, Default(o, s) \/ Start(o, s)
      PROVE  IndInv'
  <2> USE <1>1 DEF Default, Start, Construct
  <2>1. TypeOK'
    OBVIOUS
  <2>2. Ownership' /\ Together'
    BY DEF Ownership, Together, Fresh
  <2>3. Fresh'
    BY DEF Fresh
  <2>4. NoOrphan'
    BY DEF NoOrphan, Fresh
  <2> QED
    BY <2>1, <2>2, <2>3, <2>4
<1>2. ASSUME NEW o \in Handles, NEW other \in Handles, AssignOverJob(o, other)
      PROVE  IndInv'
  <2>1. /\ o # other /\ TakeAll(o, other) /\ ~dead
        /\ life[o] # "none" /\ life[other] # "none"
        /\ sig[o] = job[o] /\ promise' = [promise EXCEPT ![job[o]] = "set"] /\ promise[job[o]] = "pending"
    BY <1>2 DEF AssignOverJob, MustSignal, Together
  <2>2. /\ promise' \in [States -> {"unused", "pending", "set", "broken"}]
        /\ \A s \in States : promise'[s] = "unused" => promise[s] = "unused"
        /\ \A s \in States : Told(s) => Told(s)'
        /\ job[o] # Nil => promise'[job[o]] = "set"
    BY <2>1
  <2> HIDE DEF IndInv, Told
  <2> QED
    BY <2>1, <2>2, TakeAllHolds
<1>3. ASSUME NEW o \in Handles, NEW other \in Handles, AssignOverNone(o, other)
      PROVE  IndInv'
  <2>1. /\ o # other /\ TakeAll(o, other) /\ ~dead
        /\ life[o] # "none" /\ life[other] # "none"
        /\ job[o] = Nil /\ promise' = Abandon(sig[o])
    BY <1>3 DEF AssignOverNone
  <2>2. /\ promise' \in [States -> {"unused", "pending", "set", "broken"}]
        /\ \A s \in States : promise'[s] = "unused" => promise[s] = "unused"
        /\ \A s \in States : Told(s) => Told(s)'
        /\ job[o] # Nil => promise'[job[o]] = "set"
    BY <2>1
  <2> HIDE DEF IndInv, Told
  <2> QED
    BY <2>1, <2>2, TakeAllHolds
<1>4. ASSUME NEW o \in Handles, MoveConstruct(o)
      PROVE  IndInv'
  <2> USE <1>4 DEF MoveConstruct
  <2>1. TypeOK'
    <3>1. dead' \in BOOLEAN
      BY Zenon
    <3> QED
      BY <3>1
  <2>2. Ownership' /\ Together' /\ Fresh'
    BY DEF Ownership, Together, Fresh
  <2>3. NoOrphan'
    <3>1. ~dead /\ (~dead' => job[o] = Nil)
      BY Zenon
    <3>2. job' = [job EXCEPT ![o] = Nil] /\ thread' = thread /\ \A s \in States : Told(s) => Told(s)'
      OBVIOUS
    <3> QED
      BY <3>1, <3>2 DEF NoOrphan
  <2> QED
    BY <2>1, <2>2, <2>3
<1>5. ASSUME NEW o \in Handles, stop(o) \/ join(o)
      PROVE  IndInv'
  BY <1>5 DEF stop, join, Ownership, Together, Fresh, NoOrphan
<1>6. ASSUME NEW o \in Handles, DtorSignal(o)
      PROVE  IndInv'
  <2> USE <1>6 DEF DtorSignal, MustSignal
  <2>1. TypeOK'
    OBVIOUS
  <2>2. Ownership' /\ Together' /\ Fresh' /\ NoOrphan'
    BY DEF Ownership, Together, Fresh, NoOrphan
  <2> QED
    BY <2>1, <2>2
<1>7. ASSUME NEW o \in Handles, DtorJoin(o)
      PROVE  IndInv'
  BY <1>7 DEF DtorJoin, DtorMayEnd, Ownership, Together, Fresh, NoOrphan
<1>8. ASSUME NEW s \in States, Thread(s)
      PROVE  IndInv'
  BY <1>8 DEF Thread, RunJob, CheckExit, LoopEnds, Ownership, Together, Fresh, NoOrphan
<1>9. CASE UNCHANGED vars
  BY <1>9 DEF vars, Ownership, Together, Fresh, NoOrphan
<1> QED
  BY <1>1, <1>2, <1>3, <1>4, <1>5, <1>6, <1>7, <1>8, <1>9 DEF Next

(* The invariant holds in every reachable state. *)
LEMMA Inductive == Spec => []IndInv
BY InitHolds, StepHolds, PTL DEF Spec

(* The members of handles, promises and threads keep their types. *)
THEOREM TypeCorrect == Spec => []TypeOK
<1>1. IndInv => TypeOK
  BY DEF IndInv
<1> QED
  BY <1>1, Inductive, PTL

(* A handle that can join a thread holds the signal and the future of that *)
(* thread, and no other handle refers to any of them, after any moves.     *)
THEOREM JobIsControlled == Spec => []HandleControlsJob
<1>1. IndInv => HandleControlsJob
  BY ManagedAssumption DEF IndInv, TypeOK, Ownership, Together, HandleControlsJob, joinable
<1> QED
  BY <1>1, Inductive, PTL

(* A thread that runs has a handle that can end it, or was told to end. *)
THEOREM ThreadIsOwned == Spec => []NoOrphan
<1>1. IndInv => NoOrphan
  BY DEF IndInv
<1> QED
  BY <1>1, Inductive, PTL
=============================================================================
