----------------------- MODULE AsyncServerStreamProofs -----------------------
(* Proofs about AsyncServerStream for any number of pollers and ranges of  *)
(* any length.                                                             *)
EXTENDS AsyncServerStream, SequenceTheorems, TLAPS

(* What status_ says of the object's operations: it is served only before  *)
(* FINISH, and finish is asked for by whoever closes the stream.           *)
Phases ==
  /\ serving # {} => status # "FINISH"
  /\ status = "STARTUP" => /\ tags["write"] = "none" /\ tags["finish"] = "none"
                           /\ it = 0 /\ written = << >>
  /\ tags["request"] # "none" => born = 0 /\ serving = {}
  /\ alive /\ status # "STARTUP" => tags["request"] = "none"
  /\ alive /\ status = "PROCESS" => tags["finish"] = "none"
  /\ status = "FINISH" => tags["write"] = "none"
  /\ alive /\ status # "FINISH" => closed = "none"
  /\ status = "FINISH" => closed # "none"
  /\ closed = "OK" => it = Len(range)

IndInv == TypeOK /\ OneInCharge /\ Phases /\ WrittenInOrder

(* A range is a sequence. *)
LEMMA RangeIsSeq ==
  ASSUME NEW r \in SeqOf(BOOLEAN, MaxRange)
  PROVE  /\ r \in Seq(BOOLEAN) /\ Len(r) \in Nat /\ DOMAIN r = 1 .. Len(r)
         /\ Len(r) <= MaxRange
<1>1. PICK m \in 0 .. MaxRange : r \in [1 .. m -> BOOLEAN]
  BY DEF SeqOf
<1>2. m \in Nat /\ m <= MaxRange
  BY <1>1, RangeAssumption
<1>3. r \in Seq(BOOLEAN)
  BY <1>1, <1>2, SeqDef
<1>4. Len(r) \in Nat /\ DOMAIN r = 1 .. Len(r)
  BY <1>3, LenProperties
<1>5. 1 .. Len(r) = 1 .. m
  BY <1>1, <1>4
<1>6. ~(Len(r) < m) /\ ~(m < Len(r))
  <2>1. Len(r) < m => m \in 1 .. m /\ m \notin 1 .. Len(r)
    BY <1>2, <1>4
  <2>2. m < Len(r) => Len(r) \in 1 .. Len(r) /\ Len(r) \notin 1 .. m
    BY <1>2, <1>4
  <2> QED
    BY <1>5, <2>1, <2>2
<1> QED
  BY <1>2, <1>3, <1>4, <1>6

(* The facts about the two sequences that steps keep needing. *)
LEMMA SequenceTypes ==
  TypeOK => /\ Len(range) \in Nat /\ DOMAIN range = 1 .. Len(range) /\ Len(range) <= MaxRange
            /\ it \in Nat /\ it <= Len(range)
            /\ Len(written) \in Nat /\ DOMAIN written = 1 .. Len(written)
            /\ \A k \in DOMAIN written : written[k] \in 1 .. MaxRange
<1> SUFFICES ASSUME TypeOK
             PROVE  /\ Len(range) \in Nat /\ DOMAIN range = 1 .. Len(range) /\ Len(range) <= MaxRange
                    /\ it \in Nat /\ it <= Len(range)
                    /\ Len(written) \in Nat /\ DOMAIN written = 1 .. Len(written)
                    /\ \A k \in DOMAIN written : written[k] \in 1 .. MaxRange
  OBVIOUS
<1>1. Len(range) \in Nat /\ DOMAIN range = 1 .. Len(range) /\ Len(range) <= MaxRange
  BY RangeIsSeq DEF TypeOK
<1>2. it \in Nat /\ it <= Len(range)
  BY <1>1 DEF TypeOK
<1>3. /\ Len(written) \in Nat /\ DOMAIN written = 1 .. Len(written)
      /\ written \in [1 .. Len(written) -> 1 .. MaxRange]
  BY LenProperties DEF TypeOK
<1> QED
  BY <1>1, <1>2, <1>3

(* A new object waits for its request. *)
LEMMA InitHolds == Init => IndInv
<1> SUFFICES ASSUME Init PROVE IndInv
  OBVIOUS
<1> USE RangeAssumption DEF Init, Operations
<1>1. TypeOK
  <2>1. {alive, leaked, broken} \subseteq BOOLEAN
    BY Zenon
  <2>2. range \in SeqOf(BOOLEAN, MaxRange) /\ it \in 0 .. Len(range)
    <3>1. << >> \in [1 .. 0 -> BOOLEAN]
      OBVIOUS
    <3> QED
      BY <3>1 DEF SeqOf
  <2>3. written \in Seq(1 .. MaxRange)
    OBVIOUS
  <2> QED
    BY <2>1, <2>2, <2>3 DEF TypeOK
<1>2. OneInCharge /\ Phases
  BY DEF OneInCharge, Phases
<1>3. WrittenInOrder
  BY DEF WrittenInOrder, ToSet
<1> QED
  BY <1>1, <1>2, <1>3 DEF IndInv

(* gRPC answers an operation. *)
LEMMA CompleteHolds ==
  ASSUME IndInv, NEW o \in Operations, Complete(o)
  PROVE  IndInv'
<1> USE DEF IndInv, Complete, Operations
<1>1. TypeOK'
  BY DEF TypeOK
<1>2. OneInCharge'
  BY DEF TypeOK, OneInCharge
<1>3. Phases'
  BY DEF TypeOK, Phases
<1>4. WrittenInOrder'
  BY DEF WrittenInOrder, ToSet
<1> QED
  BY <1>1, <1>2, <1>3, <1>4

(* The constructor returns, perhaps that of an object which is deleted. *)
LEMMA CreatedHolds ==
  ASSUME IndInv, NEW p \in Pollers, Created(p)
  PROVE  IndInv'
<1> USE DEF IndInv
<1>1. /\ building' = building \ {p}
      /\ UNCHANGED <<alive, status, range, it, tags, serving, born, written, closed, leaked>>
  BY DEF Created
<1>2. TypeOK'
  <2>1. {alive', leaked', broken'} \subseteq BOOLEAN
    <3>1. alive \in BOOLEAN /\ leaked \in BOOLEAN /\ broken \in BOOLEAN
      BY Zenon DEF TypeOK
    <3>2. broken' = (broken \/ ~alive)
      BY DEF Created
    <3> QED
      BY <1>1, <3>1, <3>2, Zenon
  <2> QED
    BY <1>1, <2>1 DEF TypeOK
<1>3. OneInCharge' /\ Phases'
  BY <1>1 DEF OneInCharge, Phases
<1>4. WrittenInOrder'
  BY <1>1 DEF WrittenInOrder, ToSet
<1> QED
  BY <1>2, <1>3, <1>4

(* A poller enters serve(). *)
LEMMA EnterHolds ==
  ASSUME IndInv, NEW p \in Pollers, Startup(p) \/ Resume(p)
  PROVE  IndInv'
<1> USE DEF IndInv, Startup, Resume, Operations
<1>1. TypeOK'
  BY DEF TypeOK, Phases
<1>2. OneInCharge'
  <2>1. PICK o \in Operations : /\ tags[o] = "ok" /\ alive
                               /\ tags' = [tags EXCEPT ![o] = "none"]
                               /\ serving' = serving \cup {p}
                               /\ UNCHANGED <<alive, closed, leaked>>
    OBVIOUS
  <2> HIDE DEF Startup, Resume
  <2>2. serving = {} /\ ~leaked /\ \A q \in Operations : q # o => tags[q] = "none"
    BY <2>1 DEF OneInCharge
  <2>3. \A q \in Operations : tags'[q] = "none"
    BY <2>1, <2>2 DEF TypeOK
  <2> QED
    BY <2>1, <2>2, <2>3 DEF OneInCharge
<1>3. Phases'
  BY DEF TypeOK, OneInCharge, Phases
<1>4. WrittenInOrder'
  BY DEF WrittenInOrder, ToSet
<1> QED
  BY <1>1, <1>2, <1>3, <1>4

(* init_call_ fails, or makes the range. *)
LEMMA InitCallHolds ==
  ASSUME IndInv, NEW p \in Pollers, InitFails(p) \/ InitWorks(p)
  PROVE  IndInv'
<1> USE DEF IndInv, InitFails, InitWorks, Close, StatusClosed, AliveClosed, Issue, Operations
<1>1. TypeOK'
  BY RangeIsSeq DEF TypeOK
<1>2. OneInCharge'
  BY DEF TypeOK, OneInCharge
<1>3. Phases'
  BY DEF TypeOK, OneInCharge, Phases
<1>4. WrittenInOrder'
  <2>1. it = 0 /\ it' = 0 /\ written = << >> /\ written' = << >> /\ closed' # "OK"
    BY DEF Phases, OneInCharge
  <2>2. DOMAIN written' = {} /\ 1 .. it' = {}
    BY <2>1
  <2> QED
    BY <2>1, <2>2 DEF WrittenInOrder, ToSet
<1> QED
  BY <1>1, <1>2, <1>3, <1>4

(* The next element that is to be written is later than all those that     *)
(* were, and there is none between them.                                   *)
LEMMA WriteHolds ==
  ASSUME IndInv, NEW p \in Pollers, Write(p)
  PROVE  IndInv'
<1> USE DEF IndInv, Operations
<1>1. PICK i \in ToWrite :
        /\ \A j \in ToWrite : i <= j
        /\ it' = i /\ written' = Append(written, i)
        /\ tags' = [tags EXCEPT !["write"] = "out"]
        /\ p \in serving /\ status = "PROCESS" /\ serving' = serving \ {p}
        /\ UNCHANGED <<building, alive, status, range, born, closed, leaked, broken>>
  BY DEF Write, NextIt, Issue
<1>2. /\ i \in it + 1 .. Len(range) /\ range[i] /\ i \in 1 .. MaxRange /\ it < i
      /\ \A j \in it + 1 .. Len(range) : range[j] => i <= j
  BY <1>1, SequenceTypes, RangeAssumption DEF ToWrite
<1>3. /\ written' \in Seq(1 .. MaxRange) /\ DOMAIN written' = 1 .. Len(written) + 1
      /\ \A k \in DOMAIN written : written'[k] = written[k]
      /\ written'[Len(written) + 1] = i
  BY <1>1, <1>2, AppendProperties, LenProperties DEF TypeOK
<1>4. TypeOK'
  BY <1>1, <1>2, <1>3 DEF TypeOK
<1>5. OneInCharge'
  BY <1>1 DEF TypeOK, OneInCharge
<1>6. Phases'
  BY <1>1 DEF TypeOK, OneInCharge, Phases
<1>7. WrittenInOrder'
  <2>1. \A k \in DOMAIN written : written[k] \in 1 .. it
    BY DEF WrittenInOrder, ToSet
  <2>2. \A k, l \in DOMAIN written' : k < l => written'[k] < written'[l]
    BY <1>2, <1>3, <2>1, SequenceTypes DEF WrittenInOrder
  <2>3. ToSet(written') = ToSet(written) \cup {i}
    BY <1>3, SequenceTypes DEF ToSet
  <2>4. {j \in 1 .. i : range[j]} = {j \in 1 .. it : range[j]} \cup {i}
    BY <1>2, SequenceTypes
  <2>5. closed' # "OK"
    BY <1>1 DEF OneInCharge, Phases
  <2> QED
    BY <1>1, <2>2, <2>3, <2>4, <2>5 DEF WrittenInOrder
<1> QED
  BY <1>4, <1>5, <1>6, <1>7

(* No element is left to be written when the stream is closed. *)
LEMMA EndOfRangeHolds ==
  ASSUME IndInv, NEW p \in Pollers, EndOfRange(p)
  PROVE  IndInv'
<1> USE DEF IndInv, EndOfRange, Close, StatusClosed, AliveClosed, Issue, Operations
<1>1. TypeOK'
  BY SequenceTypes DEF TypeOK
<1>2. OneInCharge'
  BY DEF TypeOK, OneInCharge
<1>3. Phases'
  BY DEF TypeOK, OneInCharge, Phases
<1>4. {i \in 1 .. Len(range) : range[i]} = {i \in 1 .. it : range[i]}
  BY SequenceTypes DEF ToWrite
<1>5. WrittenInOrder'
  BY <1>4, SequenceTypes DEF WrittenInOrder, ToSet
<1> QED
  BY <1>1, <1>2, <1>3, <1>5

(* An exception comes after elements that were skipped. *)
LEMMA ThrowHolds ==
  ASSUME IndInv, NEW p \in Pollers, CallbackThrows(p)
  PROVE  IndInv'
<1> USE DEF IndInv, Operations
<1>1. /\ p \in serving /\ serving' = serving \ {p} /\ leaked' = TRUE
      /\ UNCHANGED <<building, alive, status, range, tags, born, written, closed, broken>>
      /\ it' \in it .. Len(range) /\ \A j \in it + 1 .. it' : ~range[j]
      /\ status = "STARTUP" => it' = it
  BY SequenceTypes DEF CallbackThrows
<1>2. TypeOK'
  BY <1>1, SequenceTypes DEF TypeOK
<1>3. OneInCharge'
  BY <1>1 DEF TypeOK, OneInCharge
<1>4. Phases'
  BY <1>1 DEF TypeOK, OneInCharge, Phases
<1>5. {i \in 1 .. it' : range[i]} = {i \in 1 .. it : range[i]}
  BY <1>1, SequenceTypes
<1>6. WrittenInOrder'
  BY <1>1, <1>5 DEF WrittenInOrder, ToSet
<1> QED
  BY <1>2, <1>3, <1>4, <1>6

(* shutdown() deletes the object; a tag of it may be left. *)
LEMMA DeleteHolds ==
  ASSUME IndInv, NEW p \in Pollers, Completed(p) \/ ShutDown(p) \/ UseDeleted(p)
  PROVE  IndInv'
<1> USE DEF IndInv, Completed, ShutDown, UseDeleted, Deleted, Operations
<1>1. TypeOK'
  BY DEF TypeOK
<1>2. OneInCharge'
  BY DEF TypeOK, OneInCharge, Phases
<1>3. Phases'
  BY DEF TypeOK, OneInCharge, Phases
<1>4. WrittenInOrder'
  BY DEF WrittenInOrder, ToSet
<1> QED
  BY <1>1, <1>2, <1>3, <1>4

(* Every step preserves the invariant. *)
LEMMA StepHolds == IndInv /\ [Next]_vars => IndInv'
<1> SUFFICES ASSUME IndInv, [Next]_vars
             PROVE  IndInv'
  OBVIOUS
<1>1. CASE UNCHANGED vars
  BY <1>1 DEF vars, IndInv, TypeOK, OneInCharge, Phases, WrittenInOrder, ToSet
<1> QED
  BY <1>1, CompleteHolds, CreatedHolds, EnterHolds, InitCallHolds, WriteHolds, EndOfRangeHolds, ThrowHolds,
     DeleteHolds DEF Next, Serve

(* The invariant holds in every reachable state. *)
LEMMA Inductive == Spec => []IndInv
BY InitHolds, StepHolds, PTL DEF Spec

(* The members of the object keep their types. *)
THEOREM TypeCorrect == Spec => []TypeOK
<1>1. IndInv => TypeOK
  BY DEF IndInv
<1> QED
  BY <1>1, Inductive, PTL

(* The object is with one poller, with gRPC, or with nobody after an        *)
(* exception, so that its members need no lock.                            *)
THEOREM ObjectHasOneOwner == Spec => []OneInCharge
<1>1. IndInv => OneInCharge
  BY DEF IndInv
<1> QED
  BY <1>1, Inductive, PTL

(* Ranges of any length are written in order and without gaps. *)
THEOREM RangeIsWritten == Spec => []WrittenInOrder
<1>1. IndInv => WrittenInOrder
  BY DEF IndInv
<1> QED
  BY <1>1, Inductive, PTL

(* A stream is closed once, and nothing is written to it afterwards. *)
THEOREM ClosedOnce == Spec => FinishedOnce
<1>1. IndInv /\ [Next]_vars => [closed # "none" => closed' = closed /\ written' = written]_vars
  <2> SUFFICES ASSUME IndInv, [Next]_vars, closed # "none"
               PROVE  closed' = closed /\ written' = written
    OBVIOUS
  <2> USE DEF IndInv, OneInCharge, Phases
  <2>1. ASSUME NEW o \in Operations, Complete(o)
        PROVE  closed' = closed /\ written' = written
    BY <2>1 DEF Complete
  <2>6. ASSUME NEW p \in Pollers, Created(p)
        PROVE  closed' = closed /\ written' = written
    BY <2>6 DEF Created
  <2>2. ASSUME NEW p \in Pollers, Startup(p) \/ InitFails(p) \/ InitWorks(p) \/ Resume(p)
        PROVE  closed' = closed /\ written' = written
    BY <2>2 DEF Startup, InitFails, InitWorks, Resume
  <2>3. ASSUME NEW p \in Pollers, Write(p) \/ EndOfRange(p) \/ CallbackThrows(p)
        PROVE  closed' = closed /\ written' = written
    BY <2>3 DEF Write, EndOfRange, CallbackThrows
  <2>4. ASSUME NEW p \in Pollers, Completed(p) \/ ShutDown(p) \/ UseDeleted(p)
        PROVE  closed' = closed /\ written' = written
    BY <2>4 DEF Completed, ShutDown, UseDeleted
  <2>5. CASE UNCHANGED vars
    BY <2>5 DEF vars
  <2> QED
    BY <2>1, <2>2, <2>3, <2>4, <2>5, <2>6 DEF Next, Serve
<1> QED
  BY <1>1, Inductive, PTL DEF Spec, FinishedOnce
=============================================================================
