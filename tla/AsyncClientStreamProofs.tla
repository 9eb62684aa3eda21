----------------------- MODULE AsyncClientStreamProofs -----------------------
(* Proofs about AsyncClientStream for any number of pollers and messages. *)
EXTENDS AsyncClientStream, FiniteSetTheorems, TLAPS

(* OneInCharge without counting: an operation, its event, or a poller, or  *)
(* nobody once the handler was deleted or leaked.                          *)
InCharge ==
  /\ op # "none" => event = "none" /\ \A p \in Pollers : pc[p] = "idle"
  /\ event # "none" => \A p \in Pollers : pc[p] = "idle"
  /\ \A p, q \in Pollers : pc[p] # "idle" /\ pc[q] # "idle" => p = q
  /\ call_status = "deleted" \/ leaked <=>
       op = "none" /\ event = "none" /\ \A p \in Pollers : pc[p] = "idle"

(* An answer to op with this result is in the queue or with a poller that  *)
(* has not looked at it yet.                                               *)
Returned(result) ==
  \/ event = IF result THEN "ok" ELSE "not_ok"
  \/ \E p \in Pollers : pc[p] = "handle" /\ got[p] = result

(* Whatever ends the stream, the server has sent everything or it broke. *)
Over == broken \/ sent = Messages

(* Where call_status_ is between the operations. *)
Phases ==
  /\ op = "start" => call_status = "STARTUP"
  /\ op = "read" => call_status = "PROCESS"
  /\ op = "finish" => call_status = "FINISH"
  /\ \A p \in Pollers : pc[p] = "read" => call_status = "PROCESS"
  /\ \A p \in Pollers : pc[p] = "finish" => call_status = "FINISH"
  /\ call_status = "STARTUP" => sent = 0 /\ reply = 0 /\ (op = "none" => Returned(TRUE) \/ Returned(FALSE))
  /\ call_status = "STARTUP" => op \in {"start", "none"}
  /\ promise # "unset" => call_status = "deleted"
  /\ leaked => call_status = "PROCESS"

(* Where the messages are that gRPC has delivered. *)
Progress ==
  /\ \A k \in DOMAIN handled : handled[k] = k
  /\ reply = sent
  /\ IF call_status = "PROCESS" /\ Returned(TRUE)
       THEN Len(handled) = sent - 1 ELSE Len(handled) = sent
  /\ call_status = "STARTUP" /\ Returned(FALSE) => broken
  /\ call_status = "PROCESS" /\ Returned(FALSE) => Over
  /\ call_status = "FINISH" => Over
  /\ call_status = "FINISH" /\ op = "none" /\ (\A p \in Pollers : pc[p] # "finish")
       => (status_ok => sent = Messages)
  /\ promise = "ok" => sent = Messages

IndInv == TypeOK /\ InCharge /\ Phases /\ Progress

(* The call was started. *)
LEMMA InitHolds == Init => IndInv
<1> SUFFICES ASSUME Init PROVE IndInv
  OBVIOUS
<1> USE StreamAssumption DEF Init
<1>1. TypeOK
  <2>1. {broken, status_ok, leaked} \subseteq BOOLEAN
    BY Zenon
  <2>2. got \in [Pollers -> BOOLEAN]
    OBVIOUS
  <2>3. handled \in Seq(0 .. Messages) /\ reply \in 0 .. Messages /\ sent \in 0 .. Messages
    OBVIOUS
  <2> QED
    BY <2>1, <2>2, <2>3 DEF TypeOK
<1>2. InCharge /\ Phases
  BY DEF InCharge, Phases
<1>3. Progress
  BY DEF Progress, Returned, Over
<1> QED
  BY <1>1, <1>2, <1>3 DEF IndInv

(* The call breaks. *)
LEMMA BreakHolds ==
  ASSUME IndInv, Break
  PROVE  IndInv'
<1> USE DEF IndInv, Break
<1>1. TypeOK'
  <2>1. {broken', status_ok', leaked'} \subseteq BOOLEAN
    <3>1. status_ok \in BOOLEAN /\ leaked \in BOOLEAN
      BY Zenon DEF TypeOK
    <3> QED
      BY <3>1, Zenon
  <2>2. UNCHANGED <<call_status, op, event, pc, got, reply, handled, sent, status_ok, promise, leaked>>
    OBVIOUS
  <2> HIDE DEF Break
  <2> QED
    BY <2>1, <2>2 DEF TypeOK
<1>2. InCharge' /\ Phases'
  BY DEF InCharge, Phases, Returned
<1>3. Progress'
  BY DEF Progress, Returned, Over
<1> QED
  BY <1>1, <1>2, <1>3

(* gRPC answers the operation in progress; a message comes with a read. *)
LEMMA AnswerHolds ==
  ASSUME IndInv, Answer
  PROVE  IndInv'
<1> USE StreamAssumption DEF IndInv
<1>1. /\ event = "none" /\ event' \in {"ok", "not_ok"}
      /\ op # "none" /\ op' = "none"
      /\ UNCHANGED <<call_status, pc, got, handled, broken, promise, leaked>>
  BY DEF Answer
<1>2. \A p \in Pollers : pc[p] = "idle"
  BY <1>1 DEF InCharge
<1>3. CASE op = "start"
  <2>1. /\ UNCHANGED <<reply, sent, status_ok>>
        /\ event' = "not_ok" => broken
    BY <1>3 DEF Answer
  <2> QED
    BY <1>1, <1>2, <1>3, <2>1 DEF TypeOK, InCharge, Phases, Progress, Returned, Over
<1>4. CASE op = "read" /\ event' = "ok"
  <2>1. sent < Messages /\ sent' = sent + 1 /\ reply' = sent + 1 /\ status_ok' = status_ok
    BY <1>4 DEF Answer
  <2>2. call_status = "PROCESS" /\ Len(handled) = sent
    BY <1>1, <1>2, <1>4 DEF Phases, Progress, Returned
  <2> QED
    BY <1>1, <1>2, <1>4, <2>1, <2>2 DEF TypeOK, InCharge, Phases, Progress, Returned, Over
<1>5. CASE op = "read" /\ event' = "not_ok"
  <2>1. UNCHANGED <<reply, sent, status_ok>> /\ Over
    BY <1>5 DEF Answer, Over
  <2> QED
    BY <1>1, <1>2, <1>5, <2>1 DEF TypeOK, InCharge, Phases, Progress, Returned, Over
<1>6. CASE op = "finish"
  <2>1. UNCHANGED <<reply, sent>> /\ event' = "ok" /\ status_ok' \in BOOLEAN /\ (status_ok' => ~broken)
    BY <1>6 DEF Answer, TypeOK
  <2> QED
    BY <1>1, <1>2, <1>6, <2>1 DEF TypeOK, InCharge, Phases, Progress, Returned, Over
<1> QED
  BY <1>1, <1>3, <1>4, <1>5, <1>6 DEF TypeOK

(* A poller takes the event, and the handler with it. *)
LEMMA NextHolds ==
  ASSUME IndInv, NEW p \in Pollers, next(p)
  PROVE  IndInv'
<1> USE DEF IndInv
<1>1. /\ pc[p] = "idle" /\ event # "none" /\ event' = "none"
      /\ pc' = [pc EXCEPT ![p] = "handle"]
      /\ UNCHANGED <<call_status, op, reply, handled, sent, broken, status_ok, promise, leaked>>
      /\ got' \in [Pollers -> BOOLEAN]
      /\ \A q \in Pollers : q # p => got'[q] = got[q]
      /\ got'[p] = (event = "ok")
  BY DEF next, TypeOK, stream
<1>2. \A q \in Pollers : pc[q] = "idle"
  BY <1>1 DEF InCharge
<1>3. TypeOK' /\ InCharge'
  BY <1>1, <1>2 DEF TypeOK, InCharge
<1>4. (Returned(TRUE)' <=> Returned(TRUE)) /\ (Returned(FALSE)' <=> Returned(FALSE))
  BY <1>1, <1>2 DEF TypeOK, Returned
<1>5. Phases' /\ Progress'
  BY <1>1, <1>2, <1>4 DEF TypeOK, Phases, Progress, Over
<1> QED
  BY <1>3, <1>5

(* The poller in handle() is the only one, and nothing else is going on. *)
LEMMA Alone ==
  ASSUME IndInv, NEW p \in Pollers, pc[p] # "idle"
  PROVE  /\ op = "none" /\ event = "none" /\ call_status # "deleted" /\ ~leaked
         /\ \A q \in Pollers \ {p} : pc[q] = "idle"
BY DEF IndInv, TypeOK, InCharge

(* handle() goes on, to ask for the next operation. *)
LEMMA HandleHolds ==
  ASSUME IndInv, NEW p \in Pollers, Startup(p) \/ Callback(p) \/ CallbackThrows(p) \/ NoMore(p)
  PROVE  IndInv'
<1> USE DEF IndInv, At, stream
<1>1. pc[p] = "handle" /\ got[p] \in BOOLEAN
  BY DEF Startup, Callback, CallbackThrows, NoMore, EndOfStream, TypeOK
<1>2. CASE Startup(p) /\ got[p]
  <2>1. /\ call_status = "STARTUP" /\ call_status' = "PROCESS" /\ pc' = [pc EXCEPT ![p] = "read"]
        /\ UNCHANGED <<op, event, got, reply, handled, sent, broken, status_ok, promise, leaked>>
    BY <1>2 DEF Startup, AfterStart
  <2> QED
    BY <1>1, <2>1, Alone DEF TypeOK, InCharge, Phases, Progress, Returned, Over
<1>3. CASE Startup(p) /\ ~got[p]
  <2>1. /\ call_status = "STARTUP" /\ call_status' = "FINISH" /\ pc' = [pc EXCEPT ![p] = "finish"]
        /\ UNCHANGED <<op, event, got, reply, handled, sent, broken, status_ok, promise, leaked>>
    BY <1>3 DEF Startup, AfterStart
  <2>2. broken
    BY <1>1, <1>3, <2>1 DEF Progress, Returned
  <2> QED
    BY <1>1, <2>1, <2>2, Alone DEF TypeOK, InCharge, Phases, Progress, Returned, Over
<1>4. CASE Callback(p) \/ CallbackThrows(p)
  <2>1. /\ call_status = "PROCESS" /\ got[p]
        /\ handled' = Append(handled, reply)
        /\ UNCHANGED <<call_status, op, event, got, reply, sent, broken, status_ok, promise>>
        /\ \/ pc' = [pc EXCEPT ![p] = "read"] /\ leaked' = leaked
           \/ pc' = [pc EXCEPT ![p] = "idle"] /\ leaked' = TRUE
    BY <1>4 DEF Callback, CallbackThrows, OpInCallback, Handled
  <2>2. Len(handled) = sent - 1 /\ reply = sent
    BY <1>1, <2>1 DEF Progress, Returned
  <2>3. /\ handled' \in Seq(0 .. Messages) /\ Len(handled') = sent
        /\ \A k \in DOMAIN handled' : handled'[k] = k
    BY <2>1, <2>2 DEF TypeOK, Progress
  <2>4. TypeOK'
    <3>1. {broken', status_ok', leaked'} \subseteq BOOLEAN
      <4>1. broken' \in BOOLEAN /\ status_ok' \in BOOLEAN
        BY <2>1, Zenon DEF TypeOK
      <4>2. leaked' \in BOOLEAN
        <5>1. leaked \in BOOLEAN
          BY Zenon DEF TypeOK
        <5>2. leaked' = leaked \/ leaked' = TRUE
          BY <2>1
        <5> QED
          BY <5>1, <5>2, Zenon
      <4> QED
        BY <4>1, <4>2, Zenon
    <3> QED
      <4>1. pc' \in [Pollers -> {"idle", "handle", "read", "finish"}]
        BY <2>1 DEF TypeOK
      <4> QED
        BY <2>1, <2>3, <3>1, <4>1 DEF TypeOK
  <2>5. InCharge' /\ Phases'
    <3>1. /\ op = "none" /\ event = "none" /\ ~leaked /\ promise = "unset"
          /\ \A q \in Pollers \ {p} : pc[q] = "idle" /\ pc'[q] = "idle"
      BY <1>1, <2>1, Alone DEF TypeOK, Phases
    <3>2. \/ pc'[p] = "read" /\ leaked' = leaked
          \/ pc'[p] = "idle" /\ leaked' = TRUE
      BY <2>1 DEF TypeOK
    <3>3. InCharge'
      BY <2>1, <3>1, <3>2 DEF InCharge
    <3>4. Phases'
      BY <2>1, <3>1, <3>2 DEF Phases
    <3> QED
      BY <3>3, <3>4
  <2>6. Progress'
    <3>1. ~Returned(TRUE)' /\ ~Returned(FALSE)'
      BY <1>1, <2>1, Alone DEF TypeOK, Returned
    <3> QED
      BY <2>1, <2>2, <2>3, <3>1, Alone DEF TypeOK, Phases, Progress, Over
  <2> QED
    BY <2>4, <2>5, <2>6
<1>5. CASE NoMore(p)
  <2>1. /\ call_status = "PROCESS" /\ ~got[p] /\ pc' = [pc EXCEPT ![p] = "finish"]
        /\ call_status' = "FINISH"
        /\ UNCHANGED <<op, event, got, reply, handled, sent, broken, status_ok, promise, leaked>>
    BY <1>5 DEF NoMore, EndOfStream
  <2>2. Over
    BY <1>1, <2>1 DEF Progress, Returned
  <2>3. ~Returned(TRUE)
    BY <1>1, <2>1, Alone DEF Returned
  <2> QED
    BY <1>1, <2>1, <2>2, <2>3, Alone DEF TypeOK, InCharge, Phases, Progress, Returned, Over
<1> QED
  BY <1>1, <1>2, <1>3, <1>4, <1>5

(* The last statement of handle(): the handler is gRPC's again. *)
LEMMA AskHolds ==
  ASSUME IndInv, NEW p \in Pollers, Ask(p)
  PROVE  IndInv'
<1> USE DEF IndInv, stream
<1>1. PICK o \in {"read", "finish"} :
        /\ pc[p] = o /\ pc' = [pc EXCEPT ![p] = "idle"] /\ op' = o
        /\ UNCHANGED <<call_status, event, got, reply, handled, stream, status_ok, promise, leaked>>
  BY DEF Ask, At
<1>2. TypeOK'
  BY <1>1 DEF TypeOK
<1>3. \A q \in Pollers : pc'[q] = "idle"
  BY <1>1, Alone DEF TypeOK
<1>4. InCharge' /\ Phases'
  BY <1>1, <1>3, Alone DEF InCharge, Phases
<1>5. Progress'
  BY <1>1, <1>3, Alone DEF TypeOK, InCharge, Phases, Progress, Returned, Over
<1> QED
  BY <1>2, <1>4, <1>5

(* The handler deletes itself and sets the promise. *)
LEMMA FinishHolds ==
  ASSUME IndInv, NEW p \in Pollers, Finish(p)
  PROVE  IndInv'
<1> USE DEF IndInv, Finish, At, Result, stream
<1>1. TypeOK'
  BY DEF TypeOK
<1>2. InCharge' /\ Phases'
  BY Alone DEF TypeOK, InCharge, Phases
<1>3. Progress'
  BY Alone DEF TypeOK, Phases, Progress, Returned, Over
<1> QED
  BY <1>1, <1>2, <1>3

(* Every step preserves the invariant. *)
LEMMA StepHolds == IndInv /\ [Next]_vars => IndInv'
<1> SUFFICES ASSUME IndInv, [Next]_vars
             PROVE  IndInv'
  OBVIOUS
<1>1. CASE UNCHANGED vars
  BY <1>1 DEF vars, stream, IndInv, TypeOK, InCharge, Phases, Progress, Returned, Over
<1> QED
  BY <1>1, BreakHolds, AnswerHolds, NextHolds, HandleHolds, AskHolds, FinishHolds DEF Next, Poll

(* The invariant holds in every reachable state. *)
LEMMA Inductive == Spec => []IndInv
BY InitHolds, StepHolds, PTL DEF Spec

(* The members of the handler keep their types. *)
THEOREM TypeCorrect == Spec => []TypeOK
<1>1. IndInv => TypeOK
  BY DEF IndInv
<1> QED
  BY <1>1, Inductive, PTL

(* The handler is never in use by two pollers, or by a poller and gRPC,    *)
(* and by nobody after it was deleted.                                     *)
THEOREM HandlerHasOneOwner == Spec => []OneInCharge
<1>1. IndInv => OneInCharge
  <2> SUFFICES ASSUME IndInv PROVE OneInCharge
    OBVIOUS
  <2>1. CASE \E p \in Pollers : pc[p] # "idle"
    <3>1. PICK p \in Pollers : pc[p] # "idle"
      BY <2>1
    <3>2. Busy = {p}
      BY <3>1, Alone DEF Busy
    <3>3. Cardinality(Busy) = 1
      BY <3>2, FS_Singleton
    <3> QED
      BY <3>1, <3>3, Alone DEF OneInCharge
  <2>2. CASE \A p \in Pollers : pc[p] = "idle"
    <3>1. Cardinality(Busy) = 0
      BY <2>2, FS_EmptySet DEF Busy
    <3> QED
      BY <2>2, <3>1 DEF IndInv, InCharge, OneInCharge
  <2> QED
    BY <2>1, <2>2
<1> QED
  BY <1>1, Inductive, PTL

(* handler_ gets every message once and in order, and a promise without an *)
(* error says that it got them all.                                        *)
THEOREM MessagesInOrder == Spec => []HandledInOrder
<1>1. IndInv => HandledInOrder
  BY StreamAssumption DEF IndInv, TypeOK, Phases, Progress, Returned, HandledInOrder
<1> QED
  BY <1>1, Inductive, PTL
=============================================================================
