-------------------------- MODULE AsyncServerProofs --------------------------
(* Proofs about AsyncServer for any number of pollers and requests. *)
EXTENDS AsyncServer, FiniteSetTheorems, TLAPS

(* A poller is in an object exactly while it is inside serve(). *)
Serving ==
  /\ \A p \in Pollers : pc[p] = "idle" <=> cur[p] = NoCall
  /\ \A p \in Pollers : pc[p] = "serve" => cur[p] = made /\ made <= MaxRequests
  /\ \A p \in Pollers : pc[p] \in {"construct", "work"} => cur[p] < made /\ cur[p] \notin done
  /\ \A p \in Pollers : pc[p] = "answer" => cur[p] < made /\ cur[p] \in done

(* Only the newest object listens; all before it are past that. *)
Newest ==
  /\ made \notin done
  /\ \A c \in Calls : c # made => op[c] # "request" /\ (event[c] # "none" => c \in done)
  /\ event[made] = "ok" => made <= MaxRequests
  /\ op[made] # "finish"
  /\ ~down => /\ made \in alive
              /\ op[made] = "request" \/ event[made] # "none" \/ InServe(made)

(* What was not constructed yet has left no trace. *)
Unmade ==
  \A c \in Calls : c > made =>
    c \notin alive /\ c \notin done /\ c \notin leaked /\ op[c] = "none" /\ event[c] = "none"

(* write_call_ is at work for the object, whose done_ is set. *)
Answering(c) == \E p \in Pollers : pc[p] = "answer" /\ cur[p] = c

(* Behind done_ there is an answer, unless write_call_ is at work or threw. *)
Past ==
  /\ leaked \subseteq done
  /\ \A c \in Calls :
       /\ answers[c] = IF c \in done \ leaked /\ ~Answering(c) THEN 1 ELSE 0
       /\ op[c] = "finish" => c \in done
       /\ c <= made /\ c \notin alive => c \in done \ leaked \/ (down /\ c = made)
       /\ event[c] = "not_ok" /\ c \notin done => down

IndInv == TypeOK /\ OnePlace /\ Serving /\ Newest /\ Unmade /\ Past

(* The server has one object, which listens. *)
LEMMA InitHolds == Init => IndInv
<1> SUFFICES ASSUME Init PROVE IndInv
  OBVIOUS
<1> USE ServerAssumption DEF Init, Calls
<1>1. TypeOK
  <2>1. {broken, down} \subseteq BOOLEAN
    BY Zenon
  <2>2. made \in Calls /\ alive \subseteq Calls /\ done \subseteq Calls /\ leaked \subseteq Calls
    OBVIOUS
  <2>3. /\ op \in [Calls -> {"none", "request", "finish"}]
        /\ event \in [Calls -> {"none", "ok", "not_ok"}]
        /\ pc \in [Pollers -> {"idle", "serve", "construct", "work", "answer"}]
        /\ cur \in [Pollers -> Calls \cup {NoCall}]
        /\ built \in [Pollers -> Calls \cup {NoCall}]
        /\ answers \in [Calls -> Nat]
    OBVIOUS
  <2> QED
    BY <2>1, <2>2, <2>3 DEF TypeOK
<1>2. OnePlace
  BY DEF OnePlace, InServe
<1>3. Serving /\ Newest /\ Unmade /\ Past
  BY DEF Serving, Newest, Unmade, Past, InServe, Answering
<1> QED
  BY <1>1, <1>2, <1>3 DEF IndInv

(* Steps of gRPC. *)
LEMMA ReportHolds ==
  ASSUME IndInv, NEW c \in Calls, Request(c) \/ CancelRequest(c) \/ Finished(c)
  PROVE  IndInv'
<1> USE ServerAssumption DEF Calls
<1>1. PICK result \in {"ok", "not_ok"} :
        /\ op[c] # "none" /\ op' = [op EXCEPT ![c] = "none"]
        /\ event' = [event EXCEPT ![c] = result]
        /\ UNCHANGED <<made, alive, done, pc, cur, built, leaked, answers, broken, down>>
        /\ \/ op[c] = "request" /\ result = "ok" /\ c <= MaxRequests
           \/ op[c] = "request" /\ result = "not_ok" /\ down
           \/ op[c] = "finish"
  BY DEF Request, CancelRequest, Finished, Report
<1> USE <1>1 DEF IndInv
<1>2. TypeOK'
  BY DEF TypeOK
<1>3. OnePlace'
  BY DEF TypeOK, OnePlace, InServe
<1>4. Serving' /\ Unmade'
  BY DEF TypeOK, Serving, Unmade
<1>5. Newest'
  BY DEF TypeOK, OnePlace, Newest, InServe, Past
<1>6. Past'
  BY DEF TypeOK, Past, Answering
<1> QED
  BY <1>2, <1>3, <1>4, <1>5, <1>6

(* The server is told to shut down. *)
LEMMA ShutdownHolds ==
  ASSUME IndInv, Shutdown
  PROVE  IndInv'
<1> USE ServerAssumption DEF IndInv, Shutdown
<1>1. TypeOK'
  <2>1. {broken', down'} \subseteq BOOLEAN
    <3>1. broken \in BOOLEAN
      BY Zenon DEF TypeOK
    <3> QED
      BY <3>1, Zenon
  <2>2. UNCHANGED <<made, alive, done, op, event, pc, cur, built, leaked, answers>>
    OBVIOUS
  <2> HIDE DEF Shutdown
  <2> QED
    BY <2>1, <2>2 DEF TypeOK
<1>2. OnePlace' /\ Serving' /\ Unmade'
  BY DEF OnePlace, InServe, Serving, Unmade
<1>3. Newest' /\ Past'
  BY DEF Newest, Past, InServe, Answering
<1> QED
  BY <1>1, <1>2, <1>3

(* An object deletes itself: its tag was the last thing that led to it. *)
LEMMA DeleteHolds ==
  ASSUME IndInv, NEW p \in Pollers, Delete(p)
  PROVE  IndInv'
<1> USE ServerAssumption DEF Calls
<1>1. PICK c \in Calls :
        /\ event[c] = "not_ok" \/ (event[c] = "ok" /\ c \in done)
        /\ event' = [event EXCEPT ![c] = "none"]
        /\ alive' = alive \ {c}
        /\ UNCHANGED <<made, done, op, pc, cur, built, leaked, answers, broken, down>>
  BY DEF Delete
<1> USE <1>1 DEF IndInv
<1>2. TypeOK'
  BY DEF TypeOK
<1>3. OnePlace'
  BY DEF TypeOK, OnePlace, InServe
<1>4. Serving' /\ Unmade'
  BY DEF TypeOK, Serving, Unmade
<1>5. /\ c = made => down
      /\ c \notin done => c = made
      /\ c \notin leaked
  BY DEF OnePlace, Newest, Past
<1>6. Newest'
  BY <1>5 DEF TypeOK, Newest, InServe
<1>7. Past'
  BY <1>5 DEF TypeOK, Past, Answering
<1> QED
  BY <1>2, <1>3, <1>4, <1>6, <1>7

(* A poller enters serve() of the object whose request came: the newest. *)
LEMMA EnterHolds ==
  ASSUME IndInv, NEW p \in Pollers, Enter(p)
  PROVE  IndInv'
<1> USE ServerAssumption DEF Calls
<1>1. PICK c \in Calls \ done :
        /\ event[c] = "ok"
        /\ event' = [event EXCEPT ![c] = "none"]
        /\ cur' = [cur EXCEPT ![p] = c]
        /\ pc[p] = "idle" /\ pc' = [pc EXCEPT ![p] = "serve"]
        /\ UNCHANGED <<made, alive, done, op, built, leaked, answers, broken, down>>
  BY DEF Enter
<1> USE <1>1 DEF IndInv
<1>2. c = made /\ made <= MaxRequests
  BY DEF Newest
<1>3. TypeOK'
  BY DEF TypeOK
<1>4. OnePlace'
  BY DEF TypeOK, OnePlace, InServe, Serving
<1>5. Serving' /\ Unmade'
  BY <1>2 DEF TypeOK, Serving, Unmade
<1>6. Newest'
  BY <1>2 DEF TypeOK, OnePlace, Newest, InServe
<1>7. Past'
  <2>1. \A d \in Calls : Answering(d)' <=> Answering(d)
    BY DEF TypeOK, Answering
  <2> QED
    BY <2>1 DEF TypeOK, Past
<1> QED
  BY <1>3, <1>4, <1>5, <1>6, <1>7

(* The successor is registered and is the newest object from then on. *)
LEMMA RegisterHolds ==
  ASSUME IndInv, NEW p \in Pollers, Register(p)
  PROVE  IndInv'
<1> USE ServerAssumption DEF Calls, IndInv
<1>1. /\ pc[p] = "serve" /\ pc' = [pc EXCEPT ![p] = "construct"]
      /\ made' = made + 1 /\ made + 1 \in Calls
      /\ alive' = alive \cup {made + 1}
      /\ op' = [op EXCEPT ![made + 1] = "request"]
      /\ built' = [built EXCEPT ![p] = made + 1]
      /\ UNCHANGED <<done, event, cur, leaked, answers, broken, down>>
  <2>1. Cardinality({made + 1}) = 1
    BY FS_Singleton
  <2>2. made + 1 \in Calls
    BY DEF Register, Serving, TypeOK
  <2> QED
    BY <2>1, <2>2 DEF Register, Successors, TypeOK
<1>2. TypeOK'
  <2>1. made' \in Calls /\ alive' \subseteq Calls /\ op' \in [Calls -> {"none", "request", "finish"}]
    BY <1>1 DEF TypeOK
  <2>2. /\ pc' \in [Pollers -> {"idle", "serve", "construct", "work", "answer"}]
        /\ built' \in [Pollers -> Calls \cup {NoCall}]
    BY <1>1 DEF TypeOK
  <2> QED
    BY <1>1, <2>1, <2>2 DEF TypeOK
<1>9. \A q \in Pollers : pc[q] = "answer" <=> pc'[q] = "answer"
  BY <1>1 DEF TypeOK
<1> USE <1>1
<1>3. ~InServe(made + 1) /\ made + 1 \notin leaked /\ event[made + 1] = "none"
  <2>1. made \in Nat /\ made + 1 \in Calls /\ made + 1 # NoCall
    BY DEF TypeOK
  <2>2. \A q \in Pollers : cur[q] = NoCall \/ cur[q] = made \/ cur[q] < made
    BY DEF TypeOK, Serving
  <2>3. ~InServe(made + 1)
    BY <2>1, <2>2 DEF InServe
  <2> QED
    BY <2>1, <2>3 DEF Unmade
<1>4. OnePlace'
  BY <1>3 DEF TypeOK, OnePlace, InServe
<1>5. Serving'
  <2>1. \A q \in Pollers : q # p => pc[q] # "serve"
    <3>1. made \in Calls /\ cur[p] = made
      BY DEF TypeOK, Serving
    <3>2. \A q \in Pollers : cur[q] = made => q = p
      BY <3>1 DEF OnePlace
    <3> QED
      BY <3>2 DEF Serving
  <2>2. made \in Nat /\ cur[p] = made /\ made \notin done /\ made < made'
    BY DEF TypeOK, Serving, Newest
  <2>3. pc'[p] = "construct" /\ \A q \in Pollers : q # p => pc'[q] = pc[q]
    BY DEF TypeOK
  <2>4. p \in Pollers /\ cur[p] # NoCall
    BY <2>2 DEF TypeOK
  <2>5. ASSUME NEW q \in Pollers, q # p
        PROVE  /\ pc'[q] = "idle" <=> cur'[q] = NoCall
               /\ pc'[q] # "serve"
               /\ pc'[q] \in {"construct", "work"} => cur'[q] < made' /\ cur'[q] \notin done'
               /\ pc'[q] = "answer" => cur'[q] < made' /\ cur'[q] \in done'
    <3>1. cur'[q] = cur[q] /\ done' = done /\ pc'[q] = pc[q]
      BY <2>3, <2>5
    <3>2. pc[q] # "idle" /\ cur[q] < made => cur[q] < made'
      <4>1. pc[q] # "idle" => cur[q] \in Nat
        BY DEF TypeOK, Serving
      <4> QED
        BY <2>2, <4>1
    <3> QED
      BY <2>1, <2>5, <3>1, <3>2 DEF Serving
  <2> QED
    BY <2>2, <2>3, <2>4, <2>5 DEF Serving
<1>6. Unmade'
  BY DEF TypeOK, Unmade
<1>7. Newest'
  BY <1>3 DEF TypeOK, Newest, Unmade, Serving, OnePlace, InServe, Past
<1>8. Past'
  <2>1. \A d \in Calls : Answering(d)' <=> Answering(d)
    BY <1>9 DEF Answering
  <2>2. made \in alive
    <3>1. made \in Calls /\ cur[p] = made
      BY DEF TypeOK, Serving
    <3> QED
      BY <3>1 DEF OnePlace, InServe
  <2> QED
    BY <2>1, <2>2 DEF TypeOK, Past, Unmade
<1> QED
  BY <1>2, <1>4, <1>5, <1>6, <1>7, <1>8

(* The constructor returns. *)
LEMMA CreatedHolds ==
  ASSUME IndInv, NEW p \in Pollers, Created(p)
  PROVE  IndInv'
<1> USE ServerAssumption DEF Calls, IndInv
<1>1. /\ pc[p] = "construct" /\ pc' = [pc EXCEPT ![p] = "work"]
      /\ built' = [built EXCEPT ![p] = NoCall]
      /\ UNCHANGED <<made, alive, done, op, event, cur, leaked, answers, down>>
  BY DEF Created
<1>2. TypeOK'
  <2>1. {broken', down'} \subseteq BOOLEAN
    <3>1. broken' = (broken \/ built[p] \notin alive) /\ down' = down
      BY DEF Created
    <3>2. down \in BOOLEAN
      BY Zenon DEF TypeOK
    <3> QED
      BY <3>1, <3>2, Zenon
  <2>2. /\ pc' \in [Pollers -> {"idle", "serve", "construct", "work", "answer"}]
        /\ built' \in [Pollers -> Calls \cup {NoCall}]
    BY <1>1 DEF TypeOK
  <2> QED
    BY <1>1, <2>1, <2>2 DEF TypeOK
<1>3. \A d \in Calls : Answering(d)' <=> Answering(d)
  BY <1>1 DEF TypeOK, Answering
<1>4. OnePlace' /\ Unmade' /\ Newest'
  BY <1>1 DEF OnePlace, Unmade, Newest, InServe
<1>5. Serving'
  BY <1>1 DEF TypeOK, Serving
<1>6. Past'
  BY <1>1, <1>3 DEF Past
<1> QED
  BY <1>2, <1>4, <1>5, <1>6

(* done_ is set, and write_call_ begins. *)
LEMMA WorkHolds ==
  ASSUME IndInv, NEW p \in Pollers, Work(p)
  PROVE  IndInv'
<1> USE ServerAssumption DEF Calls, IndInv
<1> DEFINE c == cur[p]
<1>1. /\ pc[p] = "work" /\ pc' = [pc EXCEPT ![p] = "answer"]
      /\ c \in Calls /\ c < made /\ c \notin done
      /\ done' = done \cup {c}
      /\ UNCHANGED <<made, alive, op, event, cur, built, leaked, answers, broken, down>>
  BY DEF Work, DoneAfter, Serving, TypeOK
<1>2. TypeOK'
  BY <1>1 DEF TypeOK
<1>3. OnePlace'
  BY <1>1 DEF OnePlace, InServe
<1>4. Unmade' /\ Newest'
  BY <1>1 DEF TypeOK, Unmade, Newest, InServe
<1>5. Serving'
  BY <1>1 DEF TypeOK, Serving, OnePlace
<1>6. Past'
  <2>1. Answering(c)' /\ answers[c] = 0 /\ c \in alive
    BY <1>1 DEF TypeOK, Answering, Past, OnePlace, InServe
  <2>2. \A d \in Calls : d # c => (Answering(d)' <=> Answering(d))
    BY <1>1 DEF TypeOK, Answering
  <2> QED
    BY <1>1, <2>1, <2>2 DEF TypeOK, Past
<1> QED
  BY <1>2, <1>3, <1>4, <1>5, <1>6

(* serve() ends with an answer, or by an exception without one. *)
LEMMA AnswerHolds ==
  ASSUME IndInv, NEW p \in Pollers, Answer(p) \/ AnswerThrows(p)
  PROVE  IndInv'
<1> USE ServerAssumption DEF Calls, IndInv
<1>0. PICK c \in Calls : c = cur[p]
  BY DEF Answer, AnswerThrows, Serving, TypeOK
<1>1. /\ pc[p] = "answer" /\ pc' = [pc EXCEPT ![p] = "idle"]
      /\ c = cur[p] /\ c < made /\ c \in done
      /\ cur' = [cur EXCEPT ![p] = NoCall]
      /\ UNCHANGED <<made, alive, done, event, built, broken, down>>
      /\ \/ /\ op' = [op EXCEPT ![c] = "finish"]
            /\ answers' = [answers EXCEPT ![c] = @ + 1]
            /\ leaked' = leaked
         \/ leaked' = leaked \cup {c} /\ UNCHANGED <<op, answers>>
  BY <1>0 DEF Answer, AnswerThrows, AliveAfter, Answered, Serving, TypeOK
<1> USE <1>1
<1>2. TypeOK'
  <2>1. leaked' \subseteq Calls /\ answers' \in [Calls -> Nat] /\ op' \in [Calls -> {"none", "request", "finish"}]
    <3>1. answers[c] + 1 \in Nat
      BY DEF TypeOK
    <3>2. CASE leaked' = leaked /\ op' = [op EXCEPT ![c] = "finish"]
                               /\ answers' = [answers EXCEPT ![c] = @ + 1]
      BY <3>1, <3>2 DEF TypeOK
    <3>3. CASE leaked' = leaked \cup {c} /\ UNCHANGED <<op, answers>>
      BY <3>3 DEF TypeOK
    <3> QED
      BY <3>2, <3>3
  <2>2. UNCHANGED <<made, alive, done, event, built, broken, down>>
    OBVIOUS
  <2>3. /\ pc' \in [Pollers -> {"idle", "serve", "construct", "work", "answer"}]
        /\ cur' \in [Pollers -> Calls \cup {NoCall}]
    BY DEF TypeOK
  <2> HIDE <1>1
  <2> QED
    BY <2>1, <2>2, <2>3 DEF TypeOK
<1>3. OnePlace'
  BY DEF TypeOK, OnePlace, InServe, Serving
<1>4. Serving'
  BY DEF TypeOK, Serving, OnePlace
<1>5. Unmade'
  BY DEF TypeOK, Unmade
<1>6. Newest'
  BY DEF TypeOK, Newest, InServe, OnePlace
<1>7. Past'
  <2>1. c \in alive /\ op[c] = "none" /\ event[c] = "none" /\ c \notin leaked
    BY DEF OnePlace, InServe
  <2>2. Answering(c) /\ answers[c] = 0
    BY DEF Answering, Past
  <2>3. ~Answering(c)' /\ \A d \in Calls : d # c => (Answering(d)' <=> Answering(d))
    <3>1. \A q \in Pollers : q # p => cur[q] # c /\ pc'[q] = pc[q] /\ cur'[q] = cur[q]
      BY DEF OnePlace, TypeOK
    <3>2. pc'[p] = "idle"
      BY DEF TypeOK
    <3>3. ~Answering(c)'
      BY <3>1, <3>2 DEF Answering
    <3>4. ASSUME NEW d \in Calls, d # c PROVE Answering(d)' <=> Answering(d)
      BY <3>1, <3>2, <3>4 DEF Answering
    <3> QED
      BY <3>3, <3>4
  <2>4. leaked' \subseteq done' /\ \A d \in Calls : op'[d] = "finish" => d \in done'
    BY DEF TypeOK, Past
  <2>5. \A d \in Calls : answers'[d] = IF d \in done' \ leaked' /\ ~Answering(d)' THEN 1 ELSE 0
    <3>1. answers'[c] = IF c \in done' \ leaked' THEN 1 ELSE 0
      BY <2>1, <2>2 DEF TypeOK
    <3>2. \A d \in Calls : d # c => /\ answers'[d] = answers[d]
                                    /\ d \in done' \ leaked' <=> d \in done \ leaked
      BY DEF TypeOK
    <3>3. ASSUME NEW d \in Calls, d # c
          PROVE  answers'[d] = IF d \in done' \ leaked' /\ ~Answering(d)' THEN 1 ELSE 0
      <4>1. answers[d] = IF d \in done \ leaked /\ ~Answering(d) THEN 1 ELSE 0
        BY DEF Past
      <4>2. /\ answers'[d] = answers[d] /\ (d \in done' \ leaked' <=> d \in done \ leaked)
            /\ Answering(d)' <=> Answering(d)
        BY <2>3, <3>2, <3>3
      <4> QED
        BY <4>1, <4>2
    <3> QED
      BY <2>3, <3>1, <3>3
  <2>6. \A d \in Calls :
          /\ d <= made' /\ d \notin alive' => d \in done' \ leaked' \/ (down' /\ d = made')
          /\ event'[d] = "not_ok" /\ d \notin done' => down'
    BY <2>1 DEF Past
  <2> QED
    BY <2>4, <2>5, <2>6 DEF Past
<1> QED
  BY <1>2, <1>3, <1>4, <1>5, <1>6, <1>7

(* Every step preserves the invariant. *)
LEMMA StepHolds == IndInv /\ [Next]_vars => IndInv'
<1> SUFFICES ASSUME IndInv, [Next]_vars
             PROVE  IndInv'
  OBVIOUS
<1>1. CASE UNCHANGED vars
  BY <1>1 DEF vars, IndInv, TypeOK, OnePlace, Serving, Newest, Unmade, Past, InServe, Answering
<1> QED
  BY <1>1, ReportHolds, ShutdownHolds, DeleteHolds, EnterHolds, RegisterHolds, CreatedHolds,
     WorkHolds, AnswerHolds DEF Next, Poll

(* The invariant holds in every reachable state. *)
LEMMA Inductive == Spec => []IndInv
BY InitHolds, StepHolds, PTL DEF Spec

(* The objects and pollers keep their types. *)
THEOREM TypeCorrect == Spec => []TypeOK
<1>1. IndInv => TypeOK
  BY DEF IndInv
<1> QED
  BY <1>1, Inductive, PTL

(* A call object is with gRPC, in the queue, with one poller, or left       *)
(* behind by an exception, and in one of these only until it is deleted.   *)
THEOREM ObjectHasOneOwner == Spec => []OnePlace
<1>1. IndInv => OnePlace
  BY DEF IndInv
<1> QED
  BY <1>1, Inductive, PTL

(* One object listens for the next request, until the server shuts down. *)
THEOREM ServerListens == Spec => []OneListener
<1> DEFINE Listens(c) ==
             /\ c \in alive \ done
             /\ \/ op[c] = "request"
                \/ event[c] # "none"
                \/ \E p \in Pollers : cur[p] = c /\ pc[p] = "serve"
<1>1. IndInv => OneListener
  <2> SUFFICES ASSUME IndInv PROVE OneListener
    OBVIOUS
  <2> USE DEF IndInv
  <2>1. made \in Calls
    BY DEF TypeOK
  <2>2. ASSUME NEW c \in Calls, Listens(c) PROVE c = made
    BY <2>2 DEF Newest, Serving
  <2>3. ASSUME ~down PROVE Listens(made)
    <3>1. CASE InServe(made)
      <4>1. PICK p \in Pollers : cur[p] = made
        BY <3>1 DEF InServe
      <4>2. made # NoCall /\ ~(made < made)
        BY <2>1, ServerAssumption DEF Calls
      <4>3. pc[p] = "serve"
        BY <4>1, <4>2 DEF TypeOK, Serving
      <4> QED
        BY <2>3, <4>1, <4>3 DEF Newest
    <3> QED
      BY <2>3, <3>1 DEF Newest
  <2> HIDE DEF Listens
  <2>4. /\ \A c, d \in Calls : Listens(c) /\ Listens(d) => c = d
        /\ ~down => \E c \in Calls : Listens(c)
    BY <2>1, <2>2, <2>3
  <2> QED
    BY <2>4 DEF OneListener, Listens
<1> QED
  BY <1>1, Inductive, PTL

(* No request is answered twice, and none that was accepted goes without   *)
(* an answer unless its callback threw.                                    *)
THEOREM AnsweredAtMostOnce == Spec => []AnsweredOnce
<1>1. IndInv => AnsweredOnce
  <2> SUFFICES ASSUME IndInv PROVE AnsweredOnce
    OBVIOUS
  <2> USE ServerAssumption DEF IndInv, Calls
  <2>1. (\A c \in Calls : answers[c] <= 1) /\ (\A c \in leaked : answers[c] = 0)
    <3>1. \A c \in Calls : answers[c] = IF c \in done \ leaked /\ ~Answering(c) THEN 1 ELSE 0
      BY DEF Past
    <3>2. \A c \in Calls : answers[c] <= 1 /\ (c \in leaked => answers[c] = 0)
      BY <3>1
    <3> QED
      BY <3>2 DEF TypeOK
  <2>2. ASSUME NEW c \in (1 .. made) \ alive PROVE answers[c] = 1 \/ (down /\ c = made)
    <3>1. c \in Calls /\ c <= made
      BY DEF TypeOK
    <3>2. ~Answering(c)
      BY <3>1 DEF OnePlace, InServe, Answering
    <3> QED
      BY <3>1, <3>2 DEF Past
  <2> QED
    BY <2>1, <2>2 DEF AnsweredOnce
<1> QED
  BY <1>1, Inductive, PTL

(* What it takes for a constructor to find its object deleted: a second     *)
(* poller.  A program that drains the queue with one thread, as the tests  *)
(* do, is safe.                                                            *)
THEOREM OnePollerIsSafe ==
  ASSUME \A p, q \in Pollers : p = q
  PROVE  Spec => []CreatedIsAlive
<1>1. Init => CreatedIsAlive
  BY DEF Init, CreatedIsAlive
<1>2. ASSUME IndInv, CreatedIsAlive, [Next]_vars PROVE CreatedIsAlive'
  <2> USE DEF IndInv
  <2>1. ASSUME NEW c \in Calls, Request(c) \/ CancelRequest(c) \/ Finished(c)
        PROVE  CreatedIsAlive'
    BY <1>2, <2>1 DEF Request, CancelRequest, Finished, Report, CreatedIsAlive
  <2>2. CASE Shutdown \/ UNCHANGED vars
    BY <1>2, <2>2 DEF Shutdown, vars, CreatedIsAlive
  <2>3. ASSUME NEW p \in Pollers, Delete(p) \/ Enter(p) \/ Created(p) \/ Work(p) \/ Answer(p) \/ AnswerThrows(p)
        PROVE  CreatedIsAlive'
    <3>1. pc'[p] # "construct"
      BY <1>2, <2>3 DEF Delete, Enter, Created, Work, Answer, AnswerThrows, TypeOK
    <3> QED
      BY <3>1 DEF CreatedIsAlive
  <2>4. ASSUME NEW p \in Pollers, Register(p)
        PROVE  CreatedIsAlive'
    <3>1. alive' = alive \cup {made + 1} /\ built'[p] = made + 1
      BY <1>2, <2>4 DEF Register, Successors, TypeOK
    <3> QED
      BY <3>1 DEF CreatedIsAlive
  <2> QED
    BY <1>2, <2>1, <2>2, <2>3, <2>4 DEF Next, Poll
<1> QED
  BY <1>1, <1>2, Inductive, PTL DEF Spec
=============================================================================
