-------------------------- MODULE AsyncClientProofs --------------------------
(* Proofs about AsyncClient for any number of calls, retries and pollers,  *)
(* whichever callbacks throw.                                              *)
EXTENDS AsyncClient, SequenceTheorems, TLAPS

(* One more than the code may make.                                        *)
Attempts == 1 .. Retries + 2

(* The attempt of a call after which there is no other yet. *)
Newest(c, n) ==
  /\ hst[<<c, n>>] # "none"
  /\ \A m \in Attempts : n < m => hst[<<c, m>>] = "none"

(* A call that was issued has a newest attempt; all before it failed and   *)
(* passed the promise on, and have nothing to say any more.                *)
Chain(c) ==
  /\ hst[<<c, 1>>] # "none" => \E n \in Attempts : Newest(c, n)
  /\ \A m, n \in Attempts : m < n /\ hst[<<c, n>>] # "none" =>
       /\ hst[<<c, m>>] \in {"retrying", "finished", "deleted"}
       /\ <<c, m>> \notin ok
       /\ <<c, m>> \in holds => hst[<<c, m>>] = "retrying"

(* nretries_ counts the attempts down. *)
Counted(c) ==
  \A n \in Attempts :
    /\ hst[<<c, n>>] # "none" => n <= Retries + 1 /\ left[<<c, n>>] = Retries + 1 - n
    /\ hst[<<c, n>>] = "none" => <<c, n>> \notin holds
    /\ hst[<<c, n>>] \in {"none", "inflight"} => <<c, n>> \notin ok

(* The newest attempt has the promise until it is through. *)
Responsible(c) ==
  \A n \in Attempts : Newest(c, n) =>
    /\ hst[<<c, n>>] # "retrying"
    /\ hst[<<c, n>>] \in {"inflight", "event", "handling", "finished", "failed"} =>
         <<c, n>> \in holds /\ promise[c] = "unset"
    /\ hst[<<c, n>>] \in {"inflight", "event", "handling", "failed"} => replies[c] = 0
    /\ hst[<<c, n>>] = "finished" => replies[c] = 1
    /\ hst[<<c, n>>] = "failed" => <<c, n>> \notin ok /\ n = Retries + 1
    /\ hst[<<c, n>>] = "deleted" =>
         \/ promise[c] = "ok" /\ replies[c] = 1
         \/ promise[c] = "err" /\ replies[c] = 0 /\ <<c, n>> \notin ok /\ n = Retries + 1
    /\ hst[<<c, n>>] = "leaked" => c \in Faulty

(* Nothing happened to a call before it is issued.                         *)
Unissued(c) ==
  hst[<<c, 1>>] = "none" => replies[c] = 0 /\ (promise[c] = "unset" \/ c \in Faulty)

(* What holds of each call.                                                *)
CallInv(c) == Chain(c) /\ Counted(c) /\ Responsible(c) /\ Unissued(c)

(* A handler in handle() is in one poller. *)
Handling ==
  \A p \in Pollers : poller[p] # Idle =>
    /\ hst[poller[p]] \in {"handling", "retrying", "finished", "failed"}
    /\ \A q \in Pollers : poller[q] = poller[p] => q = p

(* wait_for passes over a promise only when it is set. *)
Waiting == \A c \in Calls : Waited(c) => promise[c] # "unset"

IndInv ==
  /\ TypeOK /\ PromiseSetOnce /\ Handling /\ Waiting
  /\ \A c \in Calls : CallInv(c)

(* No call was issued. *)
LEMMA InitHolds == Init => IndInv
<1> SUFFICES ASSUME Init PROVE IndInv
  OBVIOUS
<1> USE ClientAssumption DEF Init, Handlers, Attempts
<1>1. TypeOK
  <2>1. dead \in BOOLEAN
    BY Zenon
  <2>2. /\ hst \in [Handlers -> HandlerStates]
        /\ left \in [Handlers -> 0 .. Retries]
        /\ promise \in [Calls -> {"unset", "ok", "err"}]
        /\ replies \in [Calls -> Nat]
        /\ poller \in [Pollers -> Handlers \cup {Idle}]
    BY DEF HandlerStates
  <2> QED
    BY <2>1, <2>2 DEF TypeOK
<1>2. \A c \in Calls, n \in Attempts : hst[<<c, n>>] = "none"
  OBVIOUS
<1>3. ASSUME NEW c \in Calls PROVE CallInv(c)
  <2>1. Chain(c)
    <3>1. 1 \in Attempts
      OBVIOUS
    <3> QED
      BY <1>2, <3>1 DEF Chain
  <2>2. Counted(c)
    BY <1>2 DEF Counted
  <2>3. Responsible(c)
    BY <1>2 DEF Responsible, Newest
  <2>4. Unissued(c)
    BY DEF Unissued
  <2> QED
    BY <2>1, <2>2, <2>3, <2>4 DEF CallInv
<1>4. Handling /\ Waiting /\ PromiseSetOnce
  BY DEF Handling, Waiting, Waited, PromiseSetOnce
<1> QED
  BY <1>1, <1>3, <1>4 DEF IndInv

(* Calls share no handlers: what is done to one leaves the others alone. *)
LEMMA OtherCalls ==
  ASSUME NEW d \in Calls, CallInv(d),
         \A n \in Attempts : /\ hst'[<<d, n>>] = hst[<<d, n>>]
                             /\ left'[<<d, n>>] = left[<<d, n>>]
                             /\ <<d, n>> \in ok' <=> <<d, n>> \in ok
                             /\ <<d, n>> \in holds' <=> <<d, n>> \in holds,
         promise'[d] = promise[d], replies'[d] = replies[d]
  PROVE  CallInv(d)'
<1> USE ClientAssumption
<1>1. 1 \in Attempts
  BY DEF Attempts
<1>2. \A n \in Attempts : Newest(d, n)' <=> Newest(d, n)
  BY DEF Newest
<1>3. Chain(d)' /\ Counted(d)' /\ Unissued(d)'
  BY <1>1, <1>2 DEF CallInv, Chain, Counted, Unissued
<1>4. Responsible(d)'
  BY <1>2 DEF CallInv, Responsible
<1> QED
  BY <1>3, <1>4 DEF CallInv

(* There is at most one newest attempt, and the others are before it. *)
LEMMA NewestIsLast ==
  ASSUME NEW c \in Calls, NEW n \in Attempts, Newest(c, n), CallInv(c),
         NEW m \in Attempts, hst[<<c, m>>] # "none"
  PROVE  /\ m <= n
         /\ hst[<<c, m>>] \in {"inflight", "event", "handling", "failed", "leaked"} => m = n
         /\ Newest(c, m) => m = n
         /\ <<c, m>> \in holds /\ hst[<<c, m>>] = "finished" => m = n
BY ClientAssumption DEF Newest, CallInv, Chain, Attempts

(* A step of the newest attempt of a call that starts no other attempt. *)
LEMMA NewestMoves ==
  ASSUME NEW c \in Calls, NEW n \in Attempts, CallInv(c), Newest(c, n),
         NEW state \in HandlerStates \ {"none"},
         \A m \in Attempts : /\ hst'[<<c, m>>] = IF m = n THEN state ELSE hst[<<c, m>>]
                             /\ left'[<<c, m>>] = left[<<c, m>>]
                             /\ m # n => (<<c, m>> \in ok' <=> <<c, m>> \in ok)
                             /\ m # n => (<<c, m>> \in holds' <=> <<c, m>> \in holds),
         state = "inflight" => <<c, n>> \notin ok'
  PROVE  /\ Chain(c)' /\ Counted(c)' /\ Unissued(c)'
         /\ \A m \in Attempts : Newest(c, m)' <=> m = n
<1> USE ClientAssumption
<1>1. 1 \in Attempts /\ \A m \in Attempts : m \in Int
  BY DEF Attempts
<1>2. \A m \in Attempts : n < m => hst[<<c, m>>] = "none"
  BY DEF Newest
<1>3. \A m \in Attempts : m < n => hst[<<c, m>>] # "none"
  BY <1>1 DEF CallInv, Chain, Newest
<1>4. \A m \in Attempts : Newest(c, m)' <=> m = n
  BY <1>1, <1>2, <1>3 DEF Newest
<1>5. Chain(c)'
  BY <1>1, <1>2, <1>4 DEF CallInv, Chain, Newest
<1>6. Counted(c)'
  BY <1>1 DEF CallInv, Counted, Newest
<1>7. Unissued(c)'
  BY <1>1, <1>3, <1>2 DEF Unissued, Newest, Attempts
<1> QED
  BY <1>4, <1>5, <1>6, <1>7

(* The handler a poller is in. *)
LEMMA InHandler ==
  ASSUME IndInv, NEW p \in Pollers, poller[p] # Idle
  PROVE  \E c \in Calls, n \in Attempts :
           /\ poller[p] = <<c, n>> /\ CallInv(c)
           /\ <<c, n>> \in Handlers
           /\ CallOf(poller[p]) = c /\ Following(poller[p]) = <<c, n + 1>>
           /\ hst[<<c, n>>] \in {"handling", "retrying", "finished", "failed"}
           /\ hst[<<c, n>>] \in {"handling", "failed"} => Newest(c, n)
<1>1. poller[p] \in Handlers
  BY DEF IndInv, TypeOK
<1>2. PICK c \in Calls, n \in Attempts : poller[p] = <<c, n>>
  BY <1>1 DEF Handlers, Attempts
<1>3. CallInv(c) /\ hst[<<c, n>>] \in {"handling", "retrying", "finished", "failed"}
  BY <1>2 DEF IndInv, Handling
<1>4. ASSUME hst[<<c, n>>] \in {"handling", "failed"} PROVE Newest(c, n)
  BY <1>3, <1>4, ClientAssumption DEF CallInv, Chain, Newest, Attempts
<1> QED
  BY <1>1, <1>2, <1>3, <1>4 DEF CallOf, Following

(* A first attempt. *)
LEMMA IssueKeeps ==
  ASSUME IndInv, NEW c \in Calls, Issue(c)
  PROVE  IndInv'
<1> USE ClientAssumption DEF Handlers, Attempts
<1>1. /\ hst[<<c, 1>>] = "none" /\ promise[c] = "unset"
      /\ hst' = [hst EXCEPT ![<<c, 1>>] = "inflight"]
      /\ left' = [left EXCEPT ![<<c, 1>>] = Retries]
      /\ holds' = holds \cup {<<c, 1>>}
      /\ UNCHANGED <<ok, promise, replies, poller, todo, dead>>
  BY DEF Issue
<1>2. TypeOK
  BY DEF IndInv
<1>3. CallInv(c)
  BY DEF IndInv
<1>4. \A n \in Attempts : hst[<<c, n>>] = "none"
  BY <1>1, <1>3 DEF CallInv, Chain
<1>5. TypeOK'
  <2>1. dead' \in BOOLEAN
    BY <1>1, <1>2, Zenon DEF TypeOK
  <2> QED
    BY <1>1, <1>2, <2>1 DEF TypeOK, HandlerStates
<1>6. PromiseSetOnce'
  BY <1>1, Zenon DEF IndInv, PromiseSetOnce
<1>7. Handling'
  <2>1. Handling
    BY DEF IndInv
  <2> QED
    BY <1>1, <1>2, <2>1 DEF Handling, TypeOK
<1>8. Waiting'
  BY <1>1 DEF IndInv, Waiting, Waited
<1>9. ASSUME NEW d \in Calls PROVE CallInv(d)'
  <2>1. CASE d # c
    BY <1>1, <1>2, <2>1, OtherCalls DEF TypeOK, IndInv
  <2>2. CASE d = c
    <3>1. \A n \in Attempts : /\ hst'[<<c, n>>] = IF n = 1 THEN "inflight" ELSE "none"
                              /\ <<c, n>> \in holds' <=> n = 1
                              /\ <<c, n>> \notin ok'
                              /\ left'[<<c, 1>>] = Retries
      BY <1>1, <1>2, <1>3, <1>4 DEF TypeOK, CallInv, Counted
    <3>2. \A n \in Attempts : Newest(c, n)' <=> n = 1
      BY <3>1 DEF Newest
    <3>3. Chain(c)'
      BY <3>1, <3>2 DEF Chain
    <3>4. Counted(c)' /\ Unissued(c)'
      BY <3>1 DEF Counted, Unissued
    <3>5. Responsible(c)'
      BY <1>1, <1>3, <3>1, <3>2 DEF Responsible, CallInv, Unissued
    <3> QED
      BY <2>2, <3>3, <3>4, <3>5 DEF CallInv
  <2> QED
    BY <2>1, <2>2
<1> QED
  BY <1>5, <1>6, <1>7, <1>8, <1>9 DEF IndInv

(* init_ throws in the constructor of the first attempt. *)
LEMMA IssueThrowsKeeps ==
  ASSUME IndInv, NEW c \in Calls, IssueThrows(c)
  PROVE  IndInv'
<1> USE ClientAssumption DEF Handlers, Attempts
<1>1. /\ hst[<<c, 1>>] = "none" /\ promise[c] = "unset" /\ c \in Faulty
      /\ promise' = [promise EXCEPT ![c] = "ok"]
      /\ UNCHANGED <<hst, ok, left, holds, replies, poller, todo, dead>>
  BY DEF IssueThrows, SetPromise
<1>2. TypeOK /\ CallInv(c)
  BY DEF IndInv
<1>3. TypeOK'
  <2>1. dead' \in BOOLEAN
    BY <1>1, <1>2, Zenon DEF TypeOK
  <2> QED
    BY <1>1, <1>2, <2>1 DEF TypeOK, HandlerStates
<1>4. PromiseSetOnce'
  BY <1>1, Zenon DEF IndInv, PromiseSetOnce
<1>5. Handling' /\ Waiting'
  BY <1>1, <1>2 DEF IndInv, Waiting, Waited, Handling, TypeOK
<1>6. ASSUME NEW d \in Calls PROVE CallInv(d)'
  <2>1. CASE d # c
    BY <1>1, <1>2, <2>1, OtherCalls DEF TypeOK, IndInv
  <2>2. CASE d = c
    <3>1. \A n \in Attempts : hst[<<c, n>>] = "none"
      BY <1>1, <1>2 DEF CallInv, Chain
    <3>2. Chain(c)' /\ Counted(c)' /\ Unissued(c)'
      BY <1>1, <1>2, <3>1 DEF CallInv, Chain, Counted, Unissued
    <3>3. Responsible(c)'
      BY <1>1, <3>1 DEF Responsible, Newest
    <3> QED
      BY <2>2, <3>2, <3>3 DEF CallInv
  <2> QED
    BY <2>1, <2>2
<1> QED
  BY <1>3, <1>4, <1>5, <1>6 DEF IndInv

(* The rpc of the newest attempt ends, with any status. *)
LEMMA CompleteKeeps ==
  ASSUME IndInv, NEW h \in Handlers, Complete(h)
  PROVE  IndInv'
<1> USE ClientAssumption DEF Handlers, Attempts
<1>1. PICK c \in Calls, n \in Attempts : h = <<c, n>>
  OBVIOUS
<1>2. /\ hst[<<c, n>>] = "inflight"
      /\ hst' = [hst EXCEPT ![<<c, n>>] = "event"]
      /\ ok' = ok \/ ok' = ok \cup {<<c, n>>}
      /\ UNCHANGED <<left, holds, promise, replies, poller, todo, dead>>
  BY <1>1 DEF Complete
<1>3. TypeOK /\ CallInv(c)
  BY DEF IndInv
<1>4. Newest(c, n)
  BY <1>2, <1>3 DEF CallInv, Chain, Newest
<1>5. TypeOK'
  <2>1. dead' \in BOOLEAN
    BY <1>2, <1>3, Zenon DEF TypeOK
  <2>2. ok' \subseteq Handlers
    BY <1>2, <1>3 DEF TypeOK
  <2> QED
    BY <1>2, <1>3, <2>1, <2>2 DEF TypeOK, HandlerStates
<1>6. PromiseSetOnce'
  BY <1>2, Zenon DEF IndInv, PromiseSetOnce
<1>7. Handling'
  <2>1. Handling
    BY DEF IndInv
  <2> QED
    BY <1>2, <1>3, <2>1 DEF Handling, TypeOK
<1>8. Waiting'
  BY <1>2 DEF IndInv, Waiting, Waited
<1>9. ASSUME NEW d \in Calls PROVE CallInv(d)'
  <2>1. CASE d # c
    BY <1>2, <1>3, <2>1, OtherCalls DEF TypeOK, IndInv
  <2>2. CASE d = c
    <3>1. \A m \in Attempts : /\ hst'[<<c, m>>] = IF m = n THEN "event" ELSE hst[<<c, m>>]
                              /\ left'[<<c, m>>] = left[<<c, m>>]
                              /\ m # n => (<<c, m>> \in ok' <=> <<c, m>> \in ok)
                              /\ m # n => (<<c, m>> \in holds' <=> <<c, m>> \in holds)
      BY <1>2, <1>3 DEF TypeOK
    <3>2. /\ Chain(c)' /\ Counted(c)' /\ Unissued(c)'
          /\ \A m \in Attempts : Newest(c, m)' <=> m = n
      <4>1. "event" \in HandlerStates \ {"none"} /\ "event" # "inflight"
        BY DEF HandlerStates
      <4> QED
        BY <1>3, <1>4, <3>1, <4>1, NewestMoves
    <3>3. <<c, n>> \in holds' /\ promise'[c] = "unset" /\ replies'[c] = 0
      BY <1>2, <1>3, <1>4 DEF Responsible, CallInv
    <3>4. Responsible(c)'
      BY <3>1, <3>2, <3>3 DEF Responsible
    <3> QED
      BY <2>2, <3>2, <3>4 DEF CallInv
  <2> QED
    BY <2>1, <2>2
<1> QED
  BY <1>5, <1>6, <1>7, <1>8, <1>9 DEF IndInv

(* A poller takes an event; nobody else is in that handler. *)
LEMMA NextKeeps ==
  ASSUME IndInv, NEW p \in Pollers, next(p)
  PROVE  IndInv'
<1> USE ClientAssumption DEF Handlers, Attempts
<1>1. PICK h \in Handlers : /\ hst[h] = "event"
                            /\ hst' = [hst EXCEPT ![h] = "handling"]
                            /\ poller' = [poller EXCEPT ![p] = h]
  BY DEF next
<1>2. UNCHANGED <<ok, left, holds, promise, replies, todo, dead>>
  BY DEF next
<1>3. PICK c \in Calls, n \in Attempts : h = <<c, n>>
  OBVIOUS
<1>4. TypeOK /\ CallInv(c)
  BY DEF IndInv
<1>5. Newest(c, n)
  BY <1>1, <1>3, <1>4 DEF CallInv, Chain, Newest
<1>6. TypeOK'
  <2>1. dead' \in BOOLEAN
    BY <1>2, <1>4, Zenon DEF TypeOK
  <2> QED
    BY <1>1, <1>2, <1>4, <2>1 DEF TypeOK, HandlerStates
<1>7. PromiseSetOnce'
  BY <1>2, Zenon DEF IndInv, PromiseSetOnce
<1>8. Handling'
  <2>1. Handling
    BY DEF IndInv
  <2>2. \A q \in Pollers : poller[q] # h
    BY <1>1, <2>1 DEF Handling
  <2> QED
    BY <1>1, <1>4, <2>1, <2>2 DEF Handling, TypeOK
<1>9. Waiting'
  BY <1>2 DEF IndInv, Waiting, Waited
<1>10. ASSUME NEW d \in Calls PROVE CallInv(d)'
  <2>1. CASE d # c
    BY <1>1, <1>2, <1>3, <1>4, <2>1, OtherCalls DEF TypeOK, IndInv
  <2>2. CASE d = c
    <3>1. \A m \in Attempts : /\ hst'[<<c, m>>] = IF m = n THEN "handling" ELSE hst[<<c, m>>]
                              /\ left'[<<c, m>>] = left[<<c, m>>]
                              /\ m # n => (<<c, m>> \in ok' <=> <<c, m>> \in ok)
                              /\ m # n => (<<c, m>> \in holds' <=> <<c, m>> \in holds)
      BY <1>1, <1>2, <1>3, <1>4 DEF TypeOK
    <3>2. /\ Chain(c)' /\ Counted(c)' /\ Unissued(c)'
          /\ \A m \in Attempts : Newest(c, m)' <=> m = n
      <4>1. "handling" \in HandlerStates \ {"none"} /\ "handling" # "inflight"
        BY DEF HandlerStates
      <4> QED
        BY <1>4, <1>5, <3>1, <4>1, NewestMoves
    <3>3. <<c, n>> \in holds /\ promise[c] = "unset" /\ replies[c] = 0
      BY <1>1, <1>3, <1>4, <1>5 DEF Responsible, CallInv
    <3>4. Responsible(c)'
      BY <1>2, <3>1, <3>2, <3>3 DEF Responsible
    <3> QED
      BY <2>2, <3>2, <3>4 DEF CallInv
  <2> QED
    BY <2>1, <2>2
<1> QED
  BY <1>6, <1>7, <1>8, <1>9, <1>10 DEF IndInv

(* The reply of the newest attempt reaches cb_, which may throw. *)
LEMMA ReplyKeeps ==
  ASSUME IndInv, NEW p \in Pollers, Reply(p)
  PROVE  IndInv'
<1> USE ClientAssumption DEF Handlers, Attempts
<1>1. poller[p] # Idle /\ hst[poller[p]] = "handling" /\ poller[p] \in ok
  BY DEF Reply, In
<1>2. PICK c \in Calls, n \in Attempts :
        /\ poller[p] = <<c, n>> /\ CallOf(poller[p]) = c /\ CallInv(c) /\ Newest(c, n)
  BY <1>1, InHandler
<1>3. /\ replies' = [replies EXCEPT ![c] = replies[c] + 1]
      /\ UNCHANGED <<ok, left, holds, promise, todo, dead>>
  BY <1>2 DEF Reply
<1>4. PICK state \in {"finished", "leaked"} :
        /\ hst' = [hst EXCEPT ![<<c, n>>] = state]
        /\ state = "finished" => poller' = poller
        /\ state = "leaked" => c \in Faulty /\ poller' = [poller EXCEPT ![p] = Idle]
  BY <1>2 DEF Reply
<1>5. TypeOK
  BY DEF IndInv
<1>6. TypeOK'
  <2>1. dead' \in BOOLEAN
    BY <1>3, <1>5, Zenon DEF TypeOK
  <2>2. replies' \in [Calls -> Nat]
    BY <1>3, <1>5 DEF TypeOK
  <2>3. hst' \in [Handlers -> HandlerStates] /\ poller' \in [Pollers -> Handlers \cup {Idle}]
    BY <1>4, <1>5 DEF TypeOK, HandlerStates
  <2> QED
    BY <1>3, <1>5, <2>1, <2>2, <2>3 DEF TypeOK
<1>7. PromiseSetOnce'
  BY <1>3, Zenon DEF IndInv, PromiseSetOnce
<1>8. Handling'
  <2>1. Handling
    BY DEF IndInv
  <2>2. \A q \in Pollers : poller[q] = <<c, n>> => q = p
    BY <1>1, <1>2, <2>1 DEF Handling
  <2> QED
    BY <1>1, <1>2, <1>4, <1>5, <2>1, <2>2 DEF Handling, TypeOK
<1>9. Waiting'
  BY <1>3 DEF IndInv, Waiting, Waited
<1>10. ASSUME NEW d \in Calls PROVE CallInv(d)'
  <2>1. CASE d # c
    BY <1>3, <1>4, <1>5, <2>1, OtherCalls DEF TypeOK, IndInv
  <2>2. CASE d = c
    <3>1. \A m \in Attempts : /\ hst'[<<c, m>>] = IF m = n THEN state ELSE hst[<<c, m>>]
                              /\ left'[<<c, m>>] = left[<<c, m>>]
                              /\ m # n => (<<c, m>> \in ok' <=> <<c, m>> \in ok)
                              /\ m # n => (<<c, m>> \in holds' <=> <<c, m>> \in holds)
      BY <1>3, <1>4, <1>5 DEF TypeOK
    <3>2. /\ Chain(c)' /\ Counted(c)' /\ Unissued(c)'
          /\ \A m \in Attempts : Newest(c, m)' <=> m = n
      <4>1. state \in HandlerStates \ {"none"} /\ state # "inflight"
        BY DEF HandlerStates
      <4> QED
        BY <1>2, <3>1, <4>1, NewestMoves
    <3>3. replies'[c] = 1 /\ promise[c] = "unset" /\ <<c, n>> \in holds
      BY <1>1, <1>2, <1>3, <1>5 DEF Responsible, CallInv, TypeOK
    <3>4. Responsible(c)'
      BY <1>3, <1>4, <3>1, <3>2, <3>3 DEF Responsible
    <3> QED
      BY <2>2, <3>2, <3>4 DEF CallInv
  <2> QED
    BY <2>1, <2>2
<1> QED
  BY <1>6, <1>7, <1>8, <1>9, <1>10 DEF IndInv

(* A failed attempt starts the next one, which shares the promise. *)
LEMMA RetryKeeps ==
  ASSUME IndInv, NEW p \in Pollers, Retry(p)
  PROVE  IndInv'
<1> USE ClientAssumption DEF Handlers, Attempts
<1>1. /\ poller[p] # Idle /\ hst[poller[p]] = "handling" /\ poller[p] \notin ok
      /\ left[poller[p]] > 0
  BY DEF Retry, In, MayRetry
<1>2. PICK c \in Calls, n \in Attempts :
        /\ poller[p] = <<c, n>> /\ Following(poller[p]) = <<c, n + 1>>
        /\ CallInv(c) /\ Newest(c, n)
  BY <1>1, InHandler
<1>3. TypeOK
  BY DEF IndInv
<1>4. n <= Retries /\ left[<<c, n>>] = Retries + 1 - n
  BY <1>1, <1>2 DEF CallInv, Counted
<1>5. n + 1 \in Attempts /\ hst[<<c, n + 1>>] = "none"
  BY <1>2, <1>4 DEF Newest
<1>6. promise[c] = "unset" /\ <<c, n>> \in holds /\ replies[c] = 0
  BY <1>1, <1>2 DEF CallInv, Responsible
<1>7. /\ hst' = [hst EXCEPT ![<<c, n>>] = "retrying", ![<<c, n + 1>>] = "inflight"]
      /\ left' = [left EXCEPT ![<<c, n + 1>>] = Retries - n]
      /\ holds' = holds \cup {<<c, n + 1>>}
      /\ UNCHANGED <<ok, promise, replies, poller, todo, dead>>
  <2>1. LeftAfter(poller[p]) = Retries - n
    BY <1>2, <1>4 DEF LeftAfter
  <2>2. HoldersAfter(poller[p]) = holds \cup {<<c, n + 1>>}
    BY <1>2, <1>6 DEF HoldersAfter
  <2>3. /\ hst' = [hst EXCEPT ![poller[p]] = "retrying", ![Following(poller[p])] = "inflight"]
        /\ left' = [left EXCEPT ![Following(poller[p])] = LeftAfter(poller[p])]
        /\ holds' = HoldersAfter(poller[p])
        /\ UNCHANGED <<ok, promise, replies, poller, todo, dead>>
    BY DEF Retry
  <2> HIDE DEF Handlers, Attempts
  <2> QED
    BY <1>2, <2>1, <2>2, <2>3
<1>8. TypeOK'
  <2>1. dead' \in BOOLEAN
    BY <1>3, <1>7, Zenon DEF TypeOK
  <2>2. left' \in [Handlers -> 0 .. Retries]
    <3>1. Retries - n \in 0 .. Retries
      BY <1>4
    <3> QED
      BY <1>3, <1>7, <3>1 DEF TypeOK
  <2>3. hst' \in [Handlers -> HandlerStates]
    BY <1>3, <1>7 DEF TypeOK, HandlerStates
  <2>4. holds' \subseteq Handlers
    BY <1>3, <1>5, <1>7 DEF TypeOK
  <2> QED
    BY <1>3, <1>7, <2>1, <2>2, <2>3, <2>4 DEF TypeOK
<1>9. PromiseSetOnce'
  BY <1>7, Zenon DEF IndInv, PromiseSetOnce
<1>10. Handling'
  <2>1. Handling
    BY DEF IndInv
  <2>2. \A q \in Pollers : poller[q] # <<c, n + 1>>
    <3>1. Idle # <<c, n + 1>>
      BY <1>5
    <3> QED
      BY <1>5, <2>1, <3>1 DEF Handling
  <2>3. ASSUME NEW q \in Pollers, poller[q] # Idle
        PROVE  hst'[poller[q]] \in {"handling", "retrying", "finished", "failed"}
    BY <1>3, <1>7, <2>1, <2>2, <2>3 DEF Handling, TypeOK
  <2> QED
    BY <1>7, <2>1, <2>3 DEF Handling
<1>11. Waiting'
  BY <1>7 DEF IndInv, Waiting, Waited
<1>12. ASSUME NEW d \in Calls PROVE CallInv(d)'
  <2>1. CASE d # c
    BY <1>3, <1>7, <2>1, OtherCalls DEF TypeOK, IndInv
  <2>2. CASE d = c
    <3>1. \A m \in Attempts :
            /\ hst'[<<c, m>>] = IF m = n THEN "retrying"
                                ELSE IF m = n + 1 THEN "inflight" ELSE hst[<<c, m>>]
            /\ left'[<<c, m>>] = IF m = n + 1 THEN Retries - n ELSE left[<<c, m>>]
            /\ <<c, m>> \in ok' <=> <<c, m>> \in ok
            /\ <<c, m>> \in holds' <=> (<<c, m>> \in holds \/ m = n + 1)
      <4>1. ASSUME NEW m \in Attempts
            PROVE  /\ hst'[<<c, m>>] = IF m = n THEN "retrying"
                                ELSE IF m = n + 1 THEN "inflight" ELSE hst[<<c, m>>]
                   /\ left'[<<c, m>>] = IF m = n + 1 THEN Retries - n ELSE left[<<c, m>>]
        <5>1. <<c, m>> = <<c, n>> <=> m = n
          OBVIOUS
        <5>2. <<c, m>> = <<c, n + 1>> <=> m = n + 1
          OBVIOUS
        <5>3. <<c, m>> \in DOMAIN hst /\ <<c, m>> \in DOMAIN left
          BY <1>3 DEF TypeOK
        <5> QED
          BY <1>7, <5>1, <5>2, <5>3, n + 1 # n
      <4> QED
        BY <1>7, <4>1
    <3>2. /\ \A m \in Attempts : n < m => hst[<<c, m>>] = "none"
          /\ \A m \in Attempts : m < n => hst[<<c, m>>] # "none"
      BY <1>2 DEF Newest, CallInv, Chain
    <3>3. \A m \in Attempts : Newest(c, m)' <=> m = n + 1
      BY <1>5, <3>1, <3>2 DEF Newest
    <3>4. Chain(c)'
      <4>1. \E m \in Attempts : Newest(c, m)'
        BY <1>5, <3>3
      <4>2. ASSUME NEW k \in Attempts, NEW m \in Attempts, k < m, hst'[<<c, m>>] # "none"
            PROVE  /\ hst'[<<c, k>>] \in {"retrying", "finished", "deleted"}
                   /\ <<c, k>> \notin ok'
                   /\ <<c, k>> \in holds' => hst'[<<c, k>>] = "retrying"
        <5>1. k <= n
          BY <3>1, <3>2, <4>2
        <5>2. CASE k = n
          BY <1>1, <1>2, <3>1, <5>2
        <5>3. CASE k < n
          <6>1. /\ hst[<<c, k>>] \in {"retrying", "finished", "deleted"}
                /\ <<c, k>> \notin ok
                /\ <<c, k>> \in holds => hst[<<c, k>>] = "retrying"
            BY <1>2, <5>3 DEF CallInv, Chain, Newest
          <6> QED
            BY <3>1, <5>3, <6>1
        <5> QED
          BY <5>1, <5>2, <5>3
      <4> QED
        BY <4>1, <4>2 DEF Chain
    <3>5. Counted(c)'
      <4>1. ASSUME NEW m \in Attempts
            PROVE  /\ hst'[<<c, m>>] # "none" =>
                        m <= Retries + 1 /\ left'[<<c, m>>] = Retries + 1 - m
                   /\ hst'[<<c, m>>] = "none" => <<c, m>> \notin holds'
                   /\ hst'[<<c, m>>] \in {"none", "inflight"} => <<c, m>> \notin ok'
        <5>1. /\ hst[<<c, m>>] # "none" =>
                      m <= Retries + 1 /\ left[<<c, m>>] = Retries + 1 - m
              /\ hst[<<c, m>>] = "none" => <<c, m>> \notin holds
              /\ hst[<<c, m>>] \in {"none", "inflight"} => <<c, m>> \notin ok
          BY <1>2 DEF CallInv, Counted
        <5>2. CASE m = n
          BY <1>1, <1>2, <1>4, <3>1, <5>1, <5>2
        <5>3. CASE m = n + 1
          <6>1. m <= Retries + 1 /\ Retries + 1 - m = Retries - n
            BY <1>4, <5>3
          <6> QED
            BY <1>5, <3>1, <5>1, <5>3, <6>1
        <5>4. CASE m # n /\ m # n + 1
          BY <3>1, <5>1, <5>4
        <5> QED
          BY <5>2, <5>3, <5>4
      <4> QED
        BY <4>1 DEF Counted
    <3>6. Responsible(c)'
      <4>1. promise'[c] = "unset" /\ replies'[c] = 0 /\ <<c, n + 1>> \in holds'
        BY <1>6, <1>7
      <4>2. hst'[<<c, n + 1>>] = "inflight"
        BY <1>5, <3>1, n + 1 # n
      <4> QED
        BY <3>3, <4>1, <4>2 DEF Responsible
    <3>7. Unissued(c)'
      BY <1>5, <1>6, <1>7, <3>1, <3>2 DEF Unissued
    <3> QED
      BY <2>2, <3>4, <3>5, <3>6, <3>7 DEF CallInv
  <2> QED
    BY <2>1, <2>2
<1> QED
  BY <1>8, <1>9, <1>10, <1>11, <1>12 DEF IndInv

(* init_ throws in the constructor of the next attempt: this one leaks. *)
LEMMA RetryThrowsKeeps ==
  ASSUME IndInv, NEW p \in Pollers, RetryThrows(p)
  PROVE  IndInv'
<1> USE ClientAssumption DEF Handlers, Attempts
<1>1. poller[p] # Idle /\ hst[poller[p]] = "handling"
  BY DEF RetryThrows, In
<1>2. PICK c \in Calls, n \in Attempts :
        /\ poller[p] = <<c, n>> /\ CallOf(poller[p]) = c /\ CallInv(c) /\ Newest(c, n)
  BY <1>1, InHandler
<1>3. promise[c] = "unset"
  BY <1>1, <1>2 DEF CallInv, Responsible
<1>4. /\ c \in Faulty
      /\ promise' = [promise EXCEPT ![c] = "ok"]
      /\ hst' = [hst EXCEPT ![<<c, n>>] = "leaked"]
      /\ poller' = [poller EXCEPT ![p] = Idle]
      /\ UNCHANGED <<ok, left, holds, replies, todo, dead>>
  <2> HIDE DEF Handlers, Attempts
  <2> QED
    BY <1>2, <1>3 DEF RetryThrows, SetPromise
<1>5. TypeOK
  BY DEF IndInv
<1>6. TypeOK'
  <2>1. dead' \in BOOLEAN
    BY <1>4, <1>5, Zenon DEF TypeOK
  <2> QED
    BY <1>4, <1>5, <2>1 DEF TypeOK, HandlerStates
<1>7. PromiseSetOnce'
  BY <1>4, Zenon DEF IndInv, PromiseSetOnce
<1>8. Handling'
  <2>1. Handling
    BY DEF IndInv
  <2>2. \A q \in Pollers : poller[q] = <<c, n>> => q = p
    BY <1>1, <1>2, <2>1 DEF Handling
  <2> QED
    BY <1>1, <1>2, <1>4, <1>5, <2>1, <2>2 DEF Handling, TypeOK
<1>9. Waiting'
  BY <1>4, <1>5 DEF IndInv, Waiting, Waited, TypeOK
<1>10. ASSUME NEW d \in Calls PROVE CallInv(d)'
  <2>1. CASE d # c
    BY <1>4, <1>5, <2>1, OtherCalls DEF TypeOK, IndInv
  <2>2. CASE d = c
    <3>1. \A m \in Attempts : /\ hst'[<<c, m>>] = IF m = n THEN "leaked" ELSE hst[<<c, m>>]
                              /\ left'[<<c, m>>] = left[<<c, m>>]
                              /\ m # n => (<<c, m>> \in ok' <=> <<c, m>> \in ok)
                              /\ m # n => (<<c, m>> \in holds' <=> <<c, m>> \in holds)
      BY <1>4, <1>5 DEF TypeOK
    <3>2. /\ Chain(c)' /\ Counted(c)' /\ Unissued(c)'
          /\ \A m \in Attempts : Newest(c, m)' <=> m = n
      <4>1. "leaked" \in HandlerStates \ {"none"} /\ "leaked" # "inflight"
        BY DEF HandlerStates
      <4> QED
        BY <1>2, <3>1, <4>1, NewestMoves
    <3>3. Responsible(c)'
      BY <1>4, <3>1, <3>2 DEF Responsible
    <3> QED
      BY <2>2, <3>2, <3>3 DEF CallInv
  <2> QED
    BY <2>1, <2>2
<1> QED
  BY <1>6, <1>7, <1>8, <1>9, <1>10 DEF IndInv

(* A step of an attempt that is not the newest: it lets go of the promise. *)
LEMMA EarlierMoves ==
  ASSUME NEW c \in Calls, NEW n \in Attempts, CallInv(c), ~Newest(c, n),
         hst[<<c, n>>] \in {"retrying", "finished"},
         NEW state \in {"finished", "deleted"},
         \A m \in Attempts : /\ hst'[<<c, m>>] = IF m = n THEN state ELSE hst[<<c, m>>]
                             /\ left'[<<c, m>>] = left[<<c, m>>]
                             /\ <<c, m>> \in ok' <=> <<c, m>> \in ok
                             /\ <<c, m>> \in holds' <=> (<<c, m>> \in holds /\ m # n),
         promise'[c] = promise[c], replies'[c] = replies[c]
  PROVE  CallInv(c)'
<1> USE ClientAssumption
<1>1. 1 \in Attempts /\ \A m \in Attempts : m \in Int
  BY DEF Attempts
<1>2. \A m \in Attempts : hst'[<<c, m>>] = "none" <=> hst[<<c, m>>] = "none"
  OBVIOUS
<1>3. \A m \in Attempts : Newest(c, m)' <=> Newest(c, m)
  BY <1>2 DEF Newest
<1>4. Chain(c)'
  BY <1>1, <1>2, <1>3 DEF CallInv, Chain
<1>5. Counted(c)'
  BY <1>2 DEF CallInv, Counted
<1>6. Responsible(c)'
  BY <1>3 DEF CallInv, Responsible
<1>7. Unissued(c)'
  BY <1>1, <1>2 DEF CallInv, Unissued
<1> QED
  BY <1>4, <1>5, <1>6, <1>7 DEF CallInv

(* complete_promise_ = nullptr: only the next attempt has the promise now. *)
LEMMA ForgetKeeps ==
  ASSUME IndInv, NEW p \in Pollers, Forget(p)
  PROVE  IndInv'
<1> USE ClientAssumption DEF Handlers, Attempts
<1>1. poller[p] # Idle /\ hst[poller[p]] = "retrying"
  BY DEF Forget, In
<1>2. PICK c \in Calls, n \in Attempts : poller[p] = <<c, n>> /\ CallInv(c)
  BY <1>1, InHandler
<1>3. /\ holds' = holds \ {<<c, n>>}
      /\ hst' = [hst EXCEPT ![<<c, n>>] = "finished"]
      /\ UNCHANGED <<ok, left, promise, replies, poller, todo, dead>>
  BY <1>2 DEF Forget, Released
<1>4. TypeOK
  BY DEF IndInv
<1>5. TypeOK'
  <2>1. dead' \in BOOLEAN
    BY <1>3, <1>4, Zenon DEF TypeOK
  <2> QED
    BY <1>3, <1>4, <2>1 DEF TypeOK, HandlerStates
<1>6. PromiseSetOnce'
  BY <1>3, Zenon DEF IndInv, PromiseSetOnce
<1>7. Handling'
  <2>1. Handling
    BY DEF IndInv
  <2> QED
    BY <1>3, <1>4, <2>1 DEF Handling, TypeOK
<1>8. Waiting'
  BY <1>3 DEF IndInv, Waiting, Waited
<1>9. ASSUME NEW d \in Calls PROVE CallInv(d)'
  <2>1. CASE d # c
    BY <1>3, <1>4, <2>1, OtherCalls DEF TypeOK, IndInv
  <2>2. CASE d = c
    <3>1. \A m \in Attempts : /\ hst'[<<c, m>>] = IF m = n THEN "finished" ELSE hst[<<c, m>>]
                              /\ left'[<<c, m>>] = left[<<c, m>>]
                              /\ <<c, m>> \in ok' <=> <<c, m>> \in ok
                              /\ <<c, m>> \in holds' <=> (<<c, m>> \in holds /\ m # n)
      BY <1>3, <1>4 DEF TypeOK
    <3>2. ~Newest(c, n)
      BY <1>1, <1>2 DEF CallInv, Responsible
    <3>3. promise'[c] = promise[c] /\ replies'[c] = replies[c]
      BY <1>3
    <3> QED
      BY <1>1, <1>2, <2>2, <3>1, <3>2, <3>3, EarlierMoves
  <2> QED
    BY <2>1, <2>2
<1> QED
  BY <1>5, <1>6, <1>7, <1>8, <1>9 DEF IndInv

(* No attempt is left: every one of them was made, and failed. *)
LEMMA GiveUpKeeps ==
  ASSUME IndInv, NEW p \in Pollers, GiveUp(p)
  PROVE  IndInv'
<1> USE ClientAssumption DEF Handlers, Attempts
<1>1. /\ poller[p] # Idle /\ hst[poller[p]] = "handling" /\ poller[p] \notin ok
      /\ ~(left[poller[p]] > 0)
  BY DEF GiveUp, In, MayRetry
<1>2. PICK c \in Calls, n \in Attempts : poller[p] = <<c, n>> /\ CallInv(c) /\ Newest(c, n)
  BY <1>1, InHandler
<1>3. /\ hst' = [hst EXCEPT ![<<c, n>>] = "failed"]
      /\ UNCHANGED <<ok, left, holds, promise, replies, poller, todo, dead>>
  BY <1>2 DEF GiveUp
<1>4. TypeOK
  BY DEF IndInv
<1>5. TypeOK'
  <2>1. dead' \in BOOLEAN
    BY <1>3, <1>4, Zenon DEF TypeOK
  <2> QED
    BY <1>3, <1>4, <2>1 DEF TypeOK, HandlerStates
<1>6. PromiseSetOnce'
  BY <1>3, Zenon DEF IndInv, PromiseSetOnce
<1>7. Handling'
  <2>1. Handling
    BY DEF IndInv
  <2> QED
    BY <1>3, <1>4, <2>1 DEF Handling, TypeOK
<1>8. Waiting'
  BY <1>3 DEF IndInv, Waiting, Waited
<1>9. ASSUME NEW d \in Calls PROVE CallInv(d)'
  <2>1. CASE d # c
    BY <1>3, <1>4, <2>1, OtherCalls DEF TypeOK, IndInv
  <2>2. CASE d = c
    <3>1. \A m \in Attempts : /\ hst'[<<c, m>>] = IF m = n THEN "failed" ELSE hst[<<c, m>>]
                              /\ left'[<<c, m>>] = left[<<c, m>>]
                              /\ m # n => (<<c, m>> \in ok' <=> <<c, m>> \in ok)
                              /\ m # n => (<<c, m>> \in holds' <=> <<c, m>> \in holds)
      BY <1>3, <1>4 DEF TypeOK
    <3>2. /\ Chain(c)' /\ Counted(c)' /\ Unissued(c)'
          /\ \A m \in Attempts : Newest(c, m)' <=> m = n
      <4>1. "failed" \in HandlerStates \ {"none"} /\ "failed" # "inflight"
        BY DEF HandlerStates
      <4> QED
        BY <1>2, <3>1, <4>1, NewestMoves
    <3>3. /\ promise'[c] = "unset" /\ replies'[c] = 0
          /\ <<c, n>> \in holds' /\ <<c, n>> \notin ok'
      BY <1>1, <1>2, <1>3 DEF CallInv, Responsible
    <3>4. n = Retries + 1
      BY <1>1, <1>2 DEF CallInv, Counted
    <3>5. Responsible(c)'
      BY <3>1, <3>2, <3>3, <3>4 DEF Responsible
    <3> QED
      BY <2>2, <3>2, <3>5 DEF CallInv
  <2> QED
    BY <2>1, <2>2
<1> QED
  BY <1>5, <1>6, <1>7, <1>8, <1>9 DEF IndInv

(* The destructor sets the promise if the handler still has it, and then *)
(* the handler is the newest and the promise unset.                      *)
LEMMA DeleteKeeps ==
  ASSUME IndInv, NEW p \in Pollers, Delete(p)
  PROVE  IndInv'
<1> USE ClientAssumption DEF Handlers, Attempts
<1>1. poller[p] # Idle /\ hst[poller[p]] \in {"finished", "failed"}
  BY DEF Delete, In
<1>2. PICK c \in Calls, n \in Attempts :
        /\ poller[p] = <<c, n>> /\ CallOf(poller[p]) = c /\ CallInv(c)
        /\ hst[<<c, n>>] = "failed" => Newest(c, n)
  BY <1>1, InHandler
<1>3. /\ holds' = holds \ {<<c, n>>}
      /\ hst' = [hst EXCEPT ![<<c, n>>] = "deleted"]
      /\ poller' = [poller EXCEPT ![p] = Idle]
      /\ UNCHANGED <<ok, left, replies, todo>>
  BY <1>2 DEF Delete
<1>4. <<c, n>> \in holds <=> Newest(c, n)
  <2>1. ASSUME Newest(c, n) PROVE <<c, n>> \in holds
    BY <1>1, <1>2, <2>1 DEF CallInv, Responsible
  <2>2. ASSUME ~Newest(c, n) PROVE <<c, n>> \notin holds
    <3>1. PICK m \in Attempts : n < m /\ hst[<<c, m>>] # "none"
      BY <1>1, <1>2, <2>2 DEF Newest
    <3> QED
      BY <1>1, <1>2, <3>1 DEF CallInv, Chain
  <2> QED
    BY <2>1, <2>2
<1>5. Newest(c, n) => promise[c] = "unset"
  BY <1>1, <1>2 DEF CallInv, Responsible
<1>6. /\ promise' = IF Newest(c, n) THEN [promise EXCEPT ![c] = ErrorOf(<<c, n>>)] ELSE promise
      /\ dead' = dead
  <2> HIDE DEF Handlers, Attempts
  <2>1. /\ IF <<c, n>> \in holds THEN SetPromise(c, ErrorOf(<<c, n>>))
           ELSE UNCHANGED <<promise, dead>>
    BY <1>2 DEF Delete
  <2> QED
    BY <1>4, <1>5, <2>1 DEF SetPromise
<1>7. TypeOK
  BY DEF IndInv
<1>8. TypeOK'
  <2>1. dead' \in BOOLEAN
    BY <1>6, <1>7, Zenon DEF TypeOK
  <2>2. promise' \in [Calls -> {"unset", "ok", "err"}]
    BY <1>6, <1>7 DEF TypeOK, ErrorOf
  <2> QED
    BY <1>3, <1>7, <2>1, <2>2 DEF TypeOK, HandlerStates
<1>9. PromiseSetOnce'
  BY <1>6, Zenon DEF IndInv, PromiseSetOnce
<1>10. Handling'
  <2>1. Handling
    BY DEF IndInv
  <2>2. \A q \in Pollers : poller[q] = <<c, n>> => q = p
    BY <1>1, <1>2, <2>1 DEF Handling
  <2> QED
    BY <1>1, <1>2, <1>3, <1>7, <2>1, <2>2 DEF Handling, TypeOK
<1>11. Waiting'
  BY <1>3, <1>6, <1>7 DEF IndInv, Waiting, Waited, TypeOK, ErrorOf
<1>12. ASSUME NEW d \in Calls PROVE CallInv(d)'
  <2>1. CASE d # c
    BY <1>3, <1>6, <1>7, <2>1, OtherCalls DEF TypeOK, IndInv
  <2>2. CASE d = c /\ Newest(c, n)
    <3>1. \A m \in Attempts : /\ hst'[<<c, m>>] = IF m = n THEN "deleted" ELSE hst[<<c, m>>]
                              /\ left'[<<c, m>>] = left[<<c, m>>]
                              /\ m # n => (<<c, m>> \in ok' <=> <<c, m>> \in ok)
                              /\ m # n => (<<c, m>> \in holds' <=> <<c, m>> \in holds)
      BY <1>3, <1>7 DEF TypeOK
    <3>2. /\ Chain(c)' /\ Counted(c)' /\ Unissued(c)'
          /\ \A m \in Attempts : Newest(c, m)' <=> m = n
      <4>1. "deleted" \in HandlerStates \ {"none"} /\ "deleted" # "inflight"
        BY DEF HandlerStates
      <4> QED
        BY <1>2, <2>2, <3>1, <4>1, NewestMoves
    <3>3. promise'[c] = ErrorOf(<<c, n>>) /\ replies'[c] = replies[c]
      BY <1>3, <1>6, <1>7, <2>2 DEF TypeOK
    <3>4. CASE hst[<<c, n>>] = "finished"
      <4>1. promise'[c] = "ok" /\ replies'[c] = 1
        BY <1>2, <2>2, <3>3, <3>4 DEF CallInv, Responsible, ErrorOf
      <4>2. Responsible(c)'
        BY <3>1, <3>2, <4>1 DEF Responsible
      <4> QED
        BY <2>2, <3>2, <4>2 DEF CallInv
    <3>5. CASE hst[<<c, n>>] = "failed"
      <4>1. /\ promise'[c] = "err" /\ replies'[c] = 0
            /\ <<c, n>> \notin ok' /\ n = Retries + 1
        BY <1>2, <1>3, <2>2, <3>3, <3>5 DEF CallInv, Responsible, ErrorOf
      <4>2. Responsible(c)'
        BY <3>1, <3>2, <4>1 DEF Responsible
      <4> QED
        BY <2>2, <3>2, <4>2 DEF CallInv
    <3> QED
      BY <1>1, <1>2, <3>4, <3>5
  <2>3. CASE d = c /\ ~Newest(c, n)
    <3>1. \A m \in Attempts : /\ hst'[<<c, m>>] = IF m = n THEN "deleted" ELSE hst[<<c, m>>]
                              /\ left'[<<c, m>>] = left[<<c, m>>]
                              /\ <<c, m>> \in ok' <=> <<c, m>> \in ok
                              /\ <<c, m>> \in holds' <=> (<<c, m>> \in holds /\ m # n)
      BY <1>3, <1>7 DEF TypeOK
    <3>2. promise'[c] = promise[c] /\ replies'[c] = replies[c]
      BY <1>3, <1>6, <2>3
    <3> QED
      BY <1>1, <1>2, <2>3, <3>1, <3>2, EarlierMoves
  <2> QED
    BY <2>1, <2>2, <2>3
<1> QED
  BY <1>8, <1>9, <1>10, <1>11, <1>12 DEF IndInv

(* wait_for goes on from a promise that is set. *)
LEMMA WaitKeeps ==
  ASSUME IndInv, wait_for
  PROVE  IndInv'
<1> USE ClientAssumption DEF Handlers, Attempts
<1>1. /\ todo # <<>> /\ promise[Head(todo)] # "unset" /\ todo' = Tail(todo)
      /\ UNCHANGED <<hst, ok, left, holds, promise, replies, poller, dead>>
  BY DEF wait_for, MayGoOn
<1>2. TypeOK
  BY DEF IndInv
<1>3. /\ todo' \in Seq(Calls) /\ Len(todo') = Len(todo) - 1
      /\ \A i \in 1 .. Len(todo') : todo'[i] = todo[i + 1]
      /\ Head(todo) = todo[1] /\ Len(todo) \in Nat /\ Len(todo) # 0
  BY <1>1, <1>2, HeadTailProperties, EmptySeq, LenProperties DEF TypeOK
<1>4. TypeOK'
  <2>1. dead' \in BOOLEAN
    BY <1>1, <1>2, Zenon DEF TypeOK
  <2> QED
    BY <1>1, <1>2, <1>3, <2>1 DEF TypeOK
<1>5. PromiseSetOnce'
  BY <1>1, Zenon DEF IndInv, PromiseSetOnce
<1>6. Handling'
  BY <1>1 DEF IndInv, Handling
<1>7. Waiting'
  <2>1. SUFFICES ASSUME NEW c \in Calls, Waited(c)', promise[c] = "unset"
                 PROVE  FALSE
    BY <1>1 DEF Waiting
  <2>2. ASSUME NEW k \in DOMAIN todo PROVE todo[k] # c
    <3>1. CASE k = 1
      BY <1>1, <1>3, <2>1, <3>1
    <3>2. CASE k # 1
      <4>1. k - 1 \in 1 .. Len(todo')
        <5>1. k \in 1 .. Len(todo)
          BY <1>2, LenProperties DEF TypeOK
        <5> QED
          BY <1>3, <3>2, <5>1
      <4> QED
        BY <1>3, <2>1, <4>1 DEF Waited
    <3> QED
      BY <3>1, <3>2
  <2> QED
    BY <2>1, <2>2 DEF IndInv, Waiting, Waited
<1>8. ASSUME NEW d \in Calls PROVE CallInv(d)'
  BY <1>1, OtherCalls DEF IndInv
<1> QED
  BY <1>4, <1>5, <1>6, <1>7, <1>8 DEF IndInv

-----------------------------------------------------------------------------
(* IndInv is inductive, and what follows from it. *)

LEMMA StutterKeeps == IndInv /\ UNCHANGED vars => IndInv'
<1> SUFFICES ASSUME IndInv, UNCHANGED vars PROVE IndInv'
  OBVIOUS
<1>1. UNCHANGED <<hst, ok, left, holds, promise, replies, poller, todo, dead>>
  BY DEF vars
<1>2. TypeOK'
  BY <1>1, Zenon DEF IndInv, TypeOK
<1>3. PromiseSetOnce'
  BY <1>1, Zenon DEF IndInv, PromiseSetOnce
<1>4. Handling' /\ Waiting'
  BY <1>1 DEF IndInv, Handling, Waiting, Waited
<1>5. ASSUME NEW d \in Calls PROVE CallInv(d)'
  BY <1>1, OtherCalls DEF IndInv
<1> QED
  BY <1>2, <1>3, <1>4, <1>5 DEF IndInv

LEMMA StepHolds == IndInv /\ [Next]_vars => IndInv'
<1> SUFFICES ASSUME IndInv, Next PROVE IndInv'
  BY StutterKeeps
<1>1. ASSUME NEW c \in Calls, Issue(c) \/ IssueThrows(c) PROVE IndInv'
  BY <1>1, IssueKeeps, IssueThrowsKeeps
<1>2. ASSUME NEW h \in Handlers, Complete(h) PROVE IndInv'
  BY <1>2, CompleteKeeps
<1>3. ASSUME NEW p \in Pollers, Poll(p) PROVE IndInv'
  BY <1>3, NextKeeps, ReplyKeeps, RetryKeeps, RetryThrowsKeeps, ForgetKeeps, GiveUpKeeps,
     DeleteKeeps DEF Poll
<1>4. ASSUME wait_for PROVE IndInv'
  BY <1>4, WaitKeeps
<1> QED
  BY <1>1, <1>2, <1>3, <1>4 DEF Next

LEMMA Inductive == Spec => []IndInv
<1>1. Init => IndInv
  BY InitHolds
<1>2. IndInv /\ [Next]_vars => IndInv'
  BY StepHolds
<1> QED
  BY <1>1, <1>2, PTL DEF Spec

(* The variables keep their types. *)
THEOREM TypeCorrect == Spec => []TypeOK
<1>1. IndInv => TypeOK
  BY DEF IndInv
<1> QED
  BY <1>1, Inductive, PTL

(* However pollers interleave in the handlers that share a promise, no     *)
(* destructor sets it a second time: set_value never throws in a           *)
(* destructor, for any number of attempts.                                 *)
THEOREM PromiseIsSetOnce == Spec => []PromiseSetOnce
<1>1. IndInv => PromiseSetOnce
  BY DEF IndInv
<1> QED
  BY <1>1, Inductive, PTL

(* Until the promise of a call is set, a handler that will go on has it.   *)
THEOREM PromiseIsNotLost == Spec => []PromiseIsKept
<1>1. IndInv => PromiseIsKept
  <2> SUFFICES ASSUME IndInv, NEW c \in Calls \ Faulty,
                      promise[c] = "unset", hst[<<c, 1>>] # "none"
               PROVE  \E n \in 1 .. Retries + 2 :
                        /\ <<c, n>> \in holds
                        /\ hst[<<c, n>>] \notin {"none", "deleted", "leaked"}
    BY DEF PromiseIsKept
  <2>1. CallInv(c)
    BY DEF IndInv
  <2>2. PICK n \in Attempts : Newest(c, n)
    BY <2>1 DEF CallInv, Chain
  <2>3. <<c, n>> \in Handlers
    BY <2>2 DEF Handlers, Attempts
  <2>4. hst[<<c, n>>] \in {"inflight", "event", "handling", "finished", "failed"}
    BY <2>1, <2>2, <2>3 DEF CallInv, Responsible, Newest, IndInv, TypeOK, HandlerStates
  <2> QED
    BY <2>1, <2>2, <2>4 DEF CallInv, Responsible, Attempts
<1> QED
  BY <1>1, Inductive, PTL

(* What the promise says is what happened to the call: the reply came      *)
(* once, or each of the Retries + 1 attempts was made and failed.          *)
THEOREM PromiseIsTrue == Spec => []PromiseTellsTheTruth
<1>1. IndInv => PromiseTellsTheTruth
  <2> SUFFICES ASSUME IndInv, NEW c \in Calls \ Faulty
               PROVE  /\ replies[c] <= 1 /\ hst[<<c, Retries + 2>>] = "none"
                      /\ promise[c] = "ok" => replies[c] = 1
                      /\ promise[c] = "err" =>
                           /\ replies[c] = 0
                           /\ \A n \in 1 .. Retries + 1 :
                                hst[<<c, n>>] # "none" /\ <<c, n>> \notin ok
    BY DEF PromiseTellsTheTruth
  <2>1. CallInv(c)
    BY DEF IndInv
  <2>2. Retries + 2 \in Attempts /\ ~(Retries + 2 <= Retries + 1)
    BY ClientAssumption DEF Attempts
  <2>3. hst[<<c, Retries + 2>>] = "none"
    BY <2>1, <2>2 DEF CallInv, Counted
  <2>4. CASE hst[<<c, 1>>] = "none"
    BY <2>1, <2>3, <2>4 DEF CallInv, Unissued
  <2>5. CASE hst[<<c, 1>>] # "none"
    <3>1. PICK n \in Attempts : Newest(c, n)
      BY <2>1, <2>5 DEF CallInv, Chain
    <3>2. hst[<<c, n>>] \in HandlerStates
      BY <3>1 DEF IndInv, TypeOK, Handlers, Attempts
    <3>3. /\ replies[c] <= 1
          /\ promise[c] = "ok" => replies[c] = 1
          /\ promise[c] = "err" => replies[c] = 0 /\ <<c, n>> \notin ok /\ n = Retries + 1
      BY <2>1, <3>1, <3>2 DEF CallInv, Responsible, Newest, HandlerStates
    <3>4. ASSUME promise[c] = "err", NEW m \in 1 .. Retries + 1
          PROVE  hst[<<c, m>>] # "none" /\ <<c, m>> \notin ok
      <4>1. CASE m = n
        BY <3>1, <3>3, <3>4, <4>1 DEF Newest
      <4>2. CASE m # n
        <5>1. m \in Attempts /\ m < n
          BY <3>3, <3>4, <4>2, ClientAssumption DEF Attempts
        <5> QED
          BY <2>1, <3>1, <5>1 DEF CallInv, Chain, Newest
      <4> QED
        BY <4>1, <4>2
    <3> QED
      BY <2>3, <3>3, <3>4
  <2> QED
    BY <2>4, <2>5
<1> QED
  BY <1>1, Inductive, PTL

(* When wait_for has passed over a call, nothing of it is in the queue.    *)
THEOREM WaitedMeansQuiet == Spec => []WaitedIsQuiet
<1>1. IndInv => WaitedIsQuiet
  <2> SUFFICES ASSUME IndInv, NEW c \in Calls, Waited(c), NEW n \in Attempts,
                      hst[<<c, n>>] \in {"inflight", "event"}
               PROVE  FALSE
    BY DEF WaitedIsQuiet, Outstanding, Attempts
  <2>1. CallInv(c) /\ promise[c] # "unset"
    BY DEF IndInv, Waiting
  <2>2. Newest(c, n)
    BY <2>1, ClientAssumption DEF CallInv, Chain, Newest, Attempts
  <2> QED
    BY <2>1, <2>2 DEF CallInv, Responsible
<1> QED
  BY <1>1, Inductive, PTL

=============================================================================
