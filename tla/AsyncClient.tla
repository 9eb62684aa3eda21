----------------------------- MODULE AsyncClient -----------------------------
(***************************************************************************)
(* cppkg/egrpc/client_async.h and iclient_async.{h,cc}: unary calls whose  *)
(* responses come back through a completion queue.  A handler object       *)
(* stands for one attempt; a failed attempt makes the handler of the next  *)
(* one and passes the promise on.  Threads that poll the queue call        *)
(* handle(); one thread sits in wait_for(promises).                        *)
(*                                                                         *)
(* gRPC and the callbacks are not part of the repository: an attempt ends  *)
(* with any status, at the latest when the deadline set by build_ctx is    *)
(* over; the callbacks of the calls in Faulty may throw.  Statements of    *)
(* handle() that another poller or the waiter can tell apart are steps.    *)
(***************************************************************************)
EXTENDS Integers, Sequences

CONSTANTS
  Calls,      \* the requests of the client
  Retries,    \* request_retry_
  Pollers,    \* threads that take events from the queue
  Faulty,     \* calls whose init_ or cb_ may throw
  WaitList,   \* the promises given to wait_for, in order
  Idle        \* a poller between two events

ASSUME ClientAssumption ==
  /\ Retries \in Nat /\ Faulty \subseteq Calls
  /\ WaitList \in Seq(Calls)
  /\ \A i, k \in DOMAIN WaitList : WaitList[i] = WaitList[k] => i = k    \* get_future only once
  /\ Idle \notin Calls \X (1 .. Retries + 2)

(* One attempt more than the code may make, so that it would be seen. *)
Handlers == Calls \X (1 .. Retries + 2)

VARIABLES
  hst,        \* state of each handler, see HandlerStates
  ok,         \* handlers whose status_ is OK
  left,       \* nretries_
  holds,      \* handlers whose complete_promise_ is not null
  promise,    \* of a call: "unset", "ok" (a null error) or "err"
  replies,    \* history: how often cb_ was called
  poller,     \* the handler each poller is in
  todo,       \* promises that wait_for has not been through
  dead        \* a destructor set a promise twice: std::terminate

vars == <<hst, ok, left, holds, promise, replies, poller, todo, dead>>

(* inflight: the rpc runs; event: its tag is in the queue; handling: in   *)
(* handle(); retrying: the next handler exists, this one still has the    *)
(* promise; finished, failed: about to be deleted; leaked: an exception   *)
(* left handle() before delete.                                           *)
HandlerStates == {"none", "inflight", "event", "handling", "retrying", "finished",
                  "failed", "deleted", "leaked"}

TypeOK ==
  /\ hst \in [Handlers -> HandlerStates]
  /\ ok \subseteq Handlers
  /\ left \in [Handlers -> 0 .. Retries]
  /\ holds \subseteq Handlers
  /\ promise \in [Calls -> {"unset", "ok", "err"}]
  /\ replies \in [Calls -> Nat]
  /\ poller \in [Pollers -> Handlers \cup {Idle}]
  /\ todo \in Seq(Calls)
  /\ dead \in BOOLEAN

Init ==
  /\ hst = [h \in Handlers |-> "none"]
  /\ ok = {}
  /\ left = [h \in Handlers |-> 0]
  /\ holds = {}
  /\ promise = [c \in Calls |-> "unset"]
  /\ replies = [c \in Calls |-> 0]
  /\ poller = [p \in Pollers |-> Idle]
  /\ todo = WaitList
  /\ dead = FALSE

CallOf(h) == h[1]
Following(h) == <<h[1], h[2] + 1>>

(* ~iClientHandler of a handler that has the promise. *)
SetPromise(c, error) ==
  IF promise[c] = "unset"
  THEN promise' = [promise EXCEPT ![c] = error] /\ UNCHANGED dead
  ELSE dead' = TRUE /\ UNCHANGED promise

Issue(c) ==
  /\ ~dead /\ hst[<<c, 1>>] = "none" /\ promise[c] = "unset"
  /\ hst' = [hst EXCEPT ![<<c, 1>>] = "inflight"]
  /\ left' = [left EXCEPT ![<<c, 1>>] = Retries]
  /\ holds' = holds \cup {<<c, 1>>}
  /\ UNCHANGED <<ok, promise, replies, poller, todo, dead>>

(* An exception of init_ destroys the base part: the promise gets no error. *)
IssueThrows(c) ==
  /\ ~dead /\ hst[<<c, 1>>] = "none" /\ c \in Faulty /\ promise[c] = "unset"
  /\ SetPromise(c, "ok")
  /\ UNCHANGED <<hst, ok, left, holds, replies, poller, todo>>

Complete(h) ==
  /\ ~dead /\ hst[h] = "inflight"
  /\ hst' = [hst EXCEPT ![h] = "event"]
  /\ ok' \in {ok, ok \cup {h}}
  /\ UNCHANGED <<left, holds, promise, replies, poller, todo, dead>>

next(p) ==
  /\ ~dead /\ poller[p] = Idle
  /\ \E h \in Handlers :
       /\ hst[h] = "event"
       /\ hst' = [hst EXCEPT ![h] = "handling"]
       /\ poller' = [poller EXCEPT ![p] = h]
  /\ UNCHANGED <<ok, left, holds, promise, replies, todo, dead>>

-----------------------------------------------------------------------------
(* handle() *)

In(p, state) == ~dead /\ poller[p] # Idle /\ hst[poller[p]] = state

Reply(p) ==
  /\ In(p, "handling") /\ poller[p] \in ok
  /\ replies' = [replies EXCEPT ![CallOf(poller[p])] = @ + 1]
  /\ \/ hst' = [hst EXCEPT ![poller[p]] = "finished"] /\ UNCHANGED poller
     \/ /\ CallOf(poller[p]) \in Faulty    \* cb_ throws
        /\ hst' = [hst EXCEPT ![poller[p]] = "leaked"]
        /\ poller' = [poller EXCEPT ![p] = Idle]
  /\ UNCHANGED <<ok, left, holds, promise, todo, dead>>

(* Seeded fault: one retry too many, from a count of 0. *)
FaultMayRetry(h) == left[h] >= 0
MayRetry(h) == left[h] > 0

(* Seeded faults: the count is not lowered; the promise is given up first. *)
FaultLeftAfter(h) == left[h]
FaultHoldersAfter(h) == holds \ {h}
LeftAfter(h) == left[h] - 1
HoldersAfter(h) == IF h \in holds THEN holds \cup {Following(h)} ELSE holds

Retry(p) ==
  /\ In(p, "handling") /\ poller[p] \notin ok /\ MayRetry(poller[p])
  /\ LET h == poller[p] IN
       /\ hst[Following(h)] = "none"
       /\ hst' = [hst EXCEPT ![h] = "retrying", ![Following(h)] = "inflight"]
       /\ left' = [left EXCEPT ![Following(h)] = LeftAfter(h)]
       /\ holds' = HoldersAfter(h)
  /\ UNCHANGED <<ok, promise, replies, poller, todo, dead>>

RetryThrows(p) ==
  /\ In(p, "handling") /\ poller[p] \notin ok /\ MayRetry(poller[p])
  /\ CallOf(poller[p]) \in Faulty
  /\ SetPromise(CallOf(poller[p]), "ok")
  /\ hst' = [hst EXCEPT ![poller[p]] = "leaked"]
  /\ poller' = [poller EXCEPT ![p] = Idle]
  /\ UNCHANGED <<ok, left, holds, replies, todo>>

(* Seeded fault: complete_promise_ = nullptr is missing. *)
FaultReleased(h) == holds
Released(h) == holds \ {h}

Forget(p) ==
  /\ In(p, "retrying")
  /\ holds' = Released(poller[p])
  /\ hst' = [hst EXCEPT ![poller[p]] = "finished"]
  /\ UNCHANGED <<ok, left, promise, replies, poller, todo, dead>>

GiveUp(p) ==
  /\ In(p, "handling") /\ poller[p] \notin ok /\ ~MayRetry(poller[p])
  /\ hst' = [hst EXCEPT ![poller[p]] = "failed"]
  /\ UNCHANGED <<ok, left, holds, promise, replies, poller, todo, dead>>

ErrorOf(h) == IF hst[h] = "failed" THEN "err" ELSE "ok"

Delete(p) ==
  /\ In(p, "finished") \/ In(p, "failed")
  /\ IF poller[p] \in holds
     THEN SetPromise(CallOf(poller[p]), ErrorOf(poller[p]))
     ELSE UNCHANGED <<promise, dead>>
  /\ holds' = holds \ {poller[p]}
  /\ hst' = [hst EXCEPT ![poller[p]] = "deleted"]
  /\ poller' = [poller EXCEPT ![p] = Idle]
  /\ UNCHANGED <<ok, left, replies, todo>>

Poll(p) ==
  next(p) \/ Reply(p) \/ Retry(p) \/ RetryThrows(p) \/ Forget(p) \/ GiveUp(p) \/ Delete(p)

-----------------------------------------------------------------------------
(* wait_for goes through its list and stays with the first unset promise;  *)
(* what err_handle then does with an error is the client's.                *)

(* Seeded fault: the wait ends with the first time-out. *)
FaultMayGoOn(c) == TRUE
MayGoOn(c) == promise[c] # "unset"

wait_for ==
  /\ ~dead /\ todo # <<>>
  /\ MayGoOn(Head(todo))
  /\ todo' = Tail(todo)
  /\ UNCHANGED <<hst, ok, left, holds, promise, replies, poller, dead>>

Next ==
  \/ \E c \in Calls : Issue(c) \/ IssueThrows(c)
  \/ \E h \in Handlers : Complete(h)
  \/ \E p \in Pollers : Poll(p)
  \/ wait_for

Spec == Init /\ [][Next]_vars

(* Every attempt ends (it has a deadline), pollers poll, the waiter waits. *)
FairSpec ==
  /\ Spec
  /\ \A h \in Handlers : WF_vars(Complete(h))
  /\ \A p \in Pollers : WF_vars(Poll(p))
  /\ WF_vars(wait_for)

-----------------------------------------------------------------------------
(* Properties. *)

Outstanding(c) == \E n \in 1 .. Retries + 2 : hst[<<c, n>>] \in {"inflight", "event"}
Waited(c) ==
  /\ \E k \in DOMAIN WaitList : WaitList[k] = c
  /\ \A k \in DOMAIN todo : todo[k] # c

(* Two handlers share the promise for a moment; it is still set only once, *)
(* however the pollers that run the two interleave.                        *)
PromiseSetOnce == ~dead

(* A promise that is not set is in the hands of a handler that will go on, *)
(* so that wait_for cannot spin forever on a promise nobody has.           *)
PromiseIsKept ==
  \A c \in Calls \ Faulty : promise[c] = "unset" /\ hst[<<c, 1>>] # "none" =>
    \E n \in 1 .. Retries + 2 :
      <<c, n>> \in holds /\ hst[<<c, n>>] \notin {"none", "deleted", "leaked"}

(* The promise says what happened: no error means that cb_ got the reply,  *)
(* exactly once; an error means that it never did, and that every one of   *)
(* the Retries + 1 attempts was made and failed, and none beyond them.     *)
PromiseTellsTheTruth ==
  \A c \in Calls \ Faulty :
    /\ replies[c] <= 1 /\ hst[<<c, Retries + 2>>] = "none"
    /\ promise[c] = "ok" => replies[c] = 1
    /\ promise[c] = "err" =>
         replies[c] = 0 /\ \A n \in 1 .. Retries + 1 : hst[<<c, n>>] # "none" /\ <<c, n>> \notin ok

(* When wait_for is through with a call, no operation of that call is in   *)
(* the queue or will ever be: the queue may be shut down.                  *)
WaitedIsQuiet == \A c \in Calls : Waited(c) => ~Outstanding(c)

(* Once every call is issued, wait_for returns, or at least it comes to a  *)
(* call whose callbacks throw.                                             *)
WaitEnds ==
  (\A c \in Calls : hst[<<c, 1>>] # "none") ~> (todo = <<>> \/ Head(todo) \in Faulty)
=============================================================================
