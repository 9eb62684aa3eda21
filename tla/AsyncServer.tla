----------------------------- MODULE AsyncServer -----------------------------
(***************************************************************************)
(* cppkg/egrpc/server_async.h: unary calls of a server.  A call object     *)
(* registers itself for the next request; serve() first registers its      *)
(* successor, then answers, and the object deletes itself when its tag     *)
(* comes back the second time.  The constructor gives the new tag to gRPC  *)
(* before its last statement, so it is cut there; so is serve() where it   *)
(* sets done_, before write_call_ and the answer.                          *)
(*                                                                         *)
(* External: the threads that drain the queue do what the tests do, serve() *)
(* for an event that is ok and shutdown() for one that is not; gRPC        *)
(* matches requests with registered calls, reports the end of an answer    *)
(* either way, and fails the registrations of a server that shuts down.    *)
(* write_call_ is the service's and may throw; then the thread catches     *)
(* what comes out of serve() and polls again.  The first object was made   *)
(* before these threads were started.                                      *)
(***************************************************************************)
EXTENDS Naturals, FiniteSets

CONSTANTS
  Pollers,     \* threads that drain the completion queue
  MaxRequests, \* bound: requests that clients send
  NoCall       \* no object: of a poller between two events, or outside a constructor

(* One call object for each request, and one that waits for another. *)
Calls == 1 .. MaxRequests + 1

ASSUME ServerAssumption == MaxRequests \in Nat /\ NoCall \notin Calls

VARIABLES
  made,     \* how many objects were constructed: 1 .. made
  alive,    \* those that were not deleted
  done,     \* objects whose done_ is set
  op,       \* of an object: "none", "request" or "finish" is with gRPC
  event,    \* of an object: its tag is in the queue as "ok", "not_ok", or "none"
  pc,       \* of a poller: "idle", "serve", "construct", "work", "answer"
  cur,      \* the object in whose serve() the poller is
  built,    \* the object in whose constructor the poller is
  leaked,   \* history: objects that an exception of write_call_ left behind
  answers,  \* history: how often the request of an object was answered
  broken,   \* history: a constructor used its object after it was deleted
  down      \* the server was told to shut down

vars == <<made, alive, done, op, event, pc, cur, built, leaked, answers, broken, down>>

TypeOK ==
  /\ made \in Calls
  /\ alive \subseteq Calls /\ done \subseteq Calls /\ leaked \subseteq Calls
  /\ op \in [Calls -> {"none", "request", "finish"}]
  /\ event \in [Calls -> {"none", "ok", "not_ok"}]
  /\ pc \in [Pollers -> {"idle", "serve", "construct", "work", "answer"}]
  /\ cur \in [Pollers -> Calls \cup {NoCall}]
  /\ built \in [Pollers -> Calls \cup {NoCall}]
  /\ answers \in [Calls -> Nat]
  /\ {broken, down} \subseteq BOOLEAN

Init ==
  /\ made = 1
  /\ alive = {1}
  /\ done = {}
  /\ op = [c \in Calls |-> IF c = 1 THEN "request" ELSE "none"]
  /\ event = [c \in Calls |-> "none"]
  /\ pc = [p \in Pollers |-> "idle"]
  /\ cur = [p \in Pollers |-> NoCall]
  /\ built = [p \in Pollers |-> NoCall]
  /\ leaked = {}
  /\ answers = [c \in Calls |-> 0]
  /\ broken = FALSE
  /\ down = FALSE

-----------------------------------------------------------------------------
(* gRPC (external). *)

Report(c, result) ==
  /\ op' = [op EXCEPT ![c] = "none"]
  /\ event' = [event EXCEPT ![c] = result]
  /\ UNCHANGED <<made, alive, done, pc, cur, built, leaked, answers, broken, down>>

(* The last object only listens: there are no more requests than that. *)
Request(c) == ~down /\ op[c] = "request" /\ c <= MaxRequests /\ Report(c, "ok")

CancelRequest(c) == down /\ op[c] = "request" /\ Report(c, "not_ok")

Finished(c) == op[c] = "finish" /\ \E result \in {"ok", "not_ok"} : Report(c, result)

Shutdown ==
  /\ ~down
  /\ down' = TRUE
  /\ UNCHANGED <<made, alive, done, op, event, pc, cur, built, leaked, answers, broken>>

-----------------------------------------------------------------------------
(* The pollers: serve() and shutdown(). *)

(* An event that is not ok, or the second one of a call: delete this. *)
Delete(p) ==
  /\ pc[p] = "idle"
  /\ \E c \in Calls :
       /\ event[c] = "not_ok" \/ (event[c] = "ok" /\ c \in done)
       /\ event' = [event EXCEPT ![c] = "none"]
       /\ alive' = alive \ {c}
  /\ UNCHANGED <<made, done, op, pc, cur, built, leaked, answers, broken, down>>

Enter(p) ==
  /\ pc[p] = "idle"
  /\ \E c \in Calls \ done :
       /\ event[c] = "ok"
       /\ event' = [event EXCEPT ![c] = "none"]
       /\ cur' = [cur EXCEPT ![p] = c]
  /\ pc' = [pc EXCEPT ![p] = "serve"]
  /\ UNCHANGED <<made, alive, done, op, built, leaked, answers, broken, down>>

(* Seeded faults: no successor; two of them. *)
FaultNoSuccessor == {}
FaultTwoSuccessors == {made + 1, made + 2}
Successors == {made + 1}

(* new AsyncServerCall(...), up to req_call_: from here on gRPC has the    *)
(* tag, and any poller may get it.                                         *)
Register(p) ==
  /\ pc[p] = "serve"
  /\ made' = made + Cardinality(Successors)
  /\ alive' = alive \cup Successors
  /\ op' = [c \in Calls |-> IF c \in Successors THEN "request" ELSE op[c]]
  /\ pc' = [pc EXCEPT ![p] = "construct"]
  /\ built' = [built EXCEPT ![p] = made + 1]
  /\ UNCHANGED <<done, event, cur, leaked, answers, broken, down>>

(* The rest of the constructor, which reads logger_ of the new object.  If *)
(* that is deleted C++ promises nothing: the model goes on as it does when *)
(* the memory still holds what it held, and remembers it in broken.        *)
Created(p) ==
  /\ pc[p] = "construct"
  /\ broken' = (broken \/ built[p] \notin alive)
  /\ built' = [built EXCEPT ![p] = NoCall]
  /\ pc' = [pc EXCEPT ![p] = "work"]
  /\ UNCHANGED <<made, alive, done, op, event, cur, leaked, answers, down>>

(* Seeded faults: done_ is not set; the object deletes itself at once;     *)
(* a request that write_call_ rejects is not answered.                     *)
FaultDoneAfter(c) == done
FaultAliveAfter(c) == alive \ {c}
FaultAnswered(ok) == ok
DoneAfter(c) == done \cup {c}
AliveAfter(c) == alive
Answered(ok) == TRUE

(* done_ is set; then write_call_ is called. *)
Work(p) ==
  /\ pc[p] = "work"
  /\ done' = DoneAfter(cur[p])
  /\ pc' = [pc EXCEPT ![p] = "answer"]
  /\ UNCHANGED <<made, alive, op, event, cur, built, leaked, answers, broken, down>>

(* finish() or, when write_call_ does not return ok, finish_with_error(),  *)
(* the last thing serve() does: the object now belongs to whoever gets its *)
(* tag.                                                                    *)
Answer(p) ==
  /\ pc[p] = "answer"
  /\ alive' = AliveAfter(cur[p])
  /\ \E ok \in BOOLEAN :
       IF Answered(ok)
         THEN /\ answers' = [answers EXCEPT ![cur[p]] = @ + 1]
              /\ op' = [op EXCEPT ![cur[p]] = "finish"]
         ELSE UNCHANGED <<answers, op>>
  /\ pc' = [pc EXCEPT ![p] = "idle"]
  /\ cur' = [cur EXCEPT ![p] = NoCall]
  /\ UNCHANGED <<made, done, event, built, leaked, broken, down>>

(* An exception of write_call_ leaves with nothing asked of gRPC. *)
AnswerThrows(p) ==
  /\ pc[p] = "answer"
  /\ leaked' = leaked \cup {cur[p]}
  /\ pc' = [pc EXCEPT ![p] = "idle"]
  /\ cur' = [cur EXCEPT ![p] = NoCall]
  /\ UNCHANGED <<made, alive, done, op, event, built, answers, broken, down>>

Poll(p) ==
  Delete(p) \/ Enter(p) \/ Register(p) \/ Created(p) \/ Work(p) \/ Answer(p) \/ AnswerThrows(p)

Next ==
  \/ \E c \in Calls : Request(c) \/ CancelRequest(c) \/ Finished(c)
  \/ Shutdown
  \/ \E p \in Pollers : Poll(p)

Spec == Init /\ [][Next]_vars

(* gRPC reports what it was asked for, pollers poll; nobody has to call.   *)
FairSpec ==
  /\ Spec
  /\ \A c \in Calls : WF_vars(CancelRequest(c)) /\ WF_vars(Finished(c))
  /\ \A p \in Pollers : WF_vars(Poll(p))

-----------------------------------------------------------------------------
(* Properties. *)

InServe(c) == \E p \in Pollers : cur[p] = c

(* An object is in one place as long as it lives, and in none afterwards:   *)
(* with gRPC, in the queue, or in serve() with one poller, or an exception *)
(* of write_call_ left it behind.  So it is deleted once, never while a    *)
(* poller is in its serve(), and nothing but an exception leaks it.  (Its  *)
(* constructor may still be running: CreatedIsAlive is about that.)        *)
OnePlace ==
  \A c \in Calls :
    /\ c \in alive <=> op[c] # "none" \/ event[c] # "none" \/ InServe(c) \/ c \in leaked
    /\ c \in leaked => op[c] = "none" /\ event[c] = "none" /\ ~InServe(c)
    /\ InServe(c) => op[c] = "none" /\ event[c] = "none"
    /\ op[c] # "none" => event[c] = "none"
    /\ \A p, q \in Pollers : cur[p] = c /\ cur[q] = c => p = q

(* However many requests are being served, exactly one object stands for   *)
(* the next one: it listens, or its request waits to be replaced.          *)
OneListener ==
  LET Listens(c) ==
        /\ c \in alive \ done
        /\ \/ op[c] = "request"
           \/ event[c] # "none"
           \/ \E p \in Pollers : cur[p] = c /\ pc[p] = "serve"
  IN  /\ \A c, d \in Calls : Listens(c) /\ Listens(d) => c = d
      /\ ~down => \E c \in Calls : Listens(c)

(* A request is answered at most once, and not at all only if write_call_  *)
(* threw: every object that is gone had answered, but for the one that was *)
(* still waiting for a request when the server shut down, the last one.    *)
AnsweredOnce ==
  /\ \A c \in Calls : answers[c] <= 1
  /\ \A c \in (1 .. made) \ alive : answers[c] = 1 \/ (down /\ c = made)
  /\ \A c \in leaked : answers[c] = 0

(* A server that shuts down finishes what it was asked, and ends up with   *)
(* no object but those that an exception left behind; nothing is claimed   *)
(* once a constructor has used a deleted object.                           *)
ShutdownCleansUp == down ~> (alive = leaked \/ broken)

(* What the tests say of the successor, that it logs its creation with its *)
(* own logger_: the object exists as long as its constructor runs.         *)
CreatedIsAlive == \A p \in Pollers : pc[p] = "construct" => built[p] \in alive
=============================================================================
