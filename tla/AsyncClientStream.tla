-------------------------- MODULE AsyncClientStream --------------------------
(***************************************************************************)
(* cppkg/egrpc/client_async_stream.h: one streaming call.  Its handler has *)
(* at most one operation in the completion queue; each event makes some    *)
(* poller call handle(), which ends by asking for the next operation.      *)
(*                                                                         *)
(* The poller that asked may not have returned when another one gets the   *)
(* answer, so handle() is cut where it gives the operation to gRPC.  The   *)
(* callback handler_ is the client's and may throw, out of handle(); then  *)
(* the thread catches that and polls again.                                *)
(* External: the server sends Messages replies and a status; the call may  *)
(* break at any moment, after which no operation succeeds and the status   *)
(* is an error.                                                            *)
(***************************************************************************)
EXTENDS Integers, Sequences, FiniteSets

CONSTANTS
  Pollers,    \* threads that take events from the queue
  Messages    \* bound: what the server sends

ASSUME StreamAssumption == Messages \in Nat

VARIABLES
  call_status,  \* "STARTUP", "PROCESS", "FINISH", or "deleted"
  op,           \* the operation in progress: "none", "start", "read", "finish"
  event,        \* its result in the queue: "none", "ok", "not_ok"
  pc,           \* of a poller: "idle", "handle", "read", "finish"
  got,          \* event_status of a poller
  reply,        \* reply_: the number of the message in it, 0 before the first
  handled,      \* history: the messages handler_ was called with
  sent,         \* messages that gRPC has delivered so far
  broken,       \* the call has failed
  status_ok,    \* status_ after Finish
  promise,      \* "unset", "ok", "err"
  leaked        \* history: an exception of handler_ left the handler with nobody

stream == <<sent, broken>>
vars == <<call_status, op, event, pc, got, reply, handled, stream, status_ok, promise, leaked>>

TypeOK ==
  /\ call_status \in {"STARTUP", "PROCESS", "FINISH", "deleted"}
  /\ op \in {"none", "start", "read", "finish"}
  /\ event \in {"none", "ok", "not_ok"}
  /\ pc \in [Pollers -> {"idle", "handle", "read", "finish"}]
  /\ got \in [Pollers -> BOOLEAN]
  /\ reply \in 0 .. Messages
  /\ handled \in Seq(0 .. Messages)
  /\ sent \in 0 .. Messages
  /\ {broken, status_ok, leaked} \subseteq BOOLEAN
  /\ promise \in {"unset", "ok", "err"}

(* The client has started the call with the handler as the tag. *)
Init ==
  /\ call_status = "STARTUP"
  /\ op = "start"
  /\ event = "none"
  /\ pc = [p \in Pollers |-> "idle"]
  /\ got = [p \in Pollers |-> FALSE]
  /\ reply = 0
  /\ handled = <<>>
  /\ sent = 0
  /\ broken = FALSE
  /\ status_ok = TRUE
  /\ promise = "unset"
  /\ leaked = FALSE

-----------------------------------------------------------------------------
(* gRPC (external). *)

Break ==
  /\ ~broken /\ call_status # "deleted"
  /\ broken' = TRUE
  /\ UNCHANGED <<call_status, op, event, pc, got, reply, handled, sent, status_ok, promise, leaked>>

Answer ==
  /\ event = "none"
  /\ \/ /\ op = "start"
        /\ event' = IF broken THEN "not_ok" ELSE "ok"
        /\ UNCHANGED <<reply, sent, status_ok>>
     \/ /\ op = "read" /\ ~broken /\ sent < Messages
        /\ sent' = sent + 1 /\ reply' = sent + 1
        /\ event' = "ok"
        /\ UNCHANGED status_ok
     \/ /\ op = "read" /\ (broken \/ sent = Messages)
        /\ event' = "not_ok"
        /\ UNCHANGED <<reply, sent, status_ok>>
     \/ /\ op = "finish"
        /\ status_ok' = ~broken
        /\ event' = "ok"
        /\ UNCHANGED <<reply, sent>>
  /\ op' = "none"
  /\ UNCHANGED <<call_status, pc, got, handled, broken, promise, leaked>>

next(p) ==
  /\ pc[p] = "idle" /\ event # "none"
  /\ pc' = [pc EXCEPT ![p] = "handle"]
  /\ got' = [got EXCEPT ![p] = event = "ok"]
  /\ event' = "none"
  /\ UNCHANGED <<call_status, op, reply, handled, stream, status_ok, promise, leaked>>

-----------------------------------------------------------------------------
(* handle() *)

At(p, from, to) == pc[p] = from /\ pc' = [pc EXCEPT ![p] = to]

(* Seeded fault: a status without a case. *)
FaultAfterStartUnknown(ok) == IF ok THEN "PROCESS" ELSE "CLOSED"
AfterStart(ok) == IF ok THEN "PROCESS" ELSE "FINISH"

Startup(p) ==
  /\ call_status = "STARTUP"
  /\ At(p, "handle", IF got[p] THEN "read" ELSE "finish")
  /\ call_status' = AfterStart(got[p])
  /\ UNCHANGED <<op, event, got, reply, handled, stream, status_ok, promise, leaked>>

(* Seeded fault: Read is asked for before the callback. *)
FaultOpInCallback == "read"
OpInCallback == op
Handled == Append(handled, reply)

(* handler_(reply_) *)
Callback(p) ==
  /\ call_status = "PROCESS" /\ got[p]
  /\ At(p, "handle", "read")
  /\ handled' = Handled
  /\ op' = OpInCallback
  /\ UNCHANGED <<call_status, event, got, reply, stream, status_ok, promise, leaked>>

(* handler_ throws: handle() is left before Read and before delete, so     *)
(* nothing leads to the handler any more and the promise stays as it is.   *)
CallbackThrows(p) ==
  /\ call_status = "PROCESS" /\ got[p]
  /\ At(p, "handle", "idle")
  /\ handled' = Handled
  /\ leaked' = TRUE
  /\ UNCHANGED <<call_status, op, event, got, reply, stream, status_ok, promise>>

(* Seeded fault: the end of the stream does not ask for Finish. *)
FaultEndOfStreamIdle(p) ==
  /\ call_status' = "FINISH" /\ UNCHANGED promise /\ At(p, "handle", "idle")
EndOfStream(p) ==
  /\ call_status' = "FINISH" /\ UNCHANGED promise /\ At(p, "handle", "finish")

NoMore(p) ==
  /\ call_status = "PROCESS" /\ pc[p] = "handle" /\ ~got[p]
  /\ EndOfStream(p)
  /\ UNCHANGED <<op, event, got, reply, handled, stream, status_ok, leaked>>

(* reader_->Read or reader_->Finish, the last thing handle() does. *)
Ask(p) ==
  /\ \E o \in {"read", "finish"} : At(p, o, "idle") /\ op' = o
  /\ UNCHANGED <<call_status, event, got, reply, handled, stream, status_ok, promise, leaked>>

(* Seeded fault: the status is not looked at. *)
FaultResult == "ok"
Result == IF status_ok THEN "ok" ELSE "err"

(* delete this, which sets the promise. *)
Finish(p) ==
  /\ call_status = "FINISH"
  /\ At(p, "handle", "idle")
  /\ call_status' = "deleted"
  /\ promise' = Result
  /\ UNCHANGED <<op, event, got, reply, handled, stream, status_ok, leaked>>

Poll(p) ==
  next(p) \/ Startup(p) \/ Callback(p) \/ CallbackThrows(p) \/ NoMore(p) \/ Ask(p) \/ Finish(p)

Next == Break \/ Answer \/ \E p \in Pollers : Poll(p)

Spec == Init /\ [][Next]_vars

(* The call has a deadline, so every operation is answered; pollers poll. *)
FairSpec == Spec /\ WF_vars(Answer) /\ \A p \in Pollers : WF_vars(Poll(p))

-----------------------------------------------------------------------------
(* Properties. *)

Busy == {p \in Pollers : pc[p] # "idle"}

(* Until it is deleted, exactly one thing is in charge of the handler: an  *)
(* operation, its event, or the one poller inside handle(); afterwards     *)
(* nothing can touch it any more.  An exception of handler_, and only      *)
(* that, leaves it undeleted with nobody in charge.                        *)
OneInCharge ==
  Cardinality(Busy) + (IF op = "none" THEN 0 ELSE 1) + (IF event = "none" THEN 0 ELSE 1)
    = IF call_status = "deleted" \/ leaked THEN 0 ELSE 1

(* handler_ gets the messages in order, each of them once, and misses at   *)
(* most the one that is on its way to it.  A promise without an error      *)
(* means that it got them all.                                             *)
HandledInOrder ==
  /\ \A k \in DOMAIN handled : handled[k] = k
  /\ Len(handled) \in {sent, sent - 1}
  /\ Len(handled) = sent - 1 => event = "ok" \/ \E p \in Pollers : pc[p] = "handle" /\ got[p]
  /\ promise = "ok" => Len(handled) = Messages

(* The promise is set in the end, whether or not the call breaks, unless   *)
(* handler_ threw; then the promise stays unset and the handler is leaked. *)
StreamEnds == <>(promise # "unset" \/ leaked)
=============================================================================
