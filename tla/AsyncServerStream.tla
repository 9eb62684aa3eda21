-------------------------- MODULE AsyncServerStream --------------------------
(***************************************************************************)
(* cppkg/egrpc/server_async_stream.h: one call object of a streaming       *)
(* server, from its registration to its deletion, and the pollers of the   *)
(* completion queue (external, as in AsyncServer: serve() for an event     *)
(* that is ok, shutdown() for one that is not).  The successor it          *)
(* registers is AsyncServer's subject and here only counted.  The poller   *)
(* that made this object, as the successor of another one, may still be in *)
(* the last statement of its constructor when the request comes.           *)
(*                                                                         *)
(* init_call_ fills the range to stream and may fail; write_call_ turns an *)
(* element into a message or skips it; both may throw, out of serve(); the *)
(* client may be gone at any time.                                         *)
(***************************************************************************)
EXTENDS Naturals, Sequences, SequencesExt

CONSTANTS
  Pollers,   \* threads that drain the completion queue
  MaxRange   \* bound: elements that init_call_ produces

ASSUME RangeAssumption == MaxRange \in Nat

VARIABLES
  alive,     \* the object was not deleted
  status,    \* status_
  range,     \* ranges_: of each element, whether write_call_ writes it
  it,        \* it_ as the number of elements passed, Len(range) is end()
  tags,      \* operations on the object: "out" (with gRPC), "ok", "not_ok"
  building,  \* the poller inside the constructor, after req_call_
  serving,   \* the pollers inside serve()
  born,      \* history: successors registered
  written,   \* history: elements handed to writer_->write
  closed,    \* history: the status given to writer_->finish, or "none"
  leaked,    \* history: an exception left the object with nobody
  broken     \* history: a deleted object was used

vars == <<alive, status, range, it, tags, building, serving, born, written, closed, leaked, broken>>

Operations == {"request", "write", "finish"}

TypeOK ==
  /\ {alive, leaked, broken} \subseteq BOOLEAN
  /\ status \in {"STARTUP", "PROCESS", "FINISH"}
  /\ range \in SeqOf(BOOLEAN, MaxRange)
  /\ it \in 0 .. Len(range)
  /\ tags \in [Operations -> {"none", "out", "ok", "not_ok"}]
  /\ building \subseteq Pollers /\ serving \subseteq Pollers
  /\ born \in 0 .. 1
  /\ written \in Seq(1 .. MaxRange)
  /\ closed \in {"none", "OK", "error", "CANCELLED"}

(* req_call_ was called by one of the pollers, or by a thread that made    *)
(* the first object before there were any.                                 *)
Init ==
  /\ alive = TRUE
  /\ status = "STARTUP"
  /\ range = << >>
  /\ it = 0
  /\ tags = [o \in Operations |-> IF o = "request" THEN "out" ELSE "none"]
  /\ building \in {{}} \cup {{p} : p \in Pollers}
  /\ serving = {}
  /\ born = 0
  /\ written = << >>
  /\ closed = "none"
  /\ leaked = FALSE
  /\ broken = FALSE

-----------------------------------------------------------------------------
(* gRPC (external): a tag comes back ok, or not ok when the client or the  *)
(* server is gone.                                                         *)
Complete(o) ==
  /\ tags[o] = "out"
  /\ \E result \in {"ok", "not_ok"} : tags' = [tags EXCEPT ![o] = result]
  /\ UNCHANGED <<building, alive, status, range, it, serving, born, written, closed, leaked, broken>>

-----------------------------------------------------------------------------
(* The pollers. *)

Free(p) == p \notin building \cup serving

(* The rest of the constructor reads logger_. *)
Created(p) ==
  /\ p \in building
  /\ building' = building \ {p}
  /\ broken' = (broken \/ ~alive)
  /\ UNCHANGED <<alive, status, range, it, tags, serving, born, written, closed, leaked>>

Issue(o) == tags' = [tags EXCEPT ![o] = "out"]

(* Closing the stream: status_ = FINISH, then writer_->finish(st, this).   *)
(* Seeded faults: status_ is left as it was; the object is deleted there.  *)
FaultStatusClosed == status
FaultAliveClosed == FALSE
StatusClosed == "FINISH"
AliveClosed == alive

Close(st) ==
  /\ alive' = AliveClosed
  /\ status' = StatusClosed
  /\ closed' = st
  /\ Issue("finish")

(* STARTUP: the successor, then init_call_. *)
Startup(p) ==
  /\ alive /\ Free(p) /\ status = "STARTUP" /\ tags["request"] = "ok"
  /\ tags' = [tags EXCEPT !["request"] = "none"]
  /\ serving' = serving \cup {p}
  /\ born' = born + 1
  /\ UNCHANGED <<building, alive, status, range, it, written, closed, leaked, broken>>

InitFails(p) ==
  /\ p \in serving /\ status = "STARTUP"
  /\ Close("error")
  /\ serving' = serving \ {p}
  /\ UNCHANGED <<building, range, it, born, written, leaked, broken>>

InitWorks(p) ==
  /\ p \in serving /\ status = "STARTUP"
  /\ range' \in SeqOf(BOOLEAN, MaxRange)
  /\ it' = 0
  /\ status' = "PROCESS"
  /\ UNCHANGED <<building, alive, tags, serving, born, written, closed, leaked, broken>>

(* PROCESS, entered for a message that went out. *)
Resume(p) ==
  /\ alive /\ Free(p) /\ status = "PROCESS" /\ tags["write"] = "ok"
  /\ tags' = [tags EXCEPT !["write"] = "none"]
  /\ serving' = serving \cup {p}
  /\ UNCHANGED <<building, alive, status, range, it, born, written, closed, leaked, broken>>

(* The elements from it_ on that write_call_ writes.  Seeded fault: one    *)
(* that is skipped ends the stream (an if where the code has a while).     *)
FaultToWrite == {i \in it + 1 .. Len(range) : i = it + 1 /\ range[i]}
ToWrite == {i \in it + 1 .. Len(range) : range[i]}

(* Seeded fault: it_ is moved twice. *)
FaultNextItTwice(i) == i + 1
NextIt(i) == i

Write(p) ==
  /\ p \in serving /\ status = "PROCESS" /\ ToWrite # {}
  /\ \E i \in ToWrite :
       /\ \A j \in ToWrite : i <= j
       /\ it' = NextIt(i)
       /\ written' = Append(written, i)
  /\ Issue("write")
  /\ serving' = serving \ {p}
  /\ UNCHANGED <<building, alive, status, range, born, closed, leaked, broken>>

EndOfRange(p) ==
  /\ p \in serving /\ status = "PROCESS" /\ ToWrite = {}
  /\ it' = Len(range)
  /\ Close("OK")
  /\ serving' = serving \ {p}
  /\ UNCHANGED <<building, range, born, written, leaked, broken>>

(* An exception of init_call_, or of write_call_ after the elements it     *)
(* skipped: no operation is with gRPC and nobody has the object's tag.     *)
CallbackThrows(p) ==
  /\ p \in serving
  /\ \/ status = "STARTUP" /\ UNCHANGED it
     \/ /\ status = "PROCESS"
        /\ \E i \in it .. Len(range) - 1 :
             /\ \A j \in it + 1 .. i : ~range[j]
             /\ it' = i
  /\ serving' = serving \ {p}
  /\ leaked' = TRUE
  /\ UNCHANGED <<building, alive, status, range, tags, born, written, closed, broken>>

(* FINISH: shutdown() deletes the object. *)
Completed(p) ==
  /\ alive /\ Free(p) /\ status = "FINISH" /\ tags["finish"] = "ok"
  /\ tags' = [tags EXCEPT !["finish"] = "none"]
  /\ alive' = FALSE
  /\ UNCHANGED <<building, status, range, it, serving, born, written, closed, leaked, broken>>

(* shutdown() for an event that is not ok: while streaming it first issues *)
(* writer_->finish(CANCELLED, this).  Seeded fault: it only issues that.   *)
FaultDeleted == status = "STARTUP"
Deleted == TRUE

ShutDown(p) ==
  /\ alive /\ Free(p)
  /\ \E o \in Operations :
       /\ tags[o] = "not_ok"
       /\ tags' = [tags EXCEPT ![o] = "none",
                               !["finish"] = IF status = "PROCESS" THEN "out" ELSE "none"]
  /\ closed' = IF status = "PROCESS" THEN "CANCELLED" ELSE closed
  /\ alive' = ~Deleted
  /\ UNCHANGED <<building, status, range, it, serving, born, written, leaked, broken>>

(* A tag of a deleted object: its first use is undefined, and nothing is   *)
(* said of what comes after it.                                            *)
UseDeleted(p) ==
  /\ ~alive /\ ~broken /\ Free(p)
  /\ \E o \in Operations : tags[o] \in {"ok", "not_ok"}
  /\ broken' = TRUE
  /\ UNCHANGED <<building, alive, status, range, it, tags, serving, born, written, closed, leaked>>

Serve(p) ==
  \/ Created(p) \/ Startup(p) \/ InitFails(p) \/ InitWorks(p) \/ Resume(p) \/ Write(p)
  \/ EndOfRange(p) \/ CallbackThrows(p) \/ Completed(p) \/ ShutDown(p) \/ UseDeleted(p)

Next ==
  \/ \E o \in Operations : Complete(o)
  \/ \E p \in Pollers : Serve(p)

Spec == Init /\ [][Next]_vars

(* gRPC completes what was asked of it, but nobody has to call; the        *)
(* pollers keep polling.                                                   *)
FairSpec ==
  /\ Spec
  /\ WF_vars(Complete("write")) /\ WF_vars(Complete("finish"))
  /\ \A p \in Pollers : WF_vars(Serve(p))

-----------------------------------------------------------------------------
(* Properties. *)

(* Whatever the pollers do, the object is in one place: one of them is in  *)
(* serve(), or one operation has its tag, or an exception left it with     *)
(* nobody.  So status_ and it_ need no lock, and unless the client left in *)
(* mid-stream no operation outlives the object.  (The poller that made it  *)
(* may: AsyncServer!CreatedIsAlive is about that.)                         *)
OneInCharge ==
  /\ \A o, q \in Operations : tags[o] # "none" /\ tags[q] # "none" => o = q
  /\ \A p, q \in serving : p = q
  /\ serving # {} => alive /\ \A o \in Operations : tags[o] = "none"
  /\ alive => leaked \/ serving # {} \/ \E o \in Operations : tags[o] # "none"
  /\ leaked => alive /\ serving = {} /\ \A o \in Operations : tags[o] = "none"
  /\ ~alive /\ closed # "CANCELLED" => \A o \in Operations : tags[o] = "none"

(* The client is sent the elements that were to be written, each once and  *)
(* in the order of the range, and is told OK only after the last of them.  *)
WrittenInOrder ==
  /\ \A k, l \in DOMAIN written : k < l => written[k] < written[l]
  /\ ToSet(written) = {i \in 1 .. it : range[i]}
  /\ closed = "OK" => ToSet(written) = {i \in DOMAIN range : range[i]}

(* writer_->finish is called at most once, and after it nothing is written. *)
FinishedOnce ==
  [][closed # "none" => closed' = closed /\ written' = written]_vars

(* A stream that was started comes to an end: its object is deleted, and   *)
(* nothing but an exception keeps it from that.                            *)
StreamEnds == (serving # {}) ~> (~alive \/ leaked)

(* What the tests take for granted when they cast a tag of the queue to a  *)
(* call object and call it: that the object exists.                        *)
TagsAreLive == ~alive => \A o \in Operations : tags[o] = "none"
=============================================================================
