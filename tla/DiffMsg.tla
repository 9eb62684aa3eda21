------------------------------- MODULE DiffMsg -------------------------------
(***************************************************************************)
(* cppkg/diff/msg.cc: the message about the differences of two texts.      *)
(* safe_diff_msg cuts the texts into batches of at most batch_limit lines, *)
(* keeps what a batch finds up to its last common line, and goes on with   *)
(* the lines after that.  A step is one call of safe_diff_msg_helper, or   *)
(* to_string at the end.  diff_msg is safe_diff_msg with a limit that both *)
(* texts respect.                                                          *)
(***************************************************************************)
EXTENDS MyersDiff

CONSTANTS
  Lines,       \* bound: the different lines of the texts
  MaxLines,    \* bound: the length of a text given to safe_diff_msg
  MaxRaw,      \* bound: the length of a text given to diff_lines
  Limits,      \* batch limits a caller may choose
  lines_before, lines_after  \* equal lines shown around a change, 3 in msg.h

(* With a limit of 0 a batch is empty and the recursion does not end. *)
ASSUME DiffAssumption ==
  /\ MaxLines \in Nat /\ MaxRaw \in Nat
  /\ Limits \subseteq Nat \ {0}
  /\ lines_before \in Nat /\ lines_after \in Nat

VARIABLES
  expect, got,   \* the two texts
  batch_limit,
  efrom, gfrom,  \* lines of them that earlier calls are through with
  diffs,
  calls,         \* history: calls that had to cut
  phase,         \* "diff", "show", "done", or "threw", "undefined"
  message

diffVars == <<expect, got, batch_limit, efrom, gfrom, diffs, calls, phase, message>>

-----------------------------------------------------------------------------
(* diff_lines: getline, and cisab's trim (external). *)

RawLines == {"x", " x", " ", ""}

trim(line) == CASE line = " x" -> "x" [] line = " " -> "" [] OTHER -> line

process_lines(raw, ignore_empty_lines, trim_spaces) ==
  LET line(i) == IF trim_spaces THEN trim(raw[i]) ELSE raw[i]
      lines[i \in 0 .. Len(raw)] ==
        IF i = 0 THEN <<>>
        ELSE IF ~ignore_empty_lines \/ line(i) # "" THEN Append(lines[i - 1], line(i))
        ELSE lines[i - 1]
  IN  lines[Len(raw)]

(* std::numeric_limits<IndexT>::max(), the default limit. *)
MaxIndex == 2^(IndexBits - 1) - 1

DiffBegins ==
  /\ efrom = 0 /\ gfrom = 0
  /\ diffs = <<>>
  /\ calls = 0
  /\ phase = "diff"
  /\ message = <<>>

DiffInit ==
  /\ DiffBegins
  /\ \/ /\ expect \in BoundedSeq(Lines, MaxLines)
        /\ got \in BoundedSeq(Lines, MaxLines)
        /\ batch_limit \in Limits
     \/ /\ \E ex, go \in BoundedSeq(RawLines, MaxRaw), ignore, trims \in BOOLEAN :
             /\ expect = process_lines(ex, ignore, trims)
             /\ got = process_lines(go, ignore, trims)
        /\ batch_limit = MaxIndex

-----------------------------------------------------------------------------
(* safe_diff_msg_helper *)

From(text, n) == SubSeq(text, n + 1, Len(text))

Batch(text, n) == SubSeq(text, n + 1, Min({n + batch_limit, Len(text)}))

Fits == Len(expect) - efrom <= batch_limit /\ Len(got) - gfrom <= batch_limit

(* What a loop up to an IndexT takes of the edits. *)
Pushed(edits, upto) == SubSeq(edits, 1, IndexT(upto))

(* A batch the costs of which no vector can hold: the exception passes the caller. *)
Thrown == phase' = "threw" /\ UNCHANGED <<efrom, gfrom, diffs, calls>>

(* Both texts are short enough: the recursion ends. *)
Rest ==
  /\ phase = "diff" /\ Fits
  /\ LET orig == From(expect, efrom)
         updated == From(got, gfrom)
     IN  IF Throws(orig, updated) THEN Thrown
         ELSE /\ \E edits \in {myers_diff(orig, updated)} :
                   diffs' = diffs \o Pushed(edits, Len(edits))
              /\ efrom' = Len(expect)
              /\ gfrom' = Len(got)
              /\ phase' = "show"
              /\ UNCHANGED calls
  /\ UNCHANGED <<expect, got, batch_limit, message>>

(* Seeded fault: everything a batch finds is kept, but the next one starts *)
(* after its last common line all the same.                                *)
FaultBatchEnd(edits, last) == Len(edits)
BatchEnd(edits, last) == IF last = 0 THEN Len(edits) ELSE last

(* A batch: what follows its last common line is looked at again. *)
Keep(orig, updated, edits) ==
  LET last == SelectLastInSeq(Pushed(edits, Len(edits)), LAMBDA e : e.action = "EQ")
  IN  /\ diffs' = diffs \o Pushed(edits, BatchEnd(edits, last))
      /\ efrom' = efrom + IndexT(IF last = 0 THEN Len(orig) ELSE edits[last].orig + 1)
      /\ gfrom' = gfrom + IndexT(IF last = 0 THEN Len(updated) ELSE edits[last].updated + 1)
      /\ calls' = calls + 1
      /\ UNCHANGED phase

Cut ==
  /\ phase = "diff" /\ ~Fits
  /\ LET orig == Batch(expect, efrom)
         updated == Batch(got, gfrom)
     IN  IF Throws(orig, updated) THEN Thrown
         ELSE \E edits \in {myers_diff(orig, updated)} : Keep(orig, updated, edits)
  /\ UNCHANGED <<expect, got, batch_limit, message>>

-----------------------------------------------------------------------------
(* to_string *)

(* Seeded fault: an added line counts as one of the original. *)
FaultCounted == [orig |-> {"EQ", "ADD"}, updated |-> {"EQ", "DEL"}]
Counted == [orig |-> {"EQ", "DEL"}, updated |-> {"EQ", "ADD"}]

Shown(n) ==
  {i \in 1 .. n : \E c \in 1 .. n : /\ diffs[c].action # "EQ"
                                    /\ c - lines_before <= i /\ i <= c + lines_after}

LineFormat(i) ==
  LET before == SubSeq(diffs, 1, i - 1)
  IN  [val |-> diffs[i].val, action |-> diffs[i].action,
       orig |-> Len(Kept(before, Counted.orig)),
       updated |-> Len(Kept(before, Counted.updated))]

Written(ndiffs) ==
  LET out[i \in 0 .. ndiffs] ==
        IF i = 0 THEN <<>>
        ELSE IF i \in Shown(ndiffs) THEN Append(out[i - 1], LineFormat(i))
        ELSE out[i - 1]
  IN  out[ndiffs]

(* An array of a negative number of marks is undefined. *)
Show ==
  /\ phase = "show"
  /\ LET ndiffs == IndexT(Len(diffs))
     IN  IF ndiffs < 0 THEN phase' = "undefined" /\ UNCHANGED message
         ELSE phase' = "done" /\ message' = Written(ndiffs)
  /\ UNCHANGED <<expect, got, batch_limit, efrom, gfrom, diffs, calls>>

DiffNext == Rest \/ Cut \/ Show

DiffSpec == DiffInit /\ [][DiffNext]_diffVars

-----------------------------------------------------------------------------
(* Properties. *)

(* The script of two texts turns one into the other, and no shorter one    *)
(* does: its length is their edit distance, and what myers_diff_min_edit   *)
(* finds without the trace.                                                *)
ScriptIsShortest ==
  phase = "diff" /\ calls = 0 =>
    \A edits \in {myers_diff(expect, got)} :
      /\ Turns(edits, expect, got)
      /\ Changes(edits) = EditDistance(expect, got)
      /\ Changes(edits) = myers_diff_min_edit(expect, got)

(* Between two batches, what was found so far turns the lines behind into  *)
(* each other: no line is lost or found twice where batches meet.  Each    *)
(* batch gets past a line at least, so the recursion ends.                 *)
BatchesMeet ==
  phase # "threw" =>
    /\ Turns(diffs, SubSeq(expect, 1, efrom), SubSeq(got, 1, gfrom))
    /\ calls <= efrom + gfrom
    /\ phase \in {"show", "done"} => efrom = Len(expect) /\ gfrom = Len(got)

(* The message says that the texts differ if and only if they do; it shows *)
(* every change, with line numbers at which the texts have that line.      *)
MessageIsRight ==
  phase = "done" =>
    /\ message = <<>> <=> expect = got
    /\ Changes(message) = Changes(diffs)
    /\ \A i \in DOMAIN message :
         LET line == message[i]
         IN  /\ line.action # "ADD" => expect[line.orig + 1] = line.val
             /\ line.action # "DEL" => got[line.updated + 1] = line.val

(* What diff_lines and safe_diff_msg do for their caller, at every batch   *)
(* and in the message: BatchesMeet and MessageIsRight.                     *)
DiffIsRight == BatchesMeet /\ MessageIsRight

(* Comment at myers_diff.h:214, "Return minimum-cost list of differences   *)
(* between orig and updated arrays", for arrays "roughly limited to 2^32"  *)
(* by the product of their sizes (msg.h:34).                               *)
DifferencesReturned ==
  phase = "show" /\ calls = 0 => Turns(diffs, expect, got)
=============================================================================
