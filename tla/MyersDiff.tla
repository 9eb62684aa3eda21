------------------------------ MODULE MyersDiff ------------------------------
(***************************************************************************)
(* cppkg/diff/myers_diff.h: the Myers algorithm.  After edit number d, a   *)
(* row of costs holds for each diagonal k = x - y the furthest x that can  *)
(* be reached with d edits; the rows of all d are the trace, and walking   *)
(* it backwards gives the edits.  Indices are IndexT, an integer of        *)
(* IndexBits bits (16 in the code); both arrays are shorter than 2^(IndexBits - 1). *)
(***************************************************************************)
EXTENDS Integers, SequencesExt

CONSTANT IndexBits

(* The last two follow from the first; the provers know no powers. *)
ASSUME IndexAssumption ==
  /\ IndexBits \in Nat /\ IndexBits > 1
  /\ 2^(IndexBits - 1) \in Nat \ {0}
  /\ 2^IndexBits = 2 * 2^(IndexBits - 1)

(* What an assignment to an IndexT keeps of a number. *)
IndexT(i) == ((i + 2^(IndexBits - 1)) % 2^IndexBits) - 2^(IndexBits - 1)

MaxEdit(orig, updated) == IndexT(Len(orig) + Len(updated))

(* The length of a row, a size_t: when max_edit is negative it is larger   *)
(* than any vector, whose constructor then throws.                         *)
RowLength(orig, updated) == 2 * MaxEdit(orig, updated) + 1
Throws(orig, updated) == MaxEdit(orig, updated) < 0

Slot(row, k) == ((Len(row) + k) % Len(row)) + 1

(* Seeded fault: on a tie the algorithm goes down. *)
FaultGoesDown(row, d, k) ==
  k = -d \/ (k # d /\ row[Slot(row, k - 1)] <= row[Slot(row, k + 1)])

(* Whether the d-th edit that ends on diagonal k is an insertion. *)
GoesDown(row, d, k) ==
  k = -d \/ (k # d /\ row[Slot(row, k - 1)] < row[Slot(row, k + 1)])

(* The x at which the edit ends. *)
Reached(row, d, k) ==
  IF GoesDown(row, d, k) THEN row[Slot(row, k + 1)] ELSE IndexT(row[Slot(row, k - 1)] + 1)

(* The end of the run of equal elements that starts at x on diagonal k. *)
RunEnd(orig, updated, x, k) ==
  LET Equal(i) == /\ x + i <= Len(orig) /\ x - k + i <= Len(updated)
                  /\ orig[x + i] = updated[x - k + i]
  IN  x + CHOOSE r \in 0 .. Len(orig) : ~Equal(r + 1) /\ \A i \in 1 .. r : Equal(i)

(* Diagonal k: its new cost, and whether the end is still to be reached. *)
Advance(orig, updated, d, k, sofar) ==
  LET Marked(x) == [costs |-> [sofar.costs EXCEPT ![Slot(sofar.costs, k)] = x],
                    cont |-> x < Len(orig) \/ x - k < Len(updated)]
  IN  IF sofar.cont THEN Marked(RunEnd(orig, updated, Reached(sofar.costs, d, k), k)) ELSE sofar

(* The loop over the diagonals -d, -d + 2 .. d, until one of them reaches the end. *)
Sweep(orig, updated, d, costs) ==
  LET upto[j \in 0 .. d + 1] ==
        IF j = 0 THEN [costs |-> costs, cont |-> TRUE]
                 ELSE Advance(orig, updated, d, 2 * (j - 1) - d, upto[j - 1])
  IN  upto[d + 1]

(* One round of the outer loop; the row from which its edits start is kept. *)
Round(orig, updated, d, sofar) ==
  LET Traced(sweep) == [costs |-> sweep.costs, cont |-> sweep.cont,
                        trace |-> Append(sofar.trace, sofar.costs)]
  IN  IF sofar.cont THEN Traced(Sweep(orig, updated, d, sofar.costs)) ELSE sofar

Search(orig, updated, rounds) ==
  LET after[d \in 0 .. rounds] ==
        IF d = 0 THEN [costs |-> [i \in 1 .. RowLength(orig, updated) |-> 0],
                       cont |-> TRUE, trace |-> <<>>]
                 ELSE Round(orig, updated, d - 1, after[d - 1])
  IN  after[rounds]

myers_diff_min_edit(orig, updated) ==
  LET Rounds(search) == IF search.cont THEN MaxEdit(orig, updated) ELSE Len(search.trace) - 1
  IN  Rounds(Search(orig, updated, MaxEdit(orig, updated)))

myers_diff_trace(orig, updated) ==
  Search(orig, updated, MaxEdit(orig, updated) + 1).trace

(* Here the length of a row is an IndexT.  When it does not fit it is      *)
(* negative, the size of the trace divided by it is 0, and no row is read. *)
RowsRead(orig, updated, trace) ==
  IF IndexT(RowLength(orig, updated)) < 0 THEN 0 ELSE Len(trace)

(* The elements of the run that ends at the point, then the edit before it. *)
WalkBack(at, d, prev_x, prev_y) ==
  [x |-> prev_x, y |-> prev_y,
   points |-> at.points
      \o [i \in 1 .. Min({at.x - prev_x, at.y - prev_y}) |-> <<at.x - i, at.y - i>>]
      \o (IF d > 0 THEN <<<<prev_x, prev_y>>>> ELSE <<>>)]

Back(row, d, at) ==
  LET prev_k == IF GoesDown(row, d, at.x - at.y) THEN at.x - at.y + 1 ELSE at.x - at.y - 1
      Arrive(prev_x, k) == WalkBack(at, d, prev_x, prev_x - k)
  IN  Arrive(row[Slot(row, prev_k)], prev_k)

(* From (n, m) backwards through the rows. *)
Points(orig, updated, trace, rows) ==
  LET back[j \in 0 .. rows] ==
        IF j = 0 THEN [x |-> Len(orig), y |-> Len(updated), points |-> <<>>]
                 ELSE Back(trace[rows - j + 1], rows - j, back[j - 1])
  IN  back[rows].points

myers_diff_backtrace(orig, updated) ==
  LET Of(trace) == Points(orig, updated, trace, RowsRead(orig, updated, trace))
  IN  Of(myers_diff_trace(orig, updated))

Edit(val, orig, updated, action) ==
  [val |-> val, orig |-> orig, updated |-> updated, action |-> action]

(* The step between two consecutive points; positions count from 0. *)
EditBetween(orig, updated, prev, next) ==
  CASE next[1] = prev[1] -> Edit(updated[next[2] + 1], -1, next[2], "ADD")
    [] next[1] # prev[1] /\ next[2] = prev[2] -> Edit(orig[next[1] + 1], next[1], -1, "DEL")
    [] OTHER -> Edit(orig[next[1] + 1], next[1], next[2], "EQ")

(* The points give the edits, the last one first. *)
Edits(orig, updated, points) ==
  Reverse([i \in 1 .. Len(points) - 1 |->
             EditBetween(orig, updated, points[i], points[i + 1])])

myers_diff(orig, updated) ==
  Edits(orig, updated,
        <<<<Len(orig), Len(updated)>>>> \o myers_diff_backtrace(orig, updated))

-----------------------------------------------------------------------------
(* Reference definitions. *)

Common(a, b) ==
  LET lcs[p \in (0 .. Len(a)) \X (0 .. Len(b))] ==
        IF p[1] = 0 \/ p[2] = 0 THEN 0
        ELSE IF a[p[1]] = b[p[2]] THEN lcs[<<p[1] - 1, p[2] - 1>>] + 1
        ELSE Max({lcs[<<p[1] - 1, p[2]>>], lcs[<<p[1], p[2] - 1>>]})
  IN  lcs[<<Len(a), Len(b)>>]

EditDistance(a, b) == Len(a) + Len(b) - 2 * Common(a, b)

(* The values of the edits with one of the actions. *)
Kept(edits, actions) ==
  LET kept[i \in 0 .. Len(edits)] ==
        IF i = 0 THEN <<>>
        ELSE IF edits[i].action \in actions THEN Append(kept[i - 1], edits[i].val)
        ELSE kept[i - 1]
  IN  kept[Len(edits)]

(* The edits make updated out of orig. *)
Turns(edits, orig, updated) ==
  Kept(edits, {"EQ", "DEL"}) = orig /\ Kept(edits, {"EQ", "ADD"}) = updated

Changes(edits) == Len(Kept(edits, {"ADD", "DEL"}))
=============================================================================
