----------------------------- MODULE DiffProofs -----------------------------
(***************************************************************************)
(* Theorems about MyersDiff and DiffMsg.  The costs of the algorithm are   *)
(* compared with the distances of all pairs of prefixes, the way back is a *)
(* walk over these pairs, and the walk is the script; the scripts of the   *)
(* batches join to one of the texts, and the message shows it.             *)
(***************************************************************************)
EXTENDS DiffMsg, SequenceTheorems, FiniteSetTheorems, WellFoundedInduction, TLAPS

(* A set of numbers with 0 and, up to n, the successor of each member has  *)
(* all numbers up to n.                                                    *)
LEMMA UpTo ==
  ASSUME NEW n \in Nat, NEW S, 0 \in S, \A i \in 0 .. n - 1 : i \in S => i + 1 \in S
  PROVE  0 .. n \subseteq S
<1> DEFINE T == (0 .. n) \ S
           R == OpToRel(<, Nat)
<1> SUFFICES ASSUME T # {} PROVE FALSE
  OBVIOUS
<1>1. \A x, y \in Nat : y < x => <<y, x>> \in R
  BY DEF OpToRel
<1> HIDE DEF R
<1>2. T \subseteq Nat
  OBVIOUS
<1>3. \E x \in T : \A y \in T : ~(<<y, x>> \in R)
  <2> HIDE DEF T
  <2>1. IsWellFoundedOn(R, Nat)
    BY NatLessThanWellFounded DEF R
  <2> QED
    BY <1>2, <2>1, WFMin
<1>4. PICK x \in T : \A y \in T : ~(<<y, x>> \in R)
  BY <1>3
<1>5. x # 0 /\ x \in 1 .. n /\ x - 1 \in 0 .. n - 1
  BY <1>4
<1>6. x - 1 \in T
  BY <1>4, <1>5
<1>7. <<x - 1, x>> \in R
  BY <1>1, <1>5
<1> QED
  BY <1>4, <1>6, <1>7

(* A set of numbers that has each number once it has all smaller ones.     *)
LEMMA AllNumbers ==
  ASSUME NEW S, \A n \in Nat : (\A m \in 0 .. n - 1 : m \in S) => n \in S
  PROVE  Nat \subseteq S
<1> DEFINE T(n) == {i \in Nat : \A m \in 0 .. i : m \in S}
<1> SUFFICES ASSUME NEW n \in Nat PROVE n \in S
  OBVIOUS
<1>1. 0 \in T(n)
  OBVIOUS
<1>2. \A i \in 0 .. n - 1 : i \in T(n) => i + 1 \in T(n)
  <2> SUFFICES ASSUME NEW i \in 0 .. n - 1, \A m \in 0 .. i : m \in S
               PROVE  i + 1 \in T(n)
    OBVIOUS
  <2>1. i + 1 \in Nat /\ \A m \in 0 .. (i + 1) - 1 : m \in S
    OBVIOUS
  <2>2. i + 1 \in S
    BY <2>1
  <2> QED
    BY <2>2
<1>3. 0 .. n \subseteq T(n)
  <2> HIDE DEF T
  <2> QED
    BY <1>1, <1>2, UpTo
<1> QED
  BY <1>3

-----------------------------------------------------------------------------
(* The run of equal elements *)

(* r elements are equal after x on diagonal k, and no more than these.     *)
Run(a, b, x, k, r) ==
  /\ \A i \in 1 .. r : x + i <= Len(a) /\ x - k + i <= Len(b) /\ a[x + i] = b[x - k + i]
  /\ ~(x + (r + 1) <= Len(a) /\ x - k + (r + 1) <= Len(b) /\ a[x + (r + 1)] = b[x - k + (r + 1)])

(* RunEnd is the end of a run: one exists, for the arrays end.             *)
LEMMA RunEnds ==
  ASSUME NEW a, NEW b, Len(a) \in Nat, Len(b) \in Nat, NEW x \in Nat, NEW k \in Int
  PROVE  \E r \in 0 .. Len(a) : RunEnd(a, b, x, k) = x + r /\ Run(a, b, x, k, r)
<1> DEFINE Equal(i) == /\ x + i <= Len(a) /\ x - k + i <= Len(b)
                       /\ a[x + i] = b[x - k + i]
           Ends(r) == ~Equal(r + 1) /\ \A i \in 1 .. r : Equal(i)
           n == Len(a)
           S == {r \in Nat : \A i \in 1 .. r : Equal(i)}
<1>1. \E r \in 0 .. n : Ends(r)
  <2> SUFFICES ASSUME \A r \in 0 .. n : ~Ends(r) PROVE FALSE
    OBVIOUS
  <2>1. 0 \in S
    OBVIOUS
  <2>2. ASSUME NEW r \in 0 .. n, r \in S PROVE r + 1 \in S
    <3>1. ~Ends(r) /\ \A i \in 1 .. r : Equal(i)
      BY <2>2
    <3>2. Equal(r + 1)
      BY <3>1
    <3>3. \A i \in 1 .. r + 1 : i \in 1 .. r \/ i = r + 1
      BY <2>2
    <3> HIDE DEF Equal
    <3> QED
      BY <2>2, <3>1, <3>2, <3>3
  <2>3. n + 1 \in Nat /\ \A r \in 0 .. (n + 1) - 1 : r \in S => r + 1 \in S
    BY <2>2
  <2>4. n + 1 \in S
    <3> HIDE DEF S
    <3>1. 0 .. n + 1 \subseteq S
      BY <2>1, <2>3, UpTo
    <3> QED
      BY <3>1, <2>3
  <2>5. Equal(n + 1)
    BY <2>3, <2>4
  <2> QED
    BY <2>5
<1> DEFINE r == CHOOSE i \in 0 .. n : Ends(i)
<1>2. r \in 0 .. n /\ Ends(r)
  <2> HIDE DEF Ends
  <2> QED
    BY <1>1
<1>3. RunEnd(a, b, x, k) = x + r
  BY DEF RunEnd
<1>4. Run(a, b, x, k, r)
  BY <1>2 DEF Run
<1> QED
  BY <1>2, <1>3, <1>4

-----------------------------------------------------------------------------
(* The longest common subsequence *)

(* The larger of two numbers.                                              *)
LEMMA MaxOfTwo ==
  ASSUME NEW x \in Int, NEW y \in Int
  PROVE  Max({x, y}) = IF x >= y THEN x ELSE y
<1>1. \E z \in {x, y} : \A u \in {x, y} : z >= u
  <2>1. x >= y \/ y >= x
    OBVIOUS
  <2> QED
    BY <2>1
<1>2. Max({x, y}) \in {x, y} /\ \A u \in {x, y} : Max({x, y}) >= u
  BY <1>1 DEF Max
<1> QED
  BY <1>2

(* The smaller of two numbers.                                             *)
LEMMA MinOfTwo ==
  ASSUME NEW x \in Int, NEW y \in Int
  PROVE  Min({x, y}) = IF x <= y THEN x ELSE y
<1>1. \E z \in {x, y} : \A u \in {x, y} : z <= u
  <2>1. x >= y \/ y >= x
    OBVIOUS
  <2> QED
    BY <2>1
<1>2. Min({x, y}) \in {x, y} /\ \A u \in {x, y} : Min({x, y}) <= u
  BY <1>1 DEF Min
<1> QED
  BY <1>2

(* What an entry of the table of Common is computed from.                  *)
LcsOf(T, a, b, p) ==
  IF p[1] = 0 \/ p[2] = 0 THEN 0
  ELSE IF a[p[1]] = b[p[2]] THEN T[<<p[1] - 1, p[2] - 1>>] + 1
  ELSE Max({T[<<p[1] - 1, p[2]>>], T[<<p[1], p[2] - 1>>]})

Grid(a, b) == (0 .. Len(a)) \X (0 .. Len(b))

Table(T, a, b) == \A p \in Grid(a, b) : T[p] = LcsOf(T, a, b, p)

(* An entry of the table depends on entries nearer to the corner only.     *)
LEMMA LcsLocal ==
  ASSUME NEW a, NEW b, NEW T, NEW U, NEW p \in Nat \X Nat,
         \A q \in Nat \X Nat : q[1] + q[2] < p[1] + p[2] => T[q] = U[q]
  PROVE  LcsOf(T, a, b, p) = LcsOf(U, a, b, p)
<1>1. PICK x \in Nat, y \in Nat : p = <<x, y>>
  OBVIOUS
<1>2. ASSUME x # 0, y # 0
      PROVE  /\ T[<<x - 1, y - 1>>] = U[<<x - 1, y - 1>>]
             /\ T[<<x - 1, y>>] = U[<<x - 1, y>>]
             /\ T[<<x, y - 1>>] = U[<<x, y - 1>>]
  <2>1. x - 1 \in Nat /\ y - 1 \in Nat
    BY <1>2
  <2>2. /\ <<x - 1, y - 1>> \in Nat \X Nat /\ (x - 1) + (y - 1) < x + y
        /\ <<x - 1, y>> \in Nat \X Nat /\ (x - 1) + y < x + y
        /\ <<x, y - 1>> \in Nat \X Nat /\ x + (y - 1) < x + y
    BY <2>1
  <2>3. \A u, v \in Nat : u + v < x + y => T[<<u, v>>] = U[<<u, v>>]
    BY <1>1
  <2> QED
    BY <2>1, <2>2, <2>3
<1>3. LcsOf(T, a, b, <<x, y>>) = LcsOf(U, a, b, <<x, y>>)
  <2>1. CASE x = 0 \/ y = 0
    BY <2>1 DEF LcsOf
  <2>2. CASE x # 0 /\ y # 0
    BY <1>2, <2>2 DEF LcsOf
  <2> QED
    BY <2>1, <2>2
<1> QED
  BY <1>1, <1>3

(* The function in Common exists and satisfies its equation.               *)
LEMMA CommonTable ==
  ASSUME NEW a, NEW b, Len(a) \in Nat, Len(b) \in Nat
  PROVE  \E T : Table(T, a, b) /\ Common(a, b) = T[<<Len(a), Len(b)>>]
<1> DEFINE n == Len(a)
           m == Len(b)
           G == Grid(a, b)
           E(T, p) == LcsOf(T, a, b, p)
           S == {s \in Nat : \E T : \A p \in G : p[1] + p[2] < s => T[p] = E(T, p)}
           Is(T) == T = [p \in G |-> E(T, p)]
<1>1. G \subseteq Nat \X Nat /\ <<n, m>> \in G /\ \A p \in G : p[1] + p[2] < n + m + 1
  BY DEF Grid
<1>2. \E T : Is(T)
  <2>1. 0 \in S
    <3>1. \A p \in G : ~(p[1] + p[2] < 0)
      BY <1>1
    <3> QED
      BY <3>1
  <2>2. ASSUME NEW s \in Nat, s \in S PROVE s + 1 \in S
    <3>1. PICK T : \A p \in G : p[1] + p[2] < s => T[p] = E(T, p)
      BY <2>2
    <3>2. PICK U : U = [p \in Nat \X Nat |-> IF p[1] + p[2] < s THEN T[p] ELSE E(T, p)]
      OBVIOUS
    <3>3. \A p \in Nat \X Nat : U[p] = IF p[1] + p[2] < s THEN T[p] ELSE E(T, p)
      BY <3>2
    <3>4. ASSUME NEW p \in G, p[1] + p[2] < s + 1 PROVE U[p] = E(U, p)
      <4>1. p \in Nat \X Nat
        BY <1>1
      <4>2. \A q \in Nat \X Nat : q[1] + q[2] < p[1] + p[2] => T[q] = U[q]
        <5>1. p[1] + p[2] <= s /\ p[1] + p[2] \in Nat
          BY <3>4, <4>1
        <5>2. \A q \in Nat \X Nat : q[1] + q[2] \in Nat
          OBVIOUS
        <5> QED
          BY <3>3, <5>1, <5>2
      <4>3. E(T, p) = E(U, p)
        BY <4>1, <4>2, LcsLocal
      <4>4. U[p] = E(T, p)
        <5> HIDE DEF E
        <5> QED
          BY <3>1, <3>3, <4>1
      <4> QED
        BY <4>3, <4>4
    <3>5. \A p \in G : p[1] + p[2] < s + 1 => U[p] = E(U, p)
      BY <3>4
    <3> QED
      BY <3>5
  <2>3. n + m + 1 \in S
    <3> HIDE DEF S
    <3>1. n + m + 1 \in Nat /\ \A s \in 0 .. (n + m + 1) - 1 : s \in S => s + 1 \in S
      BY <2>2
    <3>2. 0 .. n + m + 1 \subseteq S
      BY <2>1, <3>1, UpTo
    <3> QED
      BY <3>1, <3>2
  <2>4. PICK T : \A p \in G : T[p] = E(T, p)
    BY <1>1, <2>3
  <2>5. PICK U : U = [p \in G |-> T[p]]
    OBVIOUS
  <2>6. \A p \in G : U[p] = T[p]
    BY <2>5
  <2>7. ASSUME NEW p \in G PROVE T[p] = E(U, p)
    <3>1. PICK x \in 0 .. n, y \in 0 .. m : p = <<x, y>>
      BY DEF Grid
    <3>2. x # 0 /\ y # 0 => /\ <<x - 1, y - 1>> \in G /\ <<x - 1, y>> \in G /\ <<x, y - 1>> \in G
      BY DEF Grid
    <3>3. x # 0 /\ y # 0 => /\ T[<<x - 1, y - 1>>] = U[<<x - 1, y - 1>>]
                            /\ T[<<x - 1, y>>] = U[<<x - 1, y>>]
                            /\ T[<<x, y - 1>>] = U[<<x, y - 1>>]
      BY <2>6, <3>2
    <3>4. E(T, <<x, y>>) = E(U, <<x, y>>)
      BY <3>3 DEF LcsOf
    <3> QED
      BY <2>4, <3>1, <3>4
  <2>8. Is(U)
    <3> HIDE DEF E, G
    <3> QED
      BY <2>5, <2>7
  <2> QED
    BY <2>8
<1> DEFINE T == CHOOSE T : Is(T)
<1>3. Is(T)
  <2> HIDE DEF Is
  <2> QED
    BY <1>2, Zenon
<1>4. Common(a, b) = T[<<n, m>>]
  BY Zenon DEF Common, LcsOf, Grid
<1> HIDE DEF T
<1>5. \A p \in G : T[p] = E(T, p)
  <2> HIDE DEF E, G
  <2> QED
    BY <1>3
<1>6. Table(T, a, b)
  BY <1>5 DEF Table
<1> QED
  BY <1>4, <1>6

(* An entry of the table and those before it.                              *)
Grows(T, x, y) ==
  /\ T[<<x, y>>] \in Nat /\ T[<<x, y>>] <= x /\ T[<<x, y>>] <= y
  /\ x > 0 => T[<<x - 1, y>>] <= T[<<x, y>>] /\ T[<<x, y>>] <= T[<<x - 1, y>>] + 1
  /\ y > 0 => T[<<x, y - 1>>] <= T[<<x, y>>] /\ T[<<x, y>>] <= T[<<x, y - 1>>] + 1

(* An entry is at most each of its coordinates, and a step in either       *)
(* direction adds 0 or 1.                                                  *)
LEMMA TableGrows ==
  ASSUME NEW a, NEW b, Len(a) \in Nat, Len(b) \in Nat, NEW T, Table(T, a, b)
  PROVE  \A x \in 0 .. Len(a), y \in 0 .. Len(b) : Grows(T, x, y)
<1> DEFINE n == Len(a)
           m == Len(b)
           S == {s \in Nat : \A x \in 0 .. n, y \in 0 .. m : x + y = s => Grows(T, x, y)}
<1>1. ASSUME NEW s \in Nat, \A t \in 0 .. s - 1 : t \in S PROVE s \in S
  <2> SUFFICES ASSUME NEW x \in 0 .. n, NEW y \in 0 .. m, x + y = s
               PROVE  Grows(T, x, y)
    OBVIOUS
  <2>1. ASSUME NEW u \in 0 .. n, NEW v \in 0 .. m, u + v < s PROVE Grows(T, u, v)
    <3>1. u + v \in 0 .. s - 1
      BY <2>1
    <3> QED
      BY <1>1, <3>1
  <2>2. T[<<x, y>>] = LcsOf(T, a, b, <<x, y>>)
    BY DEF Table, Grid
  <2> HIDE DEF S
  <2>3. CASE x = 0
    <3>1. T[<<x, y>>] = 0
      BY <2>2, <2>3 DEF LcsOf
    <3>2. y > 0 => T[<<x, y - 1>>] = 0
      <4>1. y > 0 => <<x, y - 1>> \in Grid(a, b)
        BY DEF Grid
      <4> QED
        BY <2>3, <4>1 DEF Table, LcsOf
    <3> QED
      BY <2>3, <3>1, <3>2 DEF Grows
  <2>4. CASE y = 0
    <3>1. T[<<x, y>>] = 0
      BY <2>2, <2>4 DEF LcsOf
    <3>2. x > 0 => T[<<x - 1, y>>] = 0
      <4>1. x > 0 => <<x - 1, y>> \in Grid(a, b)
        BY DEF Grid
      <4> QED
        BY <2>4, <4>1 DEF Table, LcsOf
    <3> QED
      BY <2>4, <3>1, <3>2 DEF Grows
  <2>5. CASE x # 0 /\ y # 0
    <3>1. x - 1 \in 0 .. n /\ y - 1 \in 0 .. m /\ x > 0 /\ y > 0
      BY <2>5
    <3>2. Grows(T, x - 1, y - 1) /\ Grows(T, x - 1, y) /\ Grows(T, x, y - 1)
      <4>1. (x - 1) + (y - 1) < s /\ (x - 1) + y < s /\ x + (y - 1) < s
        OBVIOUS
      <4> QED
        BY <2>1, <3>1, <4>1
    <3>3. PICK c, l, u, t : /\ c = T[<<x - 1, y - 1>>] /\ l = T[<<x - 1, y>>]
                            /\ u = T[<<x, y - 1>>] /\ t = T[<<x, y>>]
      OBVIOUS
    <3>4. /\ c \in Nat /\ c <= x - 1 /\ c <= y - 1
          /\ l \in Nat /\ l <= x - 1 /\ u \in Nat /\ u <= y - 1 /\ l <= y /\ u <= x
          /\ c <= l /\ l <= c + 1 /\ c <= u /\ u <= c + 1
      BY <3>1, <3>2, <3>3 DEF Grows
    <3>5. t = IF a[x] = b[y] THEN c + 1 ELSE Max({l, u})
      BY <2>2, <2>5, <3>3 DEF LcsOf
    <3>6. Max({l, u}) = IF l >= u THEN l ELSE u
      BY <3>4, MaxOfTwo
    <3>7. t \in Nat /\ t <= x /\ t <= y /\ l <= t /\ t <= l + 1 /\ u <= t /\ t <= u + 1
      BY <3>4, <3>5, <3>6
    <3> QED
      BY <3>3, <3>7 DEF Grows
  <2> QED
    BY <2>3, <2>4, <2>5
<1>2. Nat \subseteq S
  <2> HIDE DEF S
  <2> QED
    BY <1>1, AllNumbers
<1> SUFFICES ASSUME NEW x \in 0 .. n, NEW y \in 0 .. m PROVE Grows(T, x, y)
  OBVIOUS
<1>3. x + y \in S
  <2> HIDE DEF S
  <2> QED
    BY <1>2
<1> QED
  BY <1>3

-----------------------------------------------------------------------------
(* Distances *)

(* The two arrays have an equal element after x and y.                     *)
Same(a, b, x, y) == x + 1 <= Len(a) /\ y + 1 <= Len(b) /\ a[x + 1] = b[y + 1]

(* The numbers of edits that take a prefix of a to a prefix of b, for      *)
(* points beyond the ends of the arrays too.                               *)
Near(D, a, x, y) ==
  /\ D[<<x, y>>] \in Nat
  /\ D[<<x, y>>] >= x - y /\ D[<<x, y>>] >= y - x /\ D[<<x, y>>] >= x - Len(a)
  /\ D[<<x + 1, y>>] <= D[<<x, y>>] + 1 /\ D[<<x, y + 1>>] <= D[<<x, y>>] + 1

Comes(D, a, b, x, y) ==
  \/ x = 0 /\ y = 0
  \/ x > 0 /\ y > 0 /\ Same(a, b, x - 1, y - 1) /\ D[<<x, y>>] = D[<<x - 1, y - 1>>]
  \/ x > 0 /\ D[<<x, y>>] = D[<<x - 1, y>>] + 1
  \/ y > 0 /\ D[<<x, y>>] = D[<<x, y - 1>>] + 1

Distances(D, a, b) ==
  /\ D[<<0, 0>>] = 0
  /\ \A x, y \in Nat : Near(D, a, x, y)
  /\ \A x, y \in Nat : Same(a, b, x, y) => D[<<x + 1, y + 1>>] = D[<<x, y>>]
  /\ \A x, y \in Nat : Comes(D, a, b, x, y)
  /\ \A x, y \in Nat : x >= Len(a) /\ y >= Len(b) =>
       D[<<x, y>>] = EditDistance(a, b) + (x - Len(a)) + (y - Len(b))

(* Distances exist: x + y less twice the common length of the prefixes,    *)
(* and outside of the arrays one more for each step.                       *)
LEMMA DistancesExist ==
  ASSUME NEW a, NEW b, Len(a) \in Nat, Len(b) \in Nat
  PROVE  /\ Common(a, b) \in 0 .. Len(a) /\ Common(a, b) <= Len(b)
         /\ \E D : Distances(D, a, b)
<1> DEFINE n == Len(a)
           m == Len(b)
           In(i, top) == IF i <= top THEN i ELSE top
<1>1. PICK T : Table(T, a, b) /\ Common(a, b) = T[<<n, m>>]
  BY CommonTable
<1>2. \A x \in 0 .. n, y \in 0 .. m : Grows(T, x, y)
  BY <1>1, TableGrows
<1>3. Common(a, b) \in 0 .. n /\ Common(a, b) <= m
  <2>1. Grows(T, n, m)
    BY <1>2
  <2> QED
    BY <1>1, <2>1 DEF Grows
<1>4. \A i, top \in Nat : In(i, top) \in 0 .. top /\ In(i, top) <= i
  OBVIOUS
<1> DEFINE t(x, y) == T[<<In(x, n), In(y, m)>>]
           D == [p \in Nat \X Nat |-> p[1] + p[2] - 2 * t(p[1], p[2])]
<1>5. \A x, y \in Nat : D[<<x, y>>] = x + y - 2 * t(x, y)
  OBVIOUS
<1>6. ASSUME NEW x \in Nat, NEW y \in Nat
      PROVE  /\ t(x, y) \in Nat /\ t(x, y) <= x /\ t(x, y) <= y /\ t(x, y) <= n /\ t(x, y) <= m
  <2>1. PICK u \in 0 .. n, v \in 0 .. m : u = In(x, n) /\ v = In(y, m) /\ u <= x /\ v <= y
    BY <1>4
  <2>2. Grows(T, u, v)
    BY <1>2
  <2> HIDE DEF In
  <2> QED
    BY <2>1, <2>2 DEF Grows
<1>7. ASSUME NEW x \in Nat, NEW y \in Nat
      PROVE  /\ t(x, y) <= t(x + 1, y) /\ t(x + 1, y) <= t(x, y) + 1
             /\ x >= n => t(x + 1, y) = t(x, y)
  <2>1. PICK v \in 0 .. m : v = In(y, m)
    BY <1>4
  <2>2. CASE x >= n
    <3>1. In(x + 1, n) = In(x, n)
      BY <2>2
    <3>2. t(x + 1, y) = t(x, y)
      BY <3>1
    <3>3. t(x, y) \in Nat
      BY <1>6
    <3> HIDE DEF t
    <3> QED
      BY <3>2, <3>3
  <2>3. CASE x < n
    <3>1. x + 1 \in 0 .. n /\ In(x + 1, n) = x + 1 /\ In(x, n) = x /\ x \in 0 .. n
      BY <2>3
    <3>2. Grows(T, x + 1, v) /\ Grows(T, x, v)
      BY <1>2, <3>1
    <3>3. (x + 1) - 1 = x /\ x + 1 > 0
      OBVIOUS
    <3>4. T[<<x, v>>] <= T[<<x + 1, v>>] /\ T[<<x + 1, v>>] <= T[<<x, v>>] + 1
      BY <3>2, <3>3 DEF Grows
    <3>5. t(x, y) = T[<<x, v>>] /\ t(x + 1, y) = T[<<x + 1, v>>]
      BY <2>1, <3>1
    <3> HIDE DEF t
    <3> QED
      BY <2>3, <3>4, <3>5
  <2> QED
    BY <2>2, <2>3
<1>8. ASSUME NEW x \in Nat, NEW y \in Nat
      PROVE  /\ t(x, y) <= t(x, y + 1) /\ t(x, y + 1) <= t(x, y) + 1
             /\ y >= m => t(x, y + 1) = t(x, y)
  <2>1. PICK u \in 0 .. n : u = In(x, n)
    BY <1>4
  <2>2. CASE y >= m
    <3>1. In(y + 1, m) = In(y, m)
      BY <2>2
    <3>2. t(x, y + 1) = t(x, y)
      BY <3>1
    <3>3. t(x, y) \in Nat
      BY <1>6
    <3> HIDE DEF t
    <3> QED
      BY <3>2, <3>3
  <2>3. CASE y < m
    <3>1. y + 1 \in 0 .. m /\ In(y + 1, m) = y + 1 /\ In(y, m) = y /\ y \in 0 .. m
      BY <2>3
    <3>2. Grows(T, u, y + 1) /\ Grows(T, u, y)
      BY <1>2, <3>1
    <3>3. (y + 1) - 1 = y /\ y + 1 > 0
      OBVIOUS
    <3>4. T[<<u, y>>] <= T[<<u, y + 1>>] /\ T[<<u, y + 1>>] <= T[<<u, y>>] + 1
      BY <3>2, <3>3 DEF Grows
    <3>5. t(x, y) = T[<<u, y>>] /\ t(x, y + 1) = T[<<u, y + 1>>]
      BY <2>1, <3>1
    <3> HIDE DEF t
    <3> QED
      BY <2>3, <3>4, <3>5
  <2> QED
    BY <2>2, <2>3
<1>9. ASSUME NEW x \in Nat, NEW y \in Nat, x + 1 <= n, y + 1 <= m
      PROVE  t(x + 1, y + 1) = IF a[x + 1] = b[y + 1] THEN t(x, y) + 1
                               ELSE IF t(x, y + 1) >= t(x + 1, y) THEN t(x, y + 1) ELSE t(x + 1, y)
  <2>1. In(x, n) = x /\ In(y, m) = y /\ In(x + 1, n) = x + 1 /\ In(y + 1, m) = y + 1
    BY <1>9
  <2>2. <<x + 1, y + 1>> \in Grid(a, b)
    BY <1>9 DEF Grid
  <2>3. T[<<x + 1, y + 1>>] = LcsOf(T, a, b, <<x + 1, y + 1>>)
    BY <1>1, <2>2 DEF Table
  <2>4. x + 1 # 0 /\ y + 1 # 0 /\ (x + 1) - 1 = x /\ (y + 1) - 1 = y
    OBVIOUS
  <2>5. T[<<x + 1, y + 1>>] = IF a[x + 1] = b[y + 1] THEN T[<<x, y>>] + 1
                              ELSE Max({T[<<x, y + 1>>], T[<<x + 1, y>>]})
    BY <2>3, <2>4 DEF LcsOf
  <2>6. /\ t(x, y) = T[<<x, y>>] /\ t(x + 1, y + 1) = T[<<x + 1, y + 1>>]
        /\ t(x, y + 1) = T[<<x, y + 1>>] /\ t(x + 1, y) = T[<<x + 1, y>>]
    BY <2>1
  <2>7. t(x, y + 1) \in Nat /\ t(x + 1, y) \in Nat
    BY <1>6
  <2> HIDE DEF t
  <2>8. Max({t(x, y + 1), t(x + 1, y)}) = IF t(x, y + 1) >= t(x + 1, y) THEN t(x, y + 1) ELSE t(x + 1, y)
    <3>1. PICK p \in Nat, q \in Nat : p = t(x, y + 1) /\ q = t(x + 1, y)
      BY <2>7
    <3>2. Max({p, q}) = IF p >= q THEN p ELSE q
      BY MaxOfTwo
    <3> QED
      BY <3>1, <3>2
  <2> QED
    BY <2>5, <2>6, <2>8
<1> HIDE DEF t, D
<1>10. D[<<0, 0>>] = 0
  <2>1. t(0, 0) \in Nat /\ t(0, 0) <= 0 /\ D[<<0, 0>>] = 0 + 0 - 2 * t(0, 0)
    <3>1. 0 \in Nat
      OBVIOUS
    <3> QED
      BY <1>5, <1>6, <3>1
  <2> QED
    BY <2>1
<1>11. ASSUME NEW x \in Nat, NEW y \in Nat PROVE Near(D, a, x, y)
  <2>1. PICK p, q, r : p = t(x, y) /\ q = t(x + 1, y) /\ r = t(x, y + 1)
    OBVIOUS
  <2>2. D[<<x, y>>] = x + y - 2 * p /\ D[<<x + 1, y>>] = x + 1 + y - 2 * q /\ D[<<x, y + 1>>] = x + (y + 1) - 2 * r
    BY <1>5, <2>1
  <2>3. p \in Nat /\ q \in Nat /\ r \in Nat /\ p <= x /\ p <= y /\ p <= n /\ p <= q /\ p <= r
    BY <1>6, <1>7, <1>8, <2>1
  <2>4. /\ x + y - 2 * p \in Nat
        /\ x + y - 2 * p >= x - y /\ x + y - 2 * p >= y - x /\ x + y - 2 * p >= x - n
        /\ x + 1 + y - 2 * q <= x + y - 2 * p + 1 /\ x + (y + 1) - 2 * r <= x + y - 2 * p + 1
    BY <2>3
  <2> QED
    BY <2>2, <2>4 DEF Near
<1>12. ASSUME NEW x \in Nat, NEW y \in Nat, Same(a, b, x, y)
       PROVE  D[<<x + 1, y + 1>>] = D[<<x, y>>]
  <2>1. t(x + 1, y + 1) = t(x, y) + 1 /\ t(x, y) \in Nat
    BY <1>6, <1>9, <1>12 DEF Same
  <2>2. D[<<x, y>>] = x + y - 2 * t(x, y) /\ D[<<x + 1, y + 1>>] = (x + 1) + (y + 1) - 2 * t(x + 1, y + 1)
    <3>1. x + 1 \in Nat /\ y + 1 \in Nat
      OBVIOUS
    <3> QED
      BY <1>5, <3>1
  <2>3. PICK c \in Nat : c = t(x, y)
    BY <2>1
  <2>4. (x + 1) + (y + 1) - 2 * (c + 1) = x + y - 2 * c
    OBVIOUS
  <2> QED
    BY <2>1, <2>2, <2>3, <2>4
<1>13. ASSUME NEW x \in Nat, NEW y \in Nat, t(x + 1, y) = t(x, y)
       PROVE  D[<<x + 1, y>>] = D[<<x, y>>] + 1
  <2>1. D[<<x, y>>] = x + y - 2 * t(x, y) /\ D[<<x + 1, y>>] = (x + 1) + y - 2 * t(x + 1, y) /\ t(x, y) \in Nat
    BY <1>5, <1>6
  <2> QED
    BY <1>13, <2>1
<1>14. ASSUME NEW x \in Nat, NEW y \in Nat, t(x, y + 1) = t(x, y)
       PROVE  D[<<x, y + 1>>] = D[<<x, y>>] + 1
  <2>1. D[<<x, y>>] = x + y - 2 * t(x, y) /\ D[<<x, y + 1>>] = x + (y + 1) - 2 * t(x, y + 1) /\ t(x, y) \in Nat
    BY <1>5, <1>6
  <2> QED
    BY <1>14, <2>1
<1>15. ASSUME NEW x \in Nat, NEW y \in Nat PROVE Comes(D, a, b, x, y)
  <2>1. CASE x = 0 /\ y = 0
    BY <2>1 DEF Comes
  <2>2. CASE x = 0 /\ y # 0
    <3>1. PICK v \in Nat : y = v + 1
      <4>1. y - 1 \in Nat /\ y = (y - 1) + 1
        BY <2>2
      <4> QED
        BY <4>1
    <3>2. t(x, v + 1) = 0 /\ t(x, v) = 0
      <4>1. \A i \in Nat : t(x, i) \in Nat /\ t(x, i) <= 0
        BY <1>6, <2>2
      <4>2. v + 1 \in Nat /\ \A c \in Nat : c <= 0 => c = 0
        OBVIOUS
      <4> QED
        BY <4>1, <4>2
    <3>3. D[<<x, v + 1>>] = D[<<x, v>>] + 1
      BY <1>14, <3>2
    <3>4. y > 0 /\ y - 1 = v
      BY <3>1
    <3> QED
      BY <3>1, <3>3, <3>4 DEF Comes
  <2>3. CASE x # 0 /\ y = 0
    <3>1. PICK u \in Nat : x = u + 1
      <4>1. x - 1 \in Nat /\ x = (x - 1) + 1
        BY <2>3
      <4> QED
        BY <4>1
    <3>2. t(u + 1, y) = 0 /\ t(u, y) = 0
      <4>1. \A i \in Nat : t(i, y) \in Nat /\ t(i, y) <= 0
        BY <1>6, <2>3
      <4>2. u + 1 \in Nat /\ \A c \in Nat : c <= 0 => c = 0
        OBVIOUS
      <4> QED
        BY <4>1, <4>2
    <3>3. D[<<u + 1, y>>] = D[<<u, y>>] + 1
      BY <1>13, <3>2
    <3>4. x > 0 /\ x - 1 = u
      BY <3>1
    <3> QED
      BY <3>1, <3>3, <3>4 DEF Comes
  <2>4. CASE x # 0 /\ y # 0
    <3>1. PICK u \in Nat, v \in Nat : x = u + 1 /\ y = v + 1
      <4>1. x - 1 \in Nat /\ y - 1 \in Nat /\ x = (x - 1) + 1 /\ y = (y - 1) + 1
        BY <2>4
      <4> QED
        BY <4>1
    <3>2. x > 0 /\ y > 0 /\ x - 1 = u /\ y - 1 = v
      BY <3>1
    <3>3. t(u + 1, v) \in Nat /\ t(u, v + 1) \in Nat /\ t(u + 1, v + 1) \in Nat
      <4>1. u + 1 \in Nat /\ v + 1 \in Nat
        OBVIOUS
      <4> QED
        BY <1>6, <4>1
    <3>4. CASE t(u + 1, v + 1) = t(u, v + 1)
      <4>1. D[<<x, y>>] = D[<<u, y>>] + 1
        BY <1>13, <3>1, <3>4
      <4> QED
        BY <3>2, <4>1 DEF Comes
    <3>5. CASE t(u + 1, v + 1) = t(u + 1, v)
      <4>1. D[<<x, y>>] = D[<<x, v>>] + 1
        BY <1>14, <3>1, <3>5
      <4> QED
        BY <3>2, <4>1 DEF Comes
    <3>6. CASE Same(a, b, u, v)
      <4>1. D[<<x, y>>] = D[<<u, v>>]
        BY <1>12, <3>1, <3>6
      <4> QED
        BY <3>2, <3>6, <4>1 DEF Comes
    <3>7. CASE ~Same(a, b, u, v) /\ u + 1 <= n /\ v + 1 <= m
      <4>1. t(u + 1, v + 1) \in {t(u, v + 1), t(u + 1, v)}
        BY <1>9, <3>7 DEF Same
      <4> QED
        BY <3>4, <3>5, <4>1
    <3>8. CASE ~(u + 1 <= n)
      <4>1. t(u + 1, v + 1) = t(u, v + 1)
        <5>1. u >= n /\ v + 1 \in Nat
          BY <3>8
        <5> QED
          BY <1>7, <5>1
      <4> QED
        BY <3>4, <4>1
    <3>9. CASE ~(v + 1 <= m)
      <4>1. t(u + 1, v + 1) = t(u + 1, v)
        <5>1. v >= m /\ u + 1 \in Nat
          BY <3>9
        <5> QED
          BY <1>8, <5>1
      <4> QED
        BY <3>5, <4>1
    <3> QED
      BY <3>6, <3>7, <3>8, <3>9
  <2> QED
    BY <2>1, <2>2, <2>3, <2>4
<1>16. ASSUME NEW x \in Nat, NEW y \in Nat, x >= n, y >= m
       PROVE  D[<<x, y>>] = EditDistance(a, b) + (x - n) + (y - m)
  <2>1. In(x, n) = n /\ In(y, m) = m
    BY <1>16
  <2>2. t(x, y) = Common(a, b)
    BY <1>1, <2>1 DEF t
  <2>3. D[<<x, y>>] = x + y - 2 * Common(a, b)
    BY <1>5, <2>2
  <2>4. EditDistance(a, b) = n + m - 2 * Common(a, b)
    BY DEF EditDistance
  <2> QED
    BY <1>3, <2>3, <2>4
<1>17. Distances(D, a, b)
  BY <1>10, <1>11, <1>12, <1>15, <1>16, Zenon DEF Distances
<1> QED
  BY <1>3, <1>17

-----------------------------------------------------------------------------
(* How far the algorithm reaches *)

(* With d edits on diagonal 2 * j - d: whether the last change goes down,  *)
(* and the x from which the run of equal elements starts.                  *)
Down(w, d, j) == j = 0 \/ (j # d /\ w[d - 1][j - 1] < w[d - 1][j])

Start(w, d, j) ==
  IF d = 0 THEN 0 ELSE IF Down(w, d, j) THEN w[d - 1][j] ELSE w[d - 1][j - 1] + 1

(* w[d][j] is the x that the algorithm reaches with d edits on diagonal 2 * j - d. *)
Reach(w, a, b, e) ==
  \A d \in 0 .. e : \A j \in 0 .. d : w[d][j] = RunEnd(a, b, Start(w, d, j), 2 * j - d)

(* What d edits reach on each diagonal exists: row d comes from row d - 1  *)
(* alone.                                                                  *)
LEMMA ReachExists ==
  ASSUME NEW a, NEW b, NEW e \in Nat
  PROVE  \E w : Reach(w, a, b, e)
<1> DEFINE S == {i \in Nat : \E w : Reach(w, a, b, i)}
<1>1. 0 \in S
  <2>1. PICK w : w = [d \in 0 .. 0 |-> [j \in 0 .. 0 |-> RunEnd(a, b, 0, 0)]]
    OBVIOUS
  <2>2. w[0][0] = RunEnd(a, b, 0, 0)
    BY <2>1
  <2>3. Reach(w, a, b, 0)
    <3> SUFFICES ASSUME NEW d \in 0 .. 0, NEW j \in 0 .. d
                 PROVE  w[d][j] = RunEnd(a, b, Start(w, d, j), 2 * j - d)
      BY DEF Reach
    <3>1. d = 0 /\ j = 0 /\ 2 * j - d = 0 /\ Start(w, d, j) = 0
      BY DEF Start
    <3> QED
      BY <2>2, <3>1
  <2> QED
    BY <2>3
<1>2. ASSUME NEW i \in Nat, i \in S PROVE i + 1 \in S
  <2>1. PICK w : Reach(w, a, b, i)
    BY <1>2
  <2>2. PICK g : g = [j \in 0 .. i + 1 |-> RunEnd(a, b, Start(w, i + 1, j), 2 * j - (i + 1))]
    OBVIOUS
  <2>3. PICK v : v = [d \in 0 .. i + 1 |-> IF d = i + 1 THEN g ELSE w[d]]
    OBVIOUS
  <2>4. v[i + 1] = g /\ \A d \in 0 .. i : v[d] = w[d]
    BY <2>3
  <2>5. ASSUME NEW d \in 0 .. i + 1, NEW j PROVE Start(v, d, j) = Start(w, d, j)
    <3>1. d # 0 => v[d - 1] = w[d - 1]
      <4>1. d # 0 => d - 1 \in 0 .. i
        OBVIOUS
      <4> QED
        BY <2>4, <4>1
    <3> QED
      BY <3>1, Zenon DEF Start, Down
  <2>6. Reach(v, a, b, i + 1)
    <3> SUFFICES ASSUME NEW d \in 0 .. i + 1, NEW j \in 0 .. d
                 PROVE  v[d][j] = RunEnd(a, b, Start(v, d, j), 2 * j - d)
      BY DEF Reach
    <3>1. Start(v, d, j) = Start(w, d, j)
      BY <2>5
    <3>2. CASE d = i + 1
      <4>1. g[j] = RunEnd(a, b, Start(w, d, j), 2 * j - d)
        BY <2>2, <3>2
      <4> QED
        BY <2>4, <3>1, <3>2, <4>1
    <3>3. CASE d # i + 1
      <4>1. d \in 0 .. i
        BY <3>3
      <4>2. w[d][j] = RunEnd(a, b, Start(w, d, j), 2 * j - d)
        BY <2>1, <4>1 DEF Reach
      <4> QED
        BY <2>4, <3>1, <4>1, <4>2
    <3> QED
      BY <3>2, <3>3
  <2> QED
    BY <2>6
<1>3. e \in S
  <2> HIDE DEF S
  <2>1. \A i \in 0 .. e - 1 : i \in S => i + 1 \in S
    BY <1>2
  <2>2. 0 .. e \subseteq S
    BY <1>1, <2>1, UpTo
  <2> QED
    BY <2>2
<1> QED
  BY <1>3

(* Each x lies past those of one edit fewer, at the end of a run.          *)
Moved(w, a, b, d, j) ==
  /\ w[d][j] \in Nat /\ w[d][j] >= 2 * j - d
  /\ Start(w, d, j) \in Nat /\ Start(w, d, j) >= 2 * j - d
  /\ j < d => w[d][j] >= w[d - 1][j]
  /\ j > 0 => w[d][j] >= w[d - 1][j - 1] + 1
  /\ \E r \in 0 .. Len(a) : w[d][j] = Start(w, d, j) + r /\ Run(a, b, Start(w, d, j), 2 * j - d, r)

(* More edits never reach less, and what is reached ends a run.            *)
LEMMA Moves ==
  ASSUME NEW a, NEW b, Len(a) \in Nat, Len(b) \in Nat, NEW e \in Nat, NEW w, Reach(w, a, b, e)
  PROVE  \A d \in 0 .. e : \A j \in 0 .. d : Moved(w, a, b, d, j)
<1> DEFINE S == {d \in Nat : d <= e => \A j \in 0 .. d : Moved(w, a, b, d, j)}
<1>1. ASSUME NEW d \in 0 .. e, NEW j \in 0 .. d,
             Start(w, d, j) \in Nat, Start(w, d, j) >= 2 * j - d
      PROVE  /\ w[d][j] \in Nat /\ w[d][j] >= 2 * j - d /\ w[d][j] >= Start(w, d, j)
             /\ \E r \in 0 .. Len(a) : /\ w[d][j] = Start(w, d, j) + r
                                       /\ Run(a, b, Start(w, d, j), 2 * j - d, r)
  <2>1. w[d][j] = RunEnd(a, b, Start(w, d, j), 2 * j - d)
    BY DEF Reach
  <2>2. 2 * j - d \in Int
    OBVIOUS
  <2>3. PICK x \in Nat, k \in Int : x = Start(w, d, j) /\ k = 2 * j - d
    BY <1>1, <2>2
  <2>4. PICK r \in 0 .. Len(a) : RunEnd(a, b, x, k) = x + r /\ Run(a, b, x, k, r)
    BY <2>3, RunEnds
  <2>5. x + r \in Nat /\ x + r >= k /\ x + r >= x
    BY <1>1, <2>3, <2>4
  <2> QED
    BY <2>1, <2>3, <2>4, <2>5
<1>2. 0 \in S
  <2> SUFFICES ASSUME NEW j \in 0 .. 0 PROVE Moved(w, a, b, 0, j)
    OBVIOUS
  <2>1. j = 0 /\ Start(w, 0, j) = 0 /\ 0 \in 0 .. e /\ 2 * 0 - 0 = 0
    BY DEF Start
  <2>2. 0 \in Nat /\ 0 >= 0 /\ ~(0 < 0) /\ ~(0 > 0) /\ 0 \in 0 .. 0
    OBVIOUS
  <2> QED
    BY <1>1, <2>1, <2>2 DEF Moved
<1>3. ASSUME NEW i \in Nat, i \in S PROVE i + 1 \in S
  <2> SUFFICES ASSUME i + 1 <= e, NEW j \in 0 .. i + 1 PROVE Moved(w, a, b, i + 1, j)
    OBVIOUS
  <2>1. \A h \in 0 .. i : w[i][h] \in Nat /\ w[i][h] >= 2 * h - i
    BY <1>3 DEF Moved
  <2> HIDE DEF S
  <2>2. PICK s : s = Start(w, i + 1, j)
    OBVIOUS
  <2>3. /\ s \in Nat /\ s >= 2 * j - (i + 1)
        /\ j < i + 1 => s >= w[i][j]
        /\ j > 0 => s >= w[i][j - 1] + 1
    <3>1. (i + 1) - 1 = i /\ i + 1 # 0
      OBVIOUS
    <3>2. CASE Down(w, i + 1, j)
      <4>1. j = 0 \/ (j # i + 1 /\ w[i][j - 1] < w[i][j])
        BY <3>1, <3>2 DEF Down
      <4>2. j \in 0 .. i
        BY <4>1
      <4>3. s = w[i][j]
        BY <2>2, <3>1, <3>2 DEF Start
      <4>4. w[i][j] \in Nat /\ w[i][j] >= 2 * j - i
        BY <2>1, <4>2
      <4>5. j > 0 => w[i][j - 1] \in Nat
        <5>1. j > 0 => j - 1 \in 0 .. i
          OBVIOUS
        <5> QED
          BY <2>1, <5>1
      <4> QED
        BY <4>1, <4>2, <4>3, <4>4, <4>5
    <3>3. CASE ~Down(w, i + 1, j)
      <4>1. j # 0 /\ (j = i + 1 \/ ~(w[i][j - 1] < w[i][j]))
        BY <3>1, <3>3 DEF Down
      <4>2. j - 1 \in 0 .. i
        BY <4>1
      <4>3. s = w[i][j - 1] + 1
        BY <2>2, <3>1, <3>3 DEF Start
      <4>4. w[i][j - 1] \in Nat /\ w[i][j - 1] >= 2 * (j - 1) - i
        BY <2>1, <4>2
      <4>5. j < i + 1 => w[i][j] \in Nat
        <5>1. j < i + 1 => j \in 0 .. i
          OBVIOUS
        <5> QED
          BY <2>1, <5>1
      <4> QED
        BY <4>1, <4>2, <4>3, <4>4, <4>5
    <3> QED
      BY <3>2, <3>3
  <2>4. /\ w[i + 1][j] \in Nat /\ w[i + 1][j] >= 2 * j - (i + 1) /\ w[i + 1][j] >= s
        /\ \E r \in 0 .. Len(a) : w[i + 1][j] = s + r /\ Run(a, b, s, 2 * j - (i + 1), r)
    <3>1. i + 1 \in 0 .. e
      OBVIOUS
    <3> QED
      BY <1>1, <2>2, <2>3, <3>1
  <2>5. /\ j < i + 1 => w[i + 1][j] >= w[i][j]
        /\ j > 0 => w[i + 1][j] >= w[i][j - 1] + 1
    <3>1. j < i + 1 => w[i][j] \in Nat
      <4>1. j < i + 1 => j \in 0 .. i
        OBVIOUS
      <4> QED
        BY <2>1, <4>1
    <3>2. j > 0 => w[i][j - 1] \in Nat
      <4>1. j > 0 => j - 1 \in 0 .. i
        OBVIOUS
      <4> QED
        BY <2>1, <4>1
    <3>3. PICK z \in Nat : z = w[i + 1][j] /\ z >= s
      BY <2>4
    <3>4. j < i + 1 => z >= w[i][j]
      BY <2>3, <3>1, <3>3
    <3>5. j > 0 => z >= w[i][j - 1] + 1
      BY <2>3, <3>2, <3>3
    <3> QED
      BY <3>3, <3>4, <3>5
  <2>6. (i + 1) - 1 = i
    OBVIOUS
  <2> QED
    BY <2>2, <2>3, <2>4, <2>5, <2>6 DEF Moved
<1> SUFFICES ASSUME NEW d \in 0 .. e PROVE \A j \in 0 .. d : Moved(w, a, b, d, j)
  OBVIOUS
<1>4. d \in S
  <2> HIDE DEF S
  <2>1. \A i \in 0 .. d - 1 : i \in S => i + 1 \in S
    BY <1>3
  <2>2. 0 .. d \subseteq S
    BY <1>2, <2>1, UpTo
  <2> QED
    BY <2>2
<1> QED
  BY <1>4

(* No x is beyond what d edits allow.                                      *)
LEMMA RunsAreFree ==
  ASSUME NEW a, NEW b, NEW D, Distances(D, a, b),
         NEW x \in Nat, NEW k \in Int, x >= k, NEW r \in Nat, Run(a, b, x, k, r)
  PROVE  D[<<x + r, x + r - k>>] = D[<<x, x - k>>]
<1> DEFINE T == {i \in Nat : D[<<x + i, x + i - k>>] = D[<<x, x - k>>]}
<1>1. 0 \in T
  OBVIOUS
<1>2. ASSUME NEW i \in 0 .. r - 1, i \in T PROVE i + 1 \in T
  <2>1. i + 1 \in 1 .. r
    BY <1>2
  <2>2. /\ x + (i + 1) <= Len(a) /\ x - k + (i + 1) <= Len(b)
        /\ a[x + (i + 1)] = b[x - k + (i + 1)]
    BY <2>1 DEF Run
  <2>3. PICK u \in Nat, v \in Nat : u = x + i /\ v = x + i - k
    <3>1. x + i \in Nat /\ x + i - k \in Nat
      OBVIOUS
    <3> QED
      BY <3>1
  <2>4. u + 1 = x + (i + 1) /\ v + 1 = x - k + (i + 1) /\ v + 1 = x + (i + 1) - k
    BY <2>3
  <2>5. Same(a, b, u, v)
    BY <2>2, <2>4 DEF Same
  <2>6. D[<<u + 1, v + 1>>] = D[<<u, v>>]
    BY <2>5 DEF Distances
  <2>7. D[<<u, v>>] = D[<<x, x - k>>]
    BY <1>2, <2>3
  <2> QED
    BY <2>1, <2>4, <2>6, <2>7
<1>3. r \in T
  <2> HIDE DEF T
  <2>1. 0 .. r \subseteq T
    BY <1>1, <1>2, UpTo
  <2> QED
    BY <2>1
<1> QED
  BY <1>3

(* Neighbours differ by at most 1.                                         *)
LEMMA DistancesNear ==
  ASSUME NEW a, NEW b, NEW D, Distances(D, a, b), NEW x \in Nat, NEW y \in Nat
  PROVE  Near(D, a, x, y)
BY DEF Distances

(* What d edits reach has a distance of at most d.                         *)
LEMMA Sound ==
  ASSUME NEW a, NEW b, Len(a) \in Nat, Len(b) \in Nat, NEW e \in Nat, NEW w, Reach(w, a, b, e),
         NEW D, Distances(D, a, b)
  PROVE  \A d \in 0 .. e : \A j \in 0 .. d : D[<<w[d][j], w[d][j] - (2 * j - d)>>] <= d
<1> DEFINE Ok(d) == \A j \in 0 .. d : D[<<w[d][j], w[d][j] - (2 * j - d)>>] <= d
           S == {d \in Nat : d <= e => Ok(d)}
<1>0. \A d \in 0 .. e : \A j \in 0 .. d : Moved(w, a, b, d, j)
  BY Moves
<1>1. ASSUME NEW d \in 0 .. e, NEW j \in 0 .. d,
             NEW s, s = Start(w, d, j), D[<<s, s - (2 * j - d)>>] <= d
      PROVE  D[<<w[d][j], w[d][j] - (2 * j - d)>>] <= d
  <2>1. Moved(w, a, b, d, j)
    BY <1>0
  <2>2. PICK r \in 0 .. Len(a) : w[d][j] = Start(w, d, j) + r /\ Run(a, b, Start(w, d, j), 2 * j - d, r)
    BY <2>1 DEF Moved
  <2>3. s \in Nat /\ s >= 2 * j - d
    BY <1>1, <2>1 DEF Moved
  <2>4. PICK k \in Int : k = 2 * j - d
    <3>1. d \in Nat /\ j \in Nat
      OBVIOUS
    <3>2. 2 * j - d \in Int
      BY <3>1
    <3> QED
      BY <3>2
  <2>5. r \in Nat /\ Run(a, b, s, k, r) /\ s >= k
    BY <1>1, <2>2, <2>3, <2>4
  <2>6. D[<<s + r, s + r - k>>] = D[<<s, s - k>>]
    BY <2>3, <2>5, RunsAreFree
  <2>7. PICK z \in Nat : z = w[d][j] /\ z = s + r
    BY <1>1, <2>2, <2>3, <2>5
  <2>8. z - k = s + r - k
    BY <2>3, <2>5, <2>7
  <2>9. D[<<z, z - k>>] <= d
    BY <1>1, <2>4, <2>6, <2>7, <2>8
  <2> QED
    BY <2>4, <2>7, <2>9
<1>2. 0 \in S
  <2> SUFFICES ASSUME NEW j \in 0 .. 0
               PROVE  D[<<w[0][j], w[0][j] - (2 * j - 0)>>] <= 0
    OBVIOUS
  <2>1. j = 0 /\ Start(w, 0, j) = 0 /\ 0 - (2 * j - 0) = 0 /\ 0 \in 0 .. e
    <3>1. Start(w, 0, j) = 0
      BY DEF Start
    <3>2. j = 0 /\ 0 \in 0 .. e
      OBVIOUS
    <3>3. 0 - (2 * j - 0) = 0
      BY <3>2
    <3> QED
      BY <3>1, <3>2, <3>3
  <2>2. D[<<0, 0>>] = 0
    BY DEF Distances
  <2> QED
    BY <1>1, <2>1, <2>2
<1>3. ASSUME NEW i \in Nat, i \in S PROVE i + 1 \in S
  <2> SUFFICES ASSUME i + 1 <= e, NEW j \in 0 .. i + 1
               PROVE  D[<<w[i + 1][j], w[i + 1][j] - (2 * j - (i + 1))>>] <= i + 1
    OBVIOUS
  <2>1. \A h \in 0 .. i : D[<<w[i][h], w[i][h] - (2 * h - i)>>] <= i
    BY <1>3
  <2> HIDE DEF S, Ok
  <2>2. i \in 0 .. e /\ i + 1 \in 0 .. e /\ (i + 1) - 1 = i /\ i + 1 # 0
    OBVIOUS
  <2>3. \A h \in 0 .. i : w[i][h] \in Nat /\ w[i][h] >= 2 * h - i
    BY <1>0, <2>2 DEF Moved
  <2>4. PICK s : s = Start(w, i + 1, j)
    OBVIOUS
  <2>5. D[<<s, s - (2 * j - (i + 1))>>] <= i + 1
    <3>1. CASE Down(w, i + 1, j)
      <4>1. j \in 0 .. i
        <5>1. j = 0 \/ j # i + 1
          BY <3>1 DEF Down
        <5> QED
          BY <5>1
      <4>2. s = w[i][j]
        BY <2>2, <2>4, <3>1 DEF Start
      <4>3. PICK x \in Nat, y \in Nat : x = w[i][j] /\ y = w[i][j] - (2 * j - i)
        <5>1. w[i][j] - (2 * j - i) \in Nat
          BY <2>3, <4>1
        <5> QED
          BY <2>3, <4>1, <5>1
      <4>4. D[<<x, y>>] <= i
        BY <2>1, <4>1, <4>3
      <4>5. y + 1 = x - (2 * j - (i + 1))
        BY <4>3
      <4>6. D[<<x, y + 1>>] <= D[<<x, y>>] + 1 /\ D[<<x, y>>] \in Nat
        BY DistancesNear DEF Near
      <4>7. D[<<x, y + 1>>] \in Nat
        <5>1. y + 1 \in Nat
          OBVIOUS
        <5> QED
          BY <5>1, DistancesNear DEF Near
      <4>8. D[<<x, y + 1>>] <= i + 1
        BY <4>4, <4>6, <4>7
      <4>9. s = x
        BY <4>2, <4>3
      <4>10. <<s, s - (2 * j - (i + 1))>> = <<x, y + 1>>
        BY <4>5, <4>9
      <4> QED
        BY <4>8, <4>10, Zenon
    <3>2. CASE ~Down(w, i + 1, j)
      <4>1. j - 1 \in 0 .. i
        <5>1. j # 0
          BY <3>2 DEF Down
        <5> QED
          BY <5>1
      <4>2. s = w[i][j - 1] + 1
        BY <2>2, <2>4, <3>2 DEF Start
      <4>3. PICK x \in Nat, y \in Nat : x = w[i][j - 1] /\ y = w[i][j - 1] - (2 * (j - 1) - i)
        <5>1. w[i][j - 1] - (2 * (j - 1) - i) \in Nat
          BY <2>3, <4>1
        <5> QED
          BY <2>3, <4>1, <5>1
      <4>4. D[<<x, y>>] <= i
        BY <2>1, <4>1, <4>3
      <4>5. y = x + 1 - (2 * j - (i + 1))
        BY <4>3
      <4>6. D[<<x + 1, y>>] <= D[<<x, y>>] + 1 /\ D[<<x, y>>] \in Nat
        BY DistancesNear DEF Near
      <4>7. D[<<x + 1, y>>] \in Nat
        <5>1. x + 1 \in Nat
          OBVIOUS
        <5> QED
          BY <5>1, DistancesNear DEF Near
      <4>8. D[<<x + 1, y>>] <= i + 1
        BY <4>4, <4>6, <4>7
      <4>9. s = x + 1
        BY <4>2, <4>3
      <4>10. <<s, s - (2 * j - (i + 1))>> = <<x + 1, y>>
        BY <4>5, <4>9
      <4> QED
        BY <4>8, <4>10, Zenon
    <3> QED
      BY <3>1, <3>2, Zenon
  <2> QED
    BY <1>1, <2>2, <2>4, <2>5
<1> SUFFICES ASSUME NEW d \in 0 .. e PROVE Ok(d)
  OBVIOUS
<1>4. d \in S
  <2> HIDE DEF S
  <2>1. \A i \in 0 .. d - 1 : i \in S => i + 1 \in S
    BY <1>3
  <2>2. 0 .. d \subseteq S
    BY <1>2, <2>1, UpTo
  <2> QED
    BY <2>2
<1> QED
  BY <1>4

(* Whatever d edits allow is reached.                                      *)
LEMMA Complete ==
  ASSUME NEW a, NEW b, Len(a) \in Nat, Len(b) \in Nat, NEW e \in Nat, NEW w, Reach(w, a, b, e),
         NEW D, Distances(D, a, b)
  PROVE  \A x, y \in Nat : \A d \in 0 .. e : \A j \in 0 .. d :
           D[<<x, y>>] <= d /\ x - y = 2 * j - d => w[d][j] >= x
<1> DEFINE Ok(x, y) == \A d \in 0 .. e : \A j \in 0 .. d :
                         D[<<x, y>>] <= d /\ x - y = 2 * j - d => w[d][j] >= x
           S == {s \in Nat : \A x, y \in Nat : x + y = s => Ok(x, y)}
<1>0. \A d \in 0 .. e : \A j \in 0 .. d : Moved(w, a, b, d, j)
  BY Moves
<1>1. ASSUME NEW s \in Nat, \A t \in 0 .. s - 1 : t \in S PROVE s \in S
  <2> SUFFICES ASSUME NEW x \in Nat, NEW y \in Nat, x + y = s,
                      NEW d \in 0 .. e, NEW j \in 0 .. d,
                      D[<<x, y>>] <= d, x - y = 2 * j - d
               PROVE  w[d][j] >= x
    OBVIOUS
  <2>1. ASSUME NEW u \in Nat, NEW v \in Nat, u + v < s PROVE Ok(u, v)
    <3>1. u + v \in 0 .. s - 1
      BY <2>1
    <3> QED
      BY <1>1, <3>1
  <2> HIDE DEF S
  <2>2. Moved(w, a, b, d, j)
    BY <1>0
  <2>3. PICK z \in Nat : z = w[d][j]
    BY <2>2 DEF Moved
  <2>4. Comes(D, a, b, x, y)
    BY DEF Distances
  <2>5. D[<<x, y>>] \in Nat
    BY DistancesNear DEF Near
  <2>6. CASE x = 0 /\ y = 0
    BY <2>3, <2>6
  <2>7. CASE x > 0 /\ y > 0 /\ Same(a, b, x - 1, y - 1) /\ D[<<x, y>>] = D[<<x - 1, y - 1>>]
    <3>1. PICK u \in Nat, v \in Nat : u = x - 1 /\ v = y - 1
      <4>1. x - 1 \in Nat /\ y - 1 \in Nat
        BY <2>7
      <4> QED
        BY <4>1
    <3>2. u + v < s /\ u - v = 2 * j - d /\ x = u + 1 /\ y = v + 1
      BY <3>1
    <3>3. D[<<u, v>>] <= d
      BY <2>7, <3>1
    <3>4. z >= u
      BY <2>1, <2>3, <3>2, <3>3
    <3>5. CASE z = u
      <4>1. PICK r \in 0 .. Len(a) : w[d][j] = Start(w, d, j) + r /\ Run(a, b, Start(w, d, j), 2 * j - d, r)
        BY <2>2 DEF Moved
      <4>2. PICK q \in Nat : q = Start(w, d, j)
        BY <2>2 DEF Moved
      <4>3. q + (r + 1) = u + 1 /\ q - (2 * j - d) + (r + 1) = v + 1
        <5>1. r \in Nat /\ j \in Nat /\ d \in Nat
          OBVIOUS
        <5>2. q + r = u
          BY <2>3, <3>5, <4>1, <4>2
        <5>3. u - v = 2 * j - d
          BY <3>2
        <5> QED
          BY <5>1, <5>2, <5>3
      <4>4. ~(u + 1 <= Len(a) /\ v + 1 <= Len(b) /\ a[u + 1] = b[v + 1])
        BY <4>1, <4>2, <4>3 DEF Run
      <4>5. Same(a, b, u, v)
        BY <2>7, <3>1
      <4> QED
        BY <4>4, <4>5 DEF Same
    <3>6. CASE z # u
      <4>1. z >= u + 1
        BY <3>4, <3>6
      <4> QED
        BY <2>3, <3>2, <4>1
    <3> QED
      BY <3>5, <3>6
  <2>8. CASE x > 0 /\ D[<<x, y>>] = D[<<x - 1, y>>] + 1
    <3>1. PICK u \in Nat : u = x - 1
      <4>1. x - 1 \in Nat
        BY <2>8
      <4> QED
        BY <4>1
    <3>2. PICK c \in Nat : c = D[<<u, y>>] /\ c >= u - y /\ c >= y - u
      BY DistancesNear DEF Near
    <3>3. c + 1 <= d
      BY <2>8, <3>1, <3>2
    <3>4. d - 1 \in 0 .. e /\ j - 1 \in 0 .. d - 1 /\ c <= d - 1 /\ u + y < s /\ u - y = 2 * (j - 1) - (d - 1)
      BY <3>1, <3>2, <3>3
    <3>5. w[d - 1][j - 1] >= u
      BY <2>1, <3>2, <3>4
    <3>6. j > 0 /\ w[d][j] >= w[d - 1][j - 1] + 1
      <4>1. j > 0
        BY <3>4
      <4> QED
        BY <2>2, <4>1 DEF Moved
    <3>7. PICK q \in Nat : q = w[d - 1][j - 1]
      <4>1. Moved(w, a, b, d - 1, j - 1)
        BY <1>0, <3>4
      <4> QED
        BY <4>1 DEF Moved
    <3>8. q >= u /\ z >= q + 1
      BY <2>3, <3>5, <3>6, <3>7
    <3>9. z >= x
      BY <3>1, <3>8
    <3> QED
      BY <2>3, <3>9
  <2>9. CASE y > 0 /\ D[<<x, y>>] = D[<<x, y - 1>>] + 1
    <3>1. PICK v \in Nat : v = y - 1
      <4>1. y - 1 \in Nat
        BY <2>9
      <4> QED
        BY <4>1
    <3>2. PICK c \in Nat : c = D[<<x, v>>] /\ c >= x - v /\ c >= v - x
      BY DistancesNear DEF Near
    <3>3. c + 1 <= d
      BY <2>9, <3>1, <3>2
    <3>4. d - 1 \in 0 .. e /\ j \in 0 .. d - 1 /\ c <= d - 1 /\ x + v < s /\ x - v = 2 * j - (d - 1)
      BY <3>1, <3>2, <3>3
    <3>5. w[d - 1][j] >= x
      BY <2>1, <3>2, <3>4
    <3>6. j < d /\ w[d][j] >= w[d - 1][j]
      <4>1. j < d
        BY <3>4
      <4> QED
        BY <2>2, <4>1 DEF Moved
    <3>7. PICK q \in Nat : q = w[d - 1][j]
      <4>1. Moved(w, a, b, d - 1, j)
        BY <1>0, <3>4
      <4> QED
        BY <4>1 DEF Moved
    <3>8. q >= x /\ z >= q
      BY <2>3, <3>5, <3>6, <3>7
    <3>9. z >= x
      BY <3>8
    <3> QED
      BY <2>3, <3>9
  <2> QED
    BY <2>4, <2>6, <2>7, <2>8, <2>9 DEF Comes
<1>2. Nat \subseteq S
  <2> HIDE DEF S
  <2> QED
    BY <1>1, AllNumbers
<1> SUFFICES ASSUME NEW x \in Nat, NEW y \in Nat PROVE Ok(x, y)
  OBVIOUS
<1>3. x + y \in S
  <2> HIDE DEF S
  <2> QED
    BY <1>2
<1> QED
  BY <1>3

(* A diagonal has reached the ends of both arrays.                         *)
AtEnd(w, a, b, d, j) == w[d][j] >= Len(a) /\ w[d][j] - (2 * j - d) >= Len(b)

(* The end is first reached with as many edits as the distance says, and   *)
(* then exactly.                                                           *)
LEMMA EndsAtDistance ==
  ASSUME NEW a, NEW b, Len(a) \in Nat, Len(b) \in Nat, NEW e \in Nat, NEW w, Reach(w, a, b, e)
  PROVE  /\ EditDistance(a, b) \in 0 .. Len(a) + Len(b)
         /\ \A d \in 0 .. e : \A j \in 0 .. d : AtEnd(w, a, b, d, j) =>
              /\ d >= EditDistance(a, b)
              /\ d = EditDistance(a, b) => w[d][j] = Len(a) /\ Len(a) - Len(b) = 2 * j - d
         /\ EditDistance(a, b) <= e =>
              \E j \in 0 .. EditDistance(a, b) : AtEnd(w, a, b, EditDistance(a, b), j)
<1> DEFINE n == Len(a)
           m == Len(b)
           l == EditDistance(a, b)
           C == Common(a, b)
<1>1. C \in 0 .. n /\ C <= m
  BY DistancesExist
<1>2. PICK D : Distances(D, a, b)
  BY DistancesExist
<1>3. l = n + m - 2 * C
  BY DEF EditDistance
<1> HIDE DEF l, C
<1>4. l \in 0 .. n + m
  BY <1>1, <1>3
<1>5. \A d \in 0 .. e : \A j \in 0 .. d : Moved(w, a, b, d, j)
  BY Moves
<1>6. \A x, y \in Nat : x >= n /\ y >= m => D[<<x, y>>] = l + (x - n) + (y - m)
  BY <1>2 DEF Distances, l
<1>7. ASSUME NEW d \in 0 .. e, NEW j \in 0 .. d, AtEnd(w, a, b, d, j)
      PROVE  d >= l /\ (d = l => w[d][j] = n /\ n - m = 2 * j - d)
  <2>1. Moved(w, a, b, d, j)
    BY <1>5
  <2>2. PICK x \in Nat : x = w[d][j] /\ x >= 2 * j - d
    BY <2>1 DEF Moved
  <2>3. PICK y \in Nat : y = x - (2 * j - d)
    <3>1. x - (2 * j - d) \in Nat
      BY <2>2
    <3> QED
      BY <3>1
  <2>4. x >= n /\ y >= m
    BY <1>7, <2>2, <2>3 DEF AtEnd
  <2>5. D[<<x, y>>] <= d
    BY <1>2, <2>2, <2>3, Sound
  <2>6. l + (x - n) + (y - m) <= d
    BY <1>6, <2>4, <2>5
  <2>7. d >= l /\ (d = l => x = n /\ y = m)
    BY <1>4, <2>4, <2>6
  <2> QED
    BY <2>2, <2>3, <2>7
<1>8. ASSUME l <= e PROVE \E j \in 0 .. l : AtEnd(w, a, b, l, j)
  <2>1. PICK j \in 0 .. l : j = n - C
    <3>1. n - C \in 0 .. l
      BY <1>1, <1>3
    <3> QED
      BY <3>1
  <2>2. n - m = 2 * j - l
    BY <1>1, <1>3, <2>1
  <2>3. D[<<n, m>>] = l
    BY <1>4, <1>6
  <2>4. l \in 0 .. e /\ l <= l
    BY <1>4, <1>8
  <2>5. w[l][j] >= n
    BY <1>2, <2>2, <2>3, <2>4, Complete
  <2>6. PICK x \in Nat : x = w[l][j]
    <3>1. Moved(w, a, b, l, j)
      BY <1>5, <2>4
    <3> QED
      BY <3>1 DEF Moved
  <2>7. x - (2 * j - l) >= m /\ x >= n
    BY <2>2, <2>5, <2>6
  <2>8. AtEnd(w, a, b, l, j)
    BY <2>6, <2>7 DEF AtEnd
  <2> QED
    BY <2>8
<1>9. l \in 0 .. Len(a) + Len(b)
  BY <1>4
<1> QED
  BY <1>7, <1>8, <1>9 DEF l

-----------------------------------------------------------------------------
(* The loops: a recursive function over its range satisfies its equation.  *)

Sweeps(f, a, b, d, costs) ==
  /\ Sweep(a, b, d, costs) = f[d + 1]
  /\ f[0] = [costs |-> costs, cont |-> TRUE]
  /\ \A i \in 1 .. d + 1 : f[i] = Advance(a, b, d, 2 * (i - 1) - d, f[i - 1])

Searches(f, a, b, rounds) ==
  /\ Search(a, b, rounds) = f[rounds]
  /\ f[0] = [costs |-> [i \in 1 .. RowLength(a, b) |-> 0], cont |-> TRUE, trace |-> <<>>]
  /\ \A i \in 1 .. rounds : f[i] = Round(a, b, i - 1, f[i - 1])

WalksBack(f, a, b, trace, rows) ==
  /\ Points(a, b, trace, rows) = f[rows].points
  /\ f[0] = [x |-> Len(a), y |-> Len(b), points |-> <<>>]
  /\ \A i \in 1 .. rows : f[i] = Back(trace[rows - i + 1], rows - i, f[i - 1])

Keeps(f, edits, actions) ==
  /\ Kept(edits, actions) = f[Len(edits)]
  /\ f[0] = <<>>
  /\ \A i \in 1 .. Len(edits) :
       f[i] = IF edits[i].action \in actions THEN Append(f[i - 1], edits[i].val) ELSE f[i - 1]

(* The loop of Sweep.                                                      *)
LEMMA SweepSteps ==
  ASSUME NEW a, NEW b, NEW d \in Nat, NEW costs
  PROVE  \E f : Sweeps(f, a, b, d, costs)
<1> DEFINE n == d + 1
           start == [costs |-> costs, cont |-> TRUE]
           E(i, v) == Advance(a, b, d, 2 * (i - 1) - d, v)
           Is(f) == f = [i \in 0 .. n |-> IF i = 0 THEN start ELSE E(i, f[i - 1])]
           S == {k \in Nat : \E f : f[0] = start /\ \A i \in 1 .. k : f[i] = E(i, f[i - 1])}
<1>1. n \in Nat
  OBVIOUS
<1>2. \E f : Is(f)
  <2> HIDE DEF start, E
  <2>1. 0 \in S
    <3>1. PICK f : f = [i \in 0 .. 0 |-> start]
      OBVIOUS
    <3>2. f[0] = start /\ \A i \in 1 .. 0 : f[i] = E(i, f[i - 1])
      BY <3>1
    <3> QED
      BY <3>2
  <2>2. ASSUME NEW k \in Nat, k \in S PROVE k + 1 \in S
    <3>1. PICK f : f[0] = start /\ \A i \in 1 .. k : f[i] = E(i, f[i - 1])
      BY <2>2
    <3>2. PICK g : g = [i \in 0 .. k + 1 |-> IF i = k + 1 THEN E(i, f[k]) ELSE f[i]]
      OBVIOUS
    <3>3. g[k + 1] = E(k + 1, f[k]) /\ \A i \in 0 .. k : g[i] = f[i]
      BY <3>2
    <3>4. g[0] = start
      BY <3>1, <3>3
    <3>5. ASSUME NEW i \in 1 .. k + 1 PROVE g[i] = E(i, g[i - 1])
      <4>1. i - 1 \in 0 .. k /\ (k + 1) - 1 = k
        OBVIOUS
      <4>2. CASE i = k + 1
        BY <3>3, <4>1, <4>2
      <4>3. CASE i # k + 1
        <5>1. i \in 1 .. k /\ i \in 0 .. k
          BY <4>3
        <5> QED
          BY <3>1, <3>3, <4>1, <5>1
      <4> QED
        BY <4>2, <4>3
    <3> QED
      BY <3>4, <3>5
  <2>3. n \in S
    <3> HIDE DEF S, n
    <3>1. \A i \in 0 .. n - 1 : i \in S => i + 1 \in S
      BY <1>1, <2>2
    <3>2. 0 .. n \subseteq S
      BY <1>1, <2>1, <3>1, UpTo
    <3> QED
      BY <1>1, <3>2
  <2> HIDE DEF n
  <2>4. PICK f : f[0] = start /\ \A i \in 1 .. n : f[i] = E(i, f[i - 1])
    BY <2>3
  <2>5. PICK g : g = [i \in 0 .. n |-> f[i]]
    OBVIOUS
  <2>6. \A i \in 0 .. n : g[i] = f[i]
    BY <2>5
  <2>7. ASSUME NEW i \in 0 .. n PROVE f[i] = IF i = 0 THEN start ELSE E(i, g[i - 1])
    <3>1. CASE i = 0
      BY <2>4, <3>1
    <3>2. CASE i # 0
      <4>1. i \in 1 .. n /\ i - 1 \in 0 .. n
        BY <1>1, <3>2
      <4> QED
        BY <2>4, <2>6, <3>2, <4>1
    <3> QED
      BY <3>1, <3>2
  <2>8. g = [i \in 0 .. n |-> IF i = 0 THEN start ELSE E(i, g[i - 1])]
    BY <2>5, <2>7
  <2> QED
    BY <2>8
<1> DEFINE f == CHOOSE f : Is(f)
<1>3. Is(f)
  <2> HIDE DEF Is
  <2> QED
    BY <1>2, Zenon
<1>4. Sweep(a, b, d, costs) = f[d + 1]
  BY DEF Sweep
<1> HIDE DEF f
<1>5. f[0] = start /\ \A i \in 1 .. n : f[i] = E(i, f[i - 1])
  <2> HIDE DEF start, E, n
  <2>1. \A i \in 0 .. n : f[i] = IF i = 0 THEN start ELSE E(i, f[i - 1])
    BY <1>3
  <2>2. 0 \in 0 .. n /\ \A i \in 1 .. n : i \in 0 .. n /\ i # 0
    BY <1>1
  <2> QED
    BY <2>1, <2>2
<1> QED
  BY <1>4, <1>5 DEF Sweeps

(* The loop of Search.                                                     *)
LEMMA SearchSteps ==
  ASSUME NEW a, NEW b, NEW rounds \in Nat
  PROVE  \E f : Searches(f, a, b, rounds)
<1> DEFINE n == rounds
           start == [costs |-> [i \in 1 .. RowLength(a, b) |-> 0], cont |-> TRUE, trace |-> <<>>]
           E(i, v) == Round(a, b, i - 1, v)
           Is(f) == f = [i \in 0 .. n |-> IF i = 0 THEN start ELSE E(i, f[i - 1])]
           S == {k \in Nat : \E f : f[0] = start /\ \A i \in 1 .. k : f[i] = E(i, f[i - 1])}
<1>1. n \in Nat
  OBVIOUS
<1>2. \E f : Is(f)
  <2> HIDE DEF start, E
  <2>1. 0 \in S
    <3>1. PICK f : f = [i \in 0 .. 0 |-> start]
      OBVIOUS
    <3>2. f[0] = start /\ \A i \in 1 .. 0 : f[i] = E(i, f[i - 1])
      BY <3>1
    <3> QED
      BY <3>2
  <2>2. ASSUME NEW k \in Nat, k \in S PROVE k + 1 \in S
    <3>1. PICK f : f[0] = start /\ \A i \in 1 .. k : f[i] = E(i, f[i - 1])
      BY <2>2
    <3>2. PICK g : g = [i \in 0 .. k + 1 |-> IF i = k + 1 THEN E(i, f[k]) ELSE f[i]]
      OBVIOUS
    <3>3. g[k + 1] = E(k + 1, f[k]) /\ \A i \in 0 .. k : g[i] = f[i]
      BY <3>2
    <3>4. g[0] = start
      BY <3>1, <3>3
    <3>5. ASSUME NEW i \in 1 .. k + 1 PROVE g[i] = E(i, g[i - 1])
      <4>1. i - 1 \in 0 .. k /\ (k + 1) - 1 = k
        OBVIOUS
      <4>2. CASE i = k + 1
        BY <3>3, <4>1, <4>2
      <4>3. CASE i # k + 1
        <5>1. i \in 1 .. k /\ i \in 0 .. k
          BY <4>3
        <5> QED
          BY <3>1, <3>3, <4>1, <5>1
      <4> QED
        BY <4>2, <4>3
    <3> QED
      BY <3>4, <3>5
  <2>3. n \in S
    <3> HIDE DEF S, n
    <3>1. \A i \in 0 .. n - 1 : i \in S => i + 1 \in S
      BY <1>1, <2>2
    <3>2. 0 .. n \subseteq S
      BY <1>1, <2>1, <3>1, UpTo
    <3> QED
      BY <1>1, <3>2
  <2> HIDE DEF n
  <2>4. PICK f : f[0] = start /\ \A i \in 1 .. n : f[i] = E(i, f[i - 1])
    BY <2>3
  <2>5. PICK g : g = [i \in 0 .. n |-> f[i]]
    OBVIOUS
  <2>6. \A i \in 0 .. n : g[i] = f[i]
    BY <2>5
  <2>7. ASSUME NEW i \in 0 .. n PROVE f[i] = IF i = 0 THEN start ELSE E(i, g[i - 1])
    <3>1. CASE i = 0
      BY <2>4, <3>1
    <3>2. CASE i # 0
      <4>1. i \in 1 .. n /\ i - 1 \in 0 .. n
        BY <1>1, <3>2
      <4> QED
        BY <2>4, <2>6, <3>2, <4>1
    <3> QED
      BY <3>1, <3>2
  <2>8. g = [i \in 0 .. n |-> IF i = 0 THEN start ELSE E(i, g[i - 1])]
    BY <2>5, <2>7
  <2> QED
    BY <2>8
<1> DEFINE f == CHOOSE f : Is(f)
<1>3. Is(f)
  <2> HIDE DEF Is
  <2> QED
    BY <1>2, Zenon
<1>4. Search(a, b, rounds) = f[rounds]
  BY DEF Search
<1> HIDE DEF f
<1>5. f[0] = start /\ \A i \in 1 .. n : f[i] = E(i, f[i - 1])
  <2> HIDE DEF start, E, n
  <2>1. \A i \in 0 .. n : f[i] = IF i = 0 THEN start ELSE E(i, f[i - 1])
    BY <1>3
  <2>2. 0 \in 0 .. n /\ \A i \in 1 .. n : i \in 0 .. n /\ i # 0
    BY <1>1
  <2> QED
    BY <2>1, <2>2
<1> QED
  BY <1>4, <1>5 DEF Searches

(* The loop of Points.                                                     *)
LEMMA PointsSteps ==
  ASSUME NEW a, NEW b, NEW trace, NEW rows \in Nat
  PROVE  \E f : WalksBack(f, a, b, trace, rows)
<1> DEFINE n == rows
           start == [x |-> Len(a), y |-> Len(b), points |-> <<>>]
           E(i, v) == Back(trace[rows - i + 1], rows - i, v)
           Is(f) == f = [i \in 0 .. n |-> IF i = 0 THEN start ELSE E(i, f[i - 1])]
           S == {k \in Nat : \E f : f[0] = start /\ \A i \in 1 .. k : f[i] = E(i, f[i - 1])}
<1>1. n \in Nat
  OBVIOUS
<1>2. \E f : Is(f)
  <2> HIDE DEF start, E
  <2>1. 0 \in S
    <3>1. PICK f : f = [i \in 0 .. 0 |-> start]
      OBVIOUS
    <3>2. f[0] = start /\ \A i \in 1 .. 0 : f[i] = E(i, f[i - 1])
      BY <3>1
    <3> QED
      BY <3>2
  <2>2. ASSUME NEW k \in Nat, k \in S PROVE k + 1 \in S
    <3>1. PICK f : f[0] = start /\ \A i \in 1 .. k : f[i] = E(i, f[i - 1])
      BY <2>2
    <3>2. PICK g : g = [i \in 0 .. k + 1 |-> IF i = k + 1 THEN E(i, f[k]) ELSE f[i]]
      OBVIOUS
    <3>3. g[k + 1] = E(k + 1, f[k]) /\ \A i \in 0 .. k : g[i] = f[i]
      BY <3>2
    <3>4. g[0] = start
      BY <3>1, <3>3
    <3>5. ASSUME NEW i \in 1 .. k + 1 PROVE g[i] = E(i, g[i - 1])
      <4>1. i - 1 \in 0 .. k /\ (k + 1) - 1 = k
        OBVIOUS
      <4>2. CASE i = k + 1
        BY <3>3, <4>1, <4>2
      <4>3. CASE i # k + 1
        <5>1. i \in 1 .. k /\ i \in 0 .. k
          BY <4>3
        <5> QED
          BY <3>1, <3>3, <4>1, <5>1
      <4> QED
        BY <4>2, <4>3
    <3> QED
      BY <3>4, <3>5
  <2>3. n \in S
    <3> HIDE DEF S, n
    <3>1. \A i \in 0 .. n - 1 : i \in S => i + 1 \in S
      BY <1>1, <2>2
    <3>2. 0 .. n \subseteq S
      BY <1>1, <2>1, <3>1, UpTo
    <3> QED
      BY <1>1, <3>2
  <2> HIDE DEF n
  <2>4. PICK f : f[0] = start /\ \A i \in 1 .. n : f[i] = E(i, f[i - 1])
    BY <2>3
  <2>5. PICK g : g = [i \in 0 .. n |-> f[i]]
    OBVIOUS
  <2>6. \A i \in 0 .. n : g[i] = f[i]
    BY <2>5
  <2>7. ASSUME NEW i \in 0 .. n PROVE f[i] = IF i = 0 THEN start ELSE E(i, g[i - 1])
    <3>1. CASE i = 0
      BY <2>4, <3>1
    <3>2. CASE i # 0
      <4>1. i \in 1 .. n /\ i - 1 \in 0 .. n
        BY <1>1, <3>2
      <4> QED
        BY <2>4, <2>6, <3>2, <4>1
    <3> QED
      BY <3>1, <3>2
  <2>8. g = [i \in 0 .. n |-> IF i = 0 THEN start ELSE E(i, g[i - 1])]
    BY <2>5, <2>7
  <2> QED
    BY <2>8
<1> DEFINE f == CHOOSE f : Is(f)
<1>3. Is(f)
  <2> HIDE DEF Is
  <2> QED
    BY <1>2, Zenon
<1>4. Points(a, b, trace, rows) = f[rows].points
  BY DEF Points
<1> HIDE DEF f
<1>5. f[0] = start /\ \A i \in 1 .. n : f[i] = E(i, f[i - 1])
  <2> HIDE DEF start, E, n
  <2>1. \A i \in 0 .. n : f[i] = IF i = 0 THEN start ELSE E(i, f[i - 1])
    BY <1>3
  <2>2. 0 \in 0 .. n /\ \A i \in 1 .. n : i \in 0 .. n /\ i # 0
    BY <1>1
  <2> QED
    BY <2>1, <2>2
<1> QED
  BY <1>4, <1>5 DEF WalksBack

(* The loop of Kept.                                                       *)
LEMMA KeptSteps ==
  ASSUME NEW edits, Len(edits) \in Nat, NEW actions
  PROVE  \E f : Keeps(f, edits, actions)
<1> DEFINE n == Len(edits)
           start == <<>>
           E(i, v) == IF edits[i].action \in actions THEN Append(v, edits[i].val) ELSE v
           Is(f) == f = [i \in 0 .. n |-> IF i = 0 THEN start ELSE E(i, f[i - 1])]
           S == {k \in Nat : \E f : f[0] = start /\ \A i \in 1 .. k : f[i] = E(i, f[i - 1])}
<1>1. n \in Nat
  OBVIOUS
<1>2. \E f : Is(f)
  <2> HIDE DEF start, E
  <2>1. 0 \in S
    <3>1. PICK f : f = [i \in 0 .. 0 |-> start]
      OBVIOUS
    <3>2. f[0] = start /\ \A i \in 1 .. 0 : f[i] = E(i, f[i - 1])
      BY <3>1
    <3> QED
      BY <3>2
  <2>2. ASSUME NEW k \in Nat, k \in S PROVE k + 1 \in S
    <3>1. PICK f : f[0] = start /\ \A i \in 1 .. k : f[i] = E(i, f[i - 1])
      BY <2>2
    <3>2. PICK g : g = [i \in 0 .. k + 1 |-> IF i = k + 1 THEN E(i, f[k]) ELSE f[i]]
      OBVIOUS
    <3>3. g[k + 1] = E(k + 1, f[k]) /\ \A i \in 0 .. k : g[i] = f[i]
      BY <3>2
    <3>4. g[0] = start
      BY <3>1, <3>3
    <3>5. ASSUME NEW i \in 1 .. k + 1 PROVE g[i] = E(i, g[i - 1])
      <4>1. i - 1 \in 0 .. k /\ (k + 1) - 1 = k
        OBVIOUS
      <4>2. CASE i = k + 1
        BY <3>3, <4>1, <4>2
      <4>3. CASE i # k + 1
        <5>1. i \in 1 .. k /\ i \in 0 .. k
          BY <4>3
        <5> QED
          BY <3>1, <3>3, <4>1, <5>1
      <4> QED
        BY <4>2, <4>3
    <3> QED
      BY <3>4, <3>5
  <2>3. n \in S
    <3> HIDE DEF S, n
    <3>1. \A i \in 0 .. n - 1 : i \in S => i + 1 \in S
      BY <1>1, <2>2
    <3>2. 0 .. n \subseteq S
      BY <1>1, <2>1, <3>1, UpTo
    <3> QED
      BY <1>1, <3>2
  <2> HIDE DEF n
  <2>4. PICK f : f[0] = start /\ \A i \in 1 .. n : f[i] = E(i, f[i - 1])
    BY <2>3
  <2>5. PICK g : g = [i \in 0 .. n |-> f[i]]
    OBVIOUS
  <2>6. \A i \in 0 .. n : g[i] = f[i]
    BY <2>5
  <2>7. ASSUME NEW i \in 0 .. n PROVE f[i] = IF i = 0 THEN start ELSE E(i, g[i - 1])
    <3>1. CASE i = 0
      BY <2>4, <3>1
    <3>2. CASE i # 0
      <4>1. i \in 1 .. n /\ i - 1 \in 0 .. n
        BY <1>1, <3>2
      <4> QED
        BY <2>4, <2>6, <3>2, <4>1
    <3> QED
      BY <3>1, <3>2
  <2>8. g = [i \in 0 .. n |-> IF i = 0 THEN start ELSE E(i, g[i - 1])]
    BY <2>5, <2>7
  <2> QED
    BY <2>8
<1> DEFINE f == CHOOSE f : Is(f)
<1>3. Is(f)
  <2> HIDE DEF Is
  <2> QED
    BY <1>2, Zenon
<1>4. Kept(edits, actions) = f[Len(edits)]
  BY DEF Kept
<1> HIDE DEF f
<1>5. f[0] = start /\ \A i \in 1 .. n : f[i] = E(i, f[i - 1])
  <2> HIDE DEF start, E, n
  <2>1. \A i \in 0 .. n : f[i] = IF i = 0 THEN start ELSE E(i, f[i - 1])
    BY <1>3
  <2>2. 0 \in 0 .. n /\ \A i \in 1 .. n : i \in 0 .. n /\ i # 0
    BY <1>1
  <2> QED
    BY <2>1, <2>2
<1> QED
  BY <1>4, <1>5 DEF Keeps

-----------------------------------------------------------------------------
(* Indices *)

(* The remainder of a number below the divisor.                            *)
LEMMA ModSmall ==
  ASSUME NEW x \in Nat, NEW y \in Nat, x < y
  PROVE  x % y = x
OBVIOUS

(* The remainder of a number below twice the divisor.                      *)
LEMMA ModOnce ==
  ASSUME NEW x \in Nat, NEW y \in Nat, y <= x, x < 2 * y
  PROVE  x % y = x - y
OBVIOUS

(* An IndexT keeps a number that fits.                                     *)
LEMMA IndexKeeps ==
  ASSUME NEW i \in Int, -MaxIndex <= i, i <= MaxIndex
  PROVE  IndexT(i) = i
<1> DEFINE h == 2^(IndexBits - 1)
<1>1. h \in Nat \ {0} /\ 2^IndexBits = 2 * h
  BY IndexAssumption
<1>2. MaxIndex = h - 1
  BY DEF MaxIndex
<1>3. IndexT(i) = ((i + h) % (2 * h)) - h
  BY <1>1 DEF IndexT
<1> HIDE DEF h
<1>4. i + h \in Nat /\ 2 * h \in Nat /\ i + h < 2 * h
  BY <1>1, <1>2
<1>5. (i + h) % (2 * h) = i + h
  BY <1>4, ModSmall
<1> QED
  BY <1>1, <1>3, <1>5

(* MaxIndex is a number.                                                   *)
LEMMA MaxIndexType == MaxIndex \in Nat
<1> DEFINE h == 2^(IndexBits - 1)
<1>1. h \in Nat \ {0}
  BY IndexAssumption
<1>2. MaxIndex = h - 1
  BY DEF MaxIndex
<1> HIDE DEF h
<1> QED
  BY <1>1, <1>2

(* The rows of two arrays are short enough for an IndexT.                  *)
Fit(a, b) == 2 * (Len(a) + Len(b)) + 1 <= MaxIndex

(* In arrays that fit, no index is cut and nothing is thrown.              *)
LEMMA RowsFit ==
  ASSUME NEW a, NEW b, Len(a) \in Nat, Len(b) \in Nat, Fit(a, b)
  PROVE  /\ MaxEdit(a, b) = Len(a) + Len(b)
         /\ RowLength(a, b) = 2 * (Len(a) + Len(b)) + 1
         /\ IndexT(RowLength(a, b)) = RowLength(a, b)
         /\ ~Throws(a, b)
<1>1. PICK s \in Nat : s = Len(a) + Len(b)
  <2>1. Len(a) + Len(b) \in Nat
    OBVIOUS
  <2> QED
    BY <2>1
<1>2. 2 * s + 1 <= MaxIndex /\ MaxIndex \in Nat
  BY <1>1, MaxIndexType DEF Fit
<1>3. IndexT(s) = s
  <2>1. s \in Int /\ -MaxIndex <= s /\ s <= MaxIndex
    BY <1>2
  <2> QED
    BY <2>1, IndexKeeps
<1>4. IndexT(2 * s + 1) = 2 * s + 1
  <2>1. 2 * s + 1 \in Int /\ -MaxIndex <= 2 * s + 1 /\ 2 * s + 1 <= MaxIndex
    BY <1>2
  <2> QED
    BY <2>1, IndexKeeps
<1>5. MaxEdit(a, b) = s
  BY <1>1, <1>3 DEF MaxEdit
<1>6. RowLength(a, b) = 2 * s + 1
  BY <1>5 DEF RowLength
<1>7. ~Throws(a, b)
  BY <1>5 DEF Throws
<1> QED
  BY <1>1, <1>4, <1>5, <1>6, <1>7

(* A negative diagonal counts from the end of the row.                     *)
LEMMA SlotIs ==
  ASSUME NEW row, NEW top \in Nat, Len(row) = 2 * top + 1, NEW k \in -top .. top
  PROVE  Slot(row, k) = IF k >= 0 THEN k + 1 ELSE 2 * top + 1 + k + 1
<1>1. PICK l \in Nat : l = 2 * top + 1
  <2>1. 2 * top + 1 \in Nat
    OBVIOUS
  <2> QED
    BY <2>1
<1>2. Slot(row, k) = ((l + k) % l) + 1
  BY <1>1 DEF Slot
<1>3. CASE k >= 0
  <2>1. l + k \in Nat /\ l <= l + k /\ l + k < 2 * l
    BY <1>1, <1>3
  <2>2. (l + k) % l = (l + k) - l
    BY <2>1, ModOnce
  <2> QED
    BY <1>2, <1>3, <2>2
<1>4. CASE k < 0
  <2>1. l + k \in Nat /\ l + k < l
    BY <1>1, <1>4
  <2>2. (l + k) % l = l + k
    BY <2>1, ModSmall
  <2> QED
    BY <1>1, <1>2, <1>4, <2>2
<1> QED
  BY <1>3, <1>4

(* A slot is one of the row.                                               *)
LEMMA SlotIsASlot ==
  ASSUME NEW row, NEW top \in Nat, Len(row) = 2 * top + 1, NEW k \in -top .. top
  PROVE  Slot(row, k) \in 1 .. 2 * top + 1
<1>1. Slot(row, k) = IF k >= 0 THEN k + 1 ELSE 2 * top + 1 + k + 1
  BY SlotIs
<1> QED
  BY <1>1

(* Two diagonals have different slots.                                     *)
LEMMA SlotsDiffer ==
  ASSUME NEW row, NEW top \in Nat, Len(row) = 2 * top + 1,
         NEW k \in -top .. top, NEW l \in -top .. top, k # l
  PROVE  Slot(row, k) # Slot(row, l)
<1>1. Slot(row, k) = IF k >= 0 THEN k + 1 ELSE 2 * top + 1 + k + 1
  BY SlotIs
<1>2. Slot(row, l) = IF l >= 0 THEN l + 1 ELSE 2 * top + 1 + l + 1
  BY SlotIs
<1> QED
  BY <1>1, <1>2

-----------------------------------------------------------------------------
(* A row of costs holds what the edits so far reach. *)

(* The two arrays are short enough, and w is what the algorithm reaches.   *)
Setting(a, b, w) ==
  /\ Len(a) \in Nat /\ Len(b) \in Nat /\ Fit(a, b)
  /\ Reach(w, a, b, Len(a) + Len(b))

(* d edits reach at most d beyond the end of the first array.              *)
LEMMA ReachIsBounded ==
  ASSUME NEW a, NEW b, NEW w, Setting(a, b, w)
  PROVE  \A d \in 0 .. Len(a) + Len(b) : \A j \in 0 .. d :
           w[d][j] \in Nat /\ w[d][j] <= Len(a) + d /\ w[d][j] >= 2 * j - d
<1>1. Len(a) \in Nat /\ Len(b) \in Nat /\ Reach(w, a, b, Len(a) + Len(b))
  BY DEF Setting
<1>2. PICK e \in Nat : e = Len(a) + Len(b)
  <2>1. Len(a) + Len(b) \in Nat
    BY <1>1
  <2> QED
    BY <2>1
<1>3. PICK D : Distances(D, a, b)
  BY <1>1, DistancesExist
<1>4. \A d \in 0 .. e : \A j \in 0 .. d : Moved(w, a, b, d, j)
  BY <1>1, <1>2, Moves
<1>5. \A d \in 0 .. e : \A j \in 0 .. d : D[<<w[d][j], w[d][j] - (2 * j - d)>>] <= d
  BY <1>1, <1>2, <1>3, Sound
<1> SUFFICES ASSUME NEW d \in 0 .. e, NEW j \in 0 .. d
             PROVE  w[d][j] \in Nat /\ w[d][j] <= Len(a) + d /\ w[d][j] >= 2 * j - d
  BY <1>2
<1>6. PICK x \in Nat : x = w[d][j] /\ x >= 2 * j - d
  <2>1. Moved(w, a, b, d, j)
    BY <1>4
  <2> QED
    BY <2>1 DEF Moved
<1>7. PICK y \in Nat : y = x - (2 * j - d)
  <2>1. x - (2 * j - d) \in Nat
    BY <1>6
  <2> QED
    BY <2>1
<1>8. D[<<x, y>>] <= d
  BY <1>5, <1>6, <1>7
<1>9. Near(D, a, x, y)
  BY <1>3, DistancesNear
<1>10. PICK c \in Nat : c = D[<<x, y>>] /\ c >= x - Len(a)
  BY <1>9 DEF Near
<1>11. x <= Len(a) + d
  BY <1>1, <1>8, <1>10
<1> QED
  BY <1>6, <1>11

IsRow(c, top) == c \in Seq(Nat) /\ Len(c) = 2 * top + 1

(* The row holds what d - 1 edits reach.                                   *)
Found(c, w, d) == \A j \in 0 .. d - 1 : c[Slot(c, 2 * j - (d - 1))] = w[d - 1][j]

Zeros(c) == \A i \in 1 .. Len(c) : c[i] = 0

(* The row with which the round of d edits starts.                         *)
Row(c, w, d, top) ==
  IsRow(c, top) /\ (d = 0 => Zeros(c)) /\ (d > 0 => Found(c, w, d))

(* The algorithm chooses the edit that reaches further.                    *)
LEMMA ChoiceIs ==
  ASSUME NEW c, NEW w, NEW d \in Nat, NEW j \in 0 .. d, d > 0 => Found(c, w, d)
  PROVE  GoesDown(c, d, 2 * j - d) <=> d = 0 \/ Down(w, d, j)
<1>1. PICK k \in Int : k = 2 * j - d
  <2>1. 2 * j - d \in Int
    OBVIOUS
  <2> QED
    BY <2>1
<1>2. (k = -d <=> j = 0) /\ (k = d <=> j = d)
  BY <1>1
<1>3. CASE d = 0
  BY <1>1, <1>2, <1>3 DEF GoesDown
<1>4. CASE d > 0
  <2>1. ASSUME j # 0, j # d
        PROVE  c[Slot(c, k - 1)] = w[d - 1][j - 1] /\ c[Slot(c, k + 1)] = w[d - 1][j]
    <3>1. j - 1 \in 0 .. d - 1 /\ j \in 0 .. d - 1
      BY <2>1
    <3>2. 2 * (j - 1) - (d - 1) = k - 1 /\ 2 * j - (d - 1) = k + 1
      BY <1>1
    <3>3. \A h \in 0 .. d - 1 : c[Slot(c, 2 * h - (d - 1))] = w[d - 1][h]
      BY <1>4 DEF Found
    <3> QED
      BY <3>1, <3>2, <3>3
  <2>2. GoesDown(c, d, k) <=> Down(w, d, j)
    <3>1. GoesDown(c, d, k) <=> j = 0 \/ (j # d /\ c[Slot(c, k - 1)] < c[Slot(c, k + 1)])
      BY <1>2, Zenon DEF GoesDown
    <3>2. CASE j # 0 /\ j # d
      BY <2>1, <3>1, <3>2, Zenon DEF Down
    <3>3. CASE j = 0 \/ j = d
      BY <3>1, <3>3, Zenon DEF Down
    <3> QED
      BY <3>2, <3>3
  <2>3. d # 0
    BY <1>4
  <2> QED
    BY <1>1, <2>2, <2>3, Zenon
<1> QED
  BY <1>3, <1>4

(* Where an edit ends, by the row and by what d edits reach.               *)
LEMMA ReachedIs ==
  ASSUME NEW a, NEW b, NEW w, Setting(a, b, w), NEW d \in 0 .. Len(a) + Len(b), NEW j \in 0 .. d
  PROVE  \A c : (d = 0 => c[Slot(c, 1)] = 0) /\ (d > 0 => Found(c, w, d))
                  => Reached(c, d, 2 * j - d) = Start(w, d, j)
<1> SUFFICES ASSUME NEW c, d = 0 => c[Slot(c, 1)] = 0, d > 0 => Found(c, w, d)
             PROVE  Reached(c, d, 2 * j - d) = Start(w, d, j)
  OBVIOUS
<1>0. Len(a) \in Nat /\ Len(b) \in Nat /\ 2 * (Len(a) + Len(b)) + 1 <= MaxIndex
  BY DEF Setting, Fit
<1>1. PICK k \in Int : k = 2 * j - d
  <2>1. d \in Nat /\ j \in Nat
    BY <1>0
  <2>2. 2 * j - d \in Int
    BY <2>1
  <2> QED
    BY <2>2
<1>2. GoesDown(c, d, k) <=> d = 0 \/ Down(w, d, j)
  <2>1. d \in Nat
    BY <1>0
  <2> QED
    BY <1>1, <2>1, ChoiceIs
<1>3. CASE d = 0
  <2>1. GoesDown(c, d, k) /\ k + 1 = 1
    BY <1>1, <1>2, <1>3
  <2>2. Reached(c, d, k) = c[Slot(c, 1)]
    BY <2>1 DEF Reached
  <2> QED
    BY <1>1, <1>3, <2>2 DEF Start
<1>4. CASE d > 0
  <2>0. d # 0 /\ d - 1 \in 0 .. Len(a) + Len(b) /\ d \in Nat
    BY <1>0, <1>4
  <2>1. \A h \in 0 .. d - 1 : c[Slot(c, 2 * h - (d - 1))] = w[d - 1][h]
    BY <1>4 DEF Found
  <2>2. CASE Down(w, d, j)
    <3>1. j \in 0 .. d - 1
      <4>1. j = 0 \/ j # d
        BY <2>2 DEF Down
      <4> QED
        BY <1>4, <2>0, <4>1
    <3>2. 2 * j - (d - 1) = k + 1
      BY <1>1, <2>0
    <3>3. c[Slot(c, k + 1)] = w[d - 1][j]
      BY <2>1, <3>1, <3>2
    <3>4. Reached(c, d, k) = c[Slot(c, k + 1)]
      BY <1>2, <2>2, Zenon DEF Reached
    <3>5. Start(w, d, j) = w[d - 1][j]
      BY <2>0, <2>2, Zenon DEF Start
    <3> QED
      BY <1>1, <3>3, <3>4, <3>5
  <2>3. CASE ~Down(w, d, j)
    <3>1. j - 1 \in 0 .. d - 1
      <4>1. j # 0
        BY <2>3 DEF Down
      <4> QED
        BY <2>0, <4>1
    <3>2. 2 * (j - 1) - (d - 1) = k - 1
      BY <1>1, <2>0
    <3>3. c[Slot(c, k - 1)] = w[d - 1][j - 1]
      BY <2>1, <3>1, <3>2
    <3>4. Reached(c, d, k) = IndexT(c[Slot(c, k - 1)] + 1)
      BY <1>2, <2>0, <2>3, Zenon DEF Reached
    <3>5. Start(w, d, j) = w[d - 1][j - 1] + 1
      BY <2>0, <2>3, Zenon DEF Start
    <3>6. PICK q \in Nat : q = w[d - 1][j - 1] /\ q <= Len(a) + (d - 1)
      BY <2>0, <3>1, ReachIsBounded
    <3>7. q + 1 \in Int /\ -MaxIndex <= q + 1 /\ q + 1 <= MaxIndex
      <4>1. PICK n \in Nat, m \in Nat, top \in Nat :
              n = Len(a) /\ m = Len(b) /\ top = MaxIndex
        BY <1>0, MaxIndexType
      <4>2. q + 1 <= n + d /\ d <= n + m /\ 2 * (n + m) + 1 <= top
        BY <1>0, <2>0, <3>6, <4>1
      <4>3. q + 1 \in Int /\ -top <= q + 1 /\ q + 1 <= top
        BY <2>0, <4>2
      <4> QED
        BY <4>1, <4>3
    <3>8. IndexT(q + 1) = q + 1
      BY <3>7, IndexKeeps
    <3> QED
      BY <1>1, <3>3, <3>4, <3>5, <3>6, <3>8
  <2> QED
    BY <2>2, <2>3, Zenon
<1> QED
  BY <1>0, <1>3, <1>4

(* After the first j diagonals of the round of d edits.                    *)
Swept(u, w, a, b, d, j) ==
  /\ IsRow(u.costs, Len(a) + Len(b))
  /\ u.cont \in BOOLEAN
  /\ u.cont <=> \A h \in 0 .. j - 1 : ~AtEnd(w, a, b, d, h)
  /\ u.cont => \A h \in 0 .. j - 1 : u.costs[Slot(u.costs, 2 * h - d)] = w[d][h]
  /\ u.cont /\ d = 0 /\ j = 0 => Zeros(u.costs)
  /\ u.cont /\ d > 0 => Found(u.costs, w, d)

(* In a row of zeros the first slot is 0, wherever it is.                  *)
LEMMA ZeroFirst ==
  ASSUME NEW c, NEW top \in Nat, IsRow(c, top), Zeros(c)
  PROVE  c[Slot(c, 1)] = 0
<1>1. PICK l \in Nat : l = Len(c) /\ l > 0
  BY DEF IsRow
<1>2. (l + 1) % l \in 0 .. l - 1
  BY <1>1
<1>3. Slot(c, 1) \in 1 .. l
  BY <1>1, <1>2 DEF Slot
<1> QED
  BY <1>1, <1>3 DEF Zeros

(* Diagonals of the other rounds keep their costs when one is written.     *)
CostWritten(g, c, k, x, top) ==
  /\ IsRow(g, top)
  /\ g[Slot(g, k)] = x
  /\ \A l \in -top .. top : l # k => g[Slot(g, l)] = c[Slot(c, l)]

(* A cost that is written changes one slot.                                *)
LEMMA SlotWritten ==
  ASSUME NEW c, NEW top \in Nat, IsRow(c, top), NEW k \in -top .. top, NEW x \in Nat
  PROVE  \A g : g = [c EXCEPT ![Slot(c, k)] = x] => CostWritten(g, c, k, x, top)
<1> SUFFICES ASSUME NEW g, g = [c EXCEPT ![Slot(c, k)] = x] PROVE CostWritten(g, c, k, x, top)
  OBVIOUS
<1>1. c \in Seq(Nat) /\ Len(c) = 2 * top + 1
  BY DEF IsRow
<1>2. PICK s \in 1 .. 2 * top + 1 : s = Slot(c, k)
  BY <1>1, SlotIsASlot
<1>3. g = [c EXCEPT ![s] = x]
  BY <1>2
<1>4. g \in Seq(Nat) /\ Len(g) = Len(c) /\ g[s] = x
  BY <1>1, <1>2, <1>3
<1>5. \A i \in 1 .. 2 * top + 1 : i # s => g[i] = c[i]
  BY <1>1, <1>2, <1>3
<1>6. ASSUME NEW l PROVE Slot(g, l) = Slot(c, l)
  BY <1>4 DEF Slot
<1>7. ASSUME NEW l \in -top .. top, l # k PROVE g[Slot(g, l)] = c[Slot(c, l)]
  <2>1. Slot(c, l) \in 1 .. 2 * top + 1
    BY <1>1, SlotIsASlot
  <2>2. Slot(c, l) # s
    BY <1>1, <1>2, <1>7, SlotsDiffer
  <2> QED
    BY <1>5, <1>6, <2>1, <2>2
<1>8. g[Slot(g, k)] = x
  BY <1>2, <1>4, <1>6
<1> QED
  BY <1>1, <1>4, <1>7, <1>8 DEF IsRow, CostWritten

(* A diagonal more of the round.                                           *)
LEMMA AdvanceIs ==
  ASSUME NEW a, NEW b, NEW w, Setting(a, b, w),
         NEW d \in 0 .. Len(a) + Len(b), NEW j \in 0 .. d, NEW u, Swept(u, w, a, b, d, j)
  PROVE  Swept(Advance(a, b, d, 2 * j - d, u), w, a, b, d, j + 1)
<1>0. Len(a) \in Nat /\ Len(b) \in Nat
  BY DEF Setting
<1>1. PICK top \in Nat : top = Len(a) + Len(b)
  <2>1. Len(a) + Len(b) \in Nat
    BY <1>0
  <2> QED
    BY <2>1
<1>2. d \in 0 .. top /\ d \in Nat /\ j \in Nat /\ j <= d
  BY <1>1
<1>3. PICK k \in -top .. top : k = 2 * j - d
  <2>1. 2 * j - d \in -top .. top
    BY <1>2
  <2> QED
    BY <2>1
<1>4. (j + 1) - 1 = j /\ j + 1 # 0
  BY <1>2
<1>5. 0 .. j = (0 .. j - 1) \cup {j}
  BY <1>2
<1>6. CASE ~u.cont
  <2>1. Advance(a, b, d, k, u) = u
    BY <1>6 DEF Advance
  <2>2. ~\A h \in 0 .. j - 1 : ~AtEnd(w, a, b, d, h)
    BY <1>6, Zenon DEF Swept
  <2>3. ~\A h \in 0 .. j : ~AtEnd(w, a, b, d, h)
    BY <1>5, <2>2
  <2>4. Swept(u, w, a, b, d, j + 1)
    <3>1. IsRow(u.costs, Len(a) + Len(b)) /\ u.cont \in BOOLEAN
      BY DEF Swept
    <3> QED
      BY <1>4, <1>6, <2>3, <3>1, Zenon DEF Swept
  <2> QED
    BY <1>3, <2>1, <2>4
<1>7. CASE u.cont
  <2>1. PICK c : c = u.costs
    OBVIOUS
  <2>2. IsRow(c, top)
    BY <1>1, <2>1 DEF Swept
  <2>3. (\A h \in 0 .. j - 1 : ~AtEnd(w, a, b, d, h))
        /\ (\A h \in 0 .. j - 1 : c[Slot(c, 2 * h - d)] = w[d][h])
    BY <1>7, <2>1, Zenon DEF Swept
  <2>4. (d = 0 /\ j = 0 => Zeros(c)) /\ (d > 0 => Found(c, w, d))
    BY <1>7, <2>1, Zenon DEF Swept
  <2>5. d = 0 => c[Slot(c, 1)] = 0
    <3>1. d = 0 => j = 0
      BY <1>2
    <3> QED
      BY <2>2, <2>4, <3>1, ZeroFirst
  <2>6. Reached(c, d, k) = Start(w, d, j)
    <3>1. Reached(c, d, 2 * j - d) = Start(w, d, j)
      BY <2>4, <2>5, ReachedIs
    <3> QED
      BY <1>3, <3>1
  <2>7. PICK x \in Nat : x = w[d][j]
    BY ReachIsBounded
  <2>8. RunEnd(a, b, Reached(c, d, k), k) = x
    <3>1. w[d][j] = RunEnd(a, b, Start(w, d, j), 2 * j - d)
      BY DEF Setting, Reach
    <3> QED
      BY <1>3, <2>6, <2>7, <3>1
  <2>9. PICK g : g = [c EXCEPT ![Slot(c, k)] = x]
    OBVIOUS
  <2>10. PICK p \in BOOLEAN : p <=> x < Len(a) \/ x - k < Len(b)
    OBVIOUS
  <2>11. Advance(a, b, d, k, u) = [costs |-> g, cont |-> x < Len(a) \/ x - k < Len(b)]
    BY <1>7, <2>1, <2>8, <2>9 DEF Advance
  <2>12. PICK v : v = Advance(a, b, d, k, u)
    OBVIOUS
  <2>13. v.costs = g /\ (v.cont <=> p) /\ v.cont \in BOOLEAN
    <3>1. PICK q : q = (x < Len(a) \/ x - k < Len(b))
      OBVIOUS
    <3>2. v = [costs |-> g, cont |-> q]
      BY <2>11, <2>12, <3>1
    <3>3. v.costs = g /\ v.cont = q
      BY <3>2
    <3>4. (q <=> p) /\ q \in BOOLEAN
      BY <2>10, <3>1, Zenon
    <3> QED
      BY <3>3, <3>4, Zenon
  <2>14. p <=> ~AtEnd(w, a, b, d, j)
    <3>1. AtEnd(w, a, b, d, j) <=> x >= Len(a) /\ x - k >= Len(b)
      BY <1>3, <2>7 DEF AtEnd
    <3> QED
      BY <1>0, <2>10, <3>1
  <2>15. /\ IsRow(g, top) /\ g[Slot(g, k)] = x
         /\ \A l \in -top .. top : l # k => g[Slot(g, l)] = c[Slot(c, l)]
    <3>1. CostWritten(g, c, k, x, top)
      BY <2>2, <2>9, SlotWritten, Zenon
    <3> QED
      BY <3>1 DEF CostWritten
  <2>16. IsRow(v.costs, Len(a) + Len(b))
    BY <1>1, <2>13, <2>15
  <2>17. v.cont <=> \A h \in 0 .. j : ~AtEnd(w, a, b, d, h)
    <3>1. (\A h \in 0 .. j : ~AtEnd(w, a, b, d, h)) <=> ~AtEnd(w, a, b, d, j)
      BY <1>5, <2>3
    <3> QED
      BY <2>13, <2>14, <3>1, Zenon
  <2>18. \A h \in 0 .. j : v.costs[Slot(v.costs, 2 * h - d)] = w[d][h]
    <3> SUFFICES ASSUME NEW h \in 0 .. j PROVE g[Slot(g, 2 * h - d)] = w[d][h]
      BY <2>13
    <3>1. CASE h = j
      BY <1>3, <2>7, <2>15, <3>1
    <3>2. CASE h # j
      <4>1. h \in 0 .. j - 1 /\ 2 * h - d \in -top .. top /\ 2 * h - d # k
        BY <1>2, <1>3, <3>2
      <4>2. PICK l \in -top .. top : l = 2 * h - d
        BY <4>1
      <4>3. g[Slot(g, l)] = c[Slot(c, l)]
        BY <2>15, <4>1, <4>2
      <4>4. c[Slot(c, l)] = w[d][h]
        BY <2>3, <4>1, <4>2
      <4> QED
        BY <4>2, <4>3, <4>4
    <3> QED
      BY <3>1, <3>2
  <2>19. d > 0 => Found(v.costs, w, d)
    <3> SUFFICES ASSUME d > 0, NEW h \in 0 .. d - 1
                 PROVE  g[Slot(g, 2 * h - (d - 1))] = w[d - 1][h]
      BY <2>13 DEF Found
    <3>1. PICK l \in -top .. top : l = 2 * h - (d - 1) /\ l # k
      <4>1. 2 * h - (d - 1) \in -top .. top /\ 2 * h - (d - 1) # k
        BY <1>2, <1>3
      <4> QED
        BY <4>1
    <3>2. c[Slot(c, l)] = w[d - 1][h]
      BY <2>4, <3>1 DEF Found
    <3>3. g[Slot(g, l)] = c[Slot(c, l)]
      BY <2>15, <3>1
    <3> QED
      BY <3>1, <3>2, <3>3
  <2>20. Swept(v, w, a, b, d, j + 1)
    BY <1>4, <2>13, <2>16, <2>17, <2>18, <2>19, Zenon DEF Swept
  <2> QED
    BY <1>3, <2>12, <2>20
<1> QED
  BY <1>6, <1>7, Zenon

(* A round of d edits.                                                     *)
LEMMA SweepIs ==
  ASSUME NEW a, NEW b, NEW w, Setting(a, b, w),
         NEW d \in 0 .. Len(a) + Len(b), NEW c, Row(c, w, d, Len(a) + Len(b))
  PROVE  Swept(Sweep(a, b, d, c), w, a, b, d, d + 1)
<1>0. Len(a) \in Nat /\ Len(b) \in Nat
  BY DEF Setting
<1>1. d \in Nat
  BY <1>0
<1>2. PICK f : Sweeps(f, a, b, d, c)
  BY <1>1, SweepSteps
<1> DEFINE T == {i \in Nat : Swept(f[i], w, a, b, d, i)}
<1>3. 0 \in T
  <2>1. f[0] = [costs |-> c, cont |-> TRUE]
    BY <1>2 DEF Sweeps
  <2>2. f[0].costs = c /\ f[0].cont
    BY <2>1
  <2>3. f[0].cont \in BOOLEAN
    BY <2>1
  <2>4. \A h \in 0 .. 0 - 1 : FALSE
    OBVIOUS
  <2>5. Swept(f[0], w, a, b, d, 0)
    <3>1. IsRow(c, Len(a) + Len(b)) /\ (d = 0 => Zeros(c)) /\ (d > 0 => Found(c, w, d))
      BY DEF Row
    <3> QED
      BY <2>2, <2>3, <2>4, <3>1, Zenon DEF Swept
  <2> QED
    BY <2>5
<1>4. ASSUME NEW i \in 0 .. d, i \in T PROVE i + 1 \in T
  <2>1. i + 1 \in 1 .. d + 1 /\ (i + 1) - 1 = i
    BY <1>1
  <2>2. f[i + 1] = Advance(a, b, d, 2 * ((i + 1) - 1) - d, f[(i + 1) - 1])
    BY <1>2, <2>1 DEF Sweeps
  <2>3. f[i + 1] = Advance(a, b, d, 2 * i - d, f[i])
    BY <2>1, <2>2
  <2>4. Swept(f[i], w, a, b, d, i)
    BY <1>4
  <2>5. Swept(Advance(a, b, d, 2 * i - d, f[i]), w, a, b, d, i + 1)
    BY <2>4, AdvanceIs
  <2>6. Swept(f[i + 1], w, a, b, d, i + 1)
    BY <2>3, <2>5, Zenon
  <2> QED
    BY <2>1, <2>6
<1>5. d + 1 \in T
  <2> HIDE DEF T
  <2>1. d + 1 \in Nat /\ \A i \in 0 .. (d + 1) - 1 : i \in T => i + 1 \in T
    BY <1>1, <1>4
  <2>2. 0 .. d + 1 \subseteq T
    BY <1>3, <2>1, UpTo
  <2> QED
    BY <2>1, <2>2
<1>6. Sweep(a, b, d, c) = f[d + 1]
  BY <1>2 DEF Sweeps
<1>7. Swept(f[d + 1], w, a, b, d, d + 1)
  BY <1>5
<1> QED
  BY <1>6, <1>7, Zenon

(* A round that did not reach the end leaves the row for the next one.     *)
LEMMA NextRow ==
  ASSUME NEW a, NEW b, NEW w, NEW d \in Nat, NEW u, Swept(u, w, a, b, d, d + 1), u.cont
  PROVE  Row(u.costs, w, d + 1, Len(a) + Len(b))
<1>1. IsRow(u.costs, Len(a) + Len(b))
  BY DEF Swept
<1>2. \A h \in 0 .. (d + 1) - 1 : u.costs[Slot(u.costs, 2 * h - d)] = w[d][h]
  BY Zenon DEF Swept
<1>3. (d + 1) - 1 = d /\ d + 1 # 0
  OBVIOUS
<1>4. Found(u.costs, w, d + 1)
  BY <1>2, <1>3 DEF Found
<1> QED
  BY <1>1, <1>3, <1>4 DEF Row

(* Before the round of i edits.                                            *)
Searched(s, w, a, b, i) ==
  /\ s.trace \in Seq(Seq(Nat))
  /\ \A h \in 1 .. Len(s.trace) : Row(s.trace[h], w, h - 1, Len(a) + Len(b))
  /\ i <= EditDistance(a, b) =>
       s.cont /\ Len(s.trace) = i /\ Row(s.costs, w, i, Len(a) + Len(b))
  /\ i > EditDistance(a, b) => ~s.cont /\ Len(s.trace) = EditDistance(a, b) + 1

(* A round more of the search.                                             *)
LEMMA RoundIs ==
  ASSUME NEW a, NEW b, NEW w, Setting(a, b, w),
         NEW i \in 0 .. Len(a) + Len(b), NEW s, Searched(s, w, a, b, i)
  PROVE  Searched(Round(a, b, i, s), w, a, b, i + 1)
<1>0. Len(a) \in Nat /\ Len(b) \in Nat /\ Reach(w, a, b, Len(a) + Len(b))
  BY DEF Setting
<1>1. PICK top \in Nat : top = Len(a) + Len(b)
  <2>1. Len(a) + Len(b) \in Nat
    BY <1>0
  <2> QED
    BY <2>1
<1>2. PICK l \in 0 .. top : l = EditDistance(a, b)
  BY <1>0, <1>1, EndsAtDistance
<1>3. i \in 0 .. top /\ i \in Nat
  BY <1>1
<1>4. CASE i > l
  <2>1. ~s.cont
    BY <1>2, <1>4 DEF Searched
  <2>2. Round(a, b, i, s) = s
    BY <2>1 DEF Round
  <2>3. i + 1 > l /\ ~(i + 1 <= l) /\ i > EditDistance(a, b)
    BY <1>2, <1>3, <1>4
  <2>4. Searched(s, w, a, b, i + 1)
    BY <1>2, <2>3 DEF Searched
  <2> QED
    BY <2>2, <2>4
<1>5. CASE i <= l
  <2>1. s.cont /\ Len(s.trace) = i /\ Row(s.costs, w, i, top)
    BY <1>1, <1>2, <1>5 DEF Searched
  <2>2. PICK u : u = Sweep(a, b, i, s.costs)
    OBVIOUS
  <2>3. Swept(u, w, a, b, i, i + 1)
    BY <1>1, <2>1, <2>2, SweepIs
  <2>4. PICK t : t = Append(s.trace, s.costs)
    OBVIOUS
  <2>5. Round(a, b, i, s) = [costs |-> u.costs, cont |-> u.cont, trace |-> t]
    BY <2>1, <2>2, <2>4 DEF Round
  <2>6. PICK p : p = u.cont
    OBVIOUS
  <2>7. PICK v : v = [costs |-> u.costs, cont |-> p, trace |-> t]
    OBVIOUS
  <2>8. v.costs = u.costs /\ v.cont = p /\ v.trace = t
    BY <2>7
  <2>9. p <=> \A h \in 0 .. i : ~AtEnd(w, a, b, i, h)
    <3>1. (i + 1) - 1 = i
      BY <1>3
    <3> QED
      BY <2>3, <2>6, <3>1, Zenon DEF Swept
  <2>10. s.trace \in Seq(Seq(Nat)) /\ s.costs \in Seq(Nat)
    BY <2>1 DEF Searched, Row, IsRow
  <2>11. t \in Seq(Seq(Nat)) /\ Len(t) = i + 1 /\ t[i + 1] = s.costs
         /\ \A h \in 1 .. i : t[h] = s.trace[h]
    BY <2>1, <2>4, <2>10
  <2>12. \A h \in 1 .. Len(t) : Row(t[h], w, h - 1, top)
    <3> SUFFICES ASSUME NEW h \in 1 .. i + 1 PROVE Row(t[h], w, h - 1, top)
      BY <2>11
    <3>1. CASE h = i + 1
      <4>1. h - 1 = i
        BY <1>3, <3>1
      <4> QED
        BY <2>1, <2>11, <3>1, <4>1
    <3>2. CASE h # i + 1
      <4>1. h \in 1 .. i
        BY <1>3, <3>2
      <4> QED
        BY <1>1, <2>1, <2>11, <4>1 DEF Searched
    <3> QED
      BY <3>1, <3>2
  <2>13. \A h \in 0 .. i : AtEnd(w, a, b, i, h) => i >= l
    BY <1>0, <1>1, <1>2, EndsAtDistance
  <2>14. \E h \in 0 .. l : AtEnd(w, a, b, l, h)
    <3>1. EditDistance(a, b) <= top
      BY <1>1, <1>2
    <3> QED
      BY <1>0, <1>1, <1>2, <3>1, EndsAtDistance
  <2>15. Searched(v, w, a, b, i + 1)
    <3>1. CASE i < l
      <4>1. p
        BY <1>3, <2>9, <2>13, <3>1
      <4>2. Row(u.costs, w, i + 1, top)
        BY <1>1, <1>3, <2>3, <2>6, <4>1, NextRow
      <4>3. i + 1 <= EditDistance(a, b) /\ ~(i + 1 > EditDistance(a, b))
        BY <1>2, <1>3, <3>1
      <4>4. v.cont
        BY <2>8, <4>1, Zenon
      <4> QED
        BY <1>1, <2>8, <2>11, <2>12, <4>2, <4>3, <4>4, Zenon DEF Searched
    <3>2. CASE i = l
      <4>1. ~p
        BY <2>9, <2>14, <3>2
      <4>2. ~(i + 1 <= EditDistance(a, b)) /\ i + 1 = EditDistance(a, b) + 1
        BY <1>2, <1>3, <3>2
      <4>3. ~v.cont
        BY <2>8, <4>1, Zenon
      <4>4. Len(v.trace) = EditDistance(a, b) + 1
        BY <2>8, <2>11, <4>2
      <4> QED
        BY <1>1, <2>8, <2>11, <2>12, <4>2, <4>3, <4>4, Zenon DEF Searched
    <3> QED
      BY <1>2, <1>3, <1>5, <3>1, <3>2
  <2> QED
    BY <2>5, <2>6, <2>7, <2>15
<1> QED
  BY <1>2, <1>3, <1>4, <1>5

(* The search after some rounds: all rows are those of the edits so far,   *)
(* and it stopped when an end was reached.                                 *)
LEMMA SearchIs ==
  ASSUME NEW a, NEW b, NEW w, Setting(a, b, w), NEW rounds \in 0 .. Len(a) + Len(b) + 1
  PROVE  Searched(Search(a, b, rounds), w, a, b, rounds)
<1>0. Len(a) \in Nat /\ Len(b) \in Nat /\ Fit(a, b) /\ Reach(w, a, b, Len(a) + Len(b))
  BY DEF Setting
<1>1. PICK top \in Nat : top = Len(a) + Len(b)
  <2>1. Len(a) + Len(b) \in Nat
    BY <1>0
  <2> QED
    BY <2>1
<1>2. rounds \in Nat /\ rounds <= top + 1
  BY <1>1
<1>3. PICK f : Searches(f, a, b, rounds)
  BY <1>2, SearchSteps
<1>4. PICK l \in 0 .. top : l = EditDistance(a, b)
  BY <1>0, <1>1, EndsAtDistance
<1> DEFINE T == {i \in Nat : Searched(f[i], w, a, b, i)}
<1>5. 0 \in T
  <2>1. RowLength(a, b) = 2 * top + 1
    BY <1>0, <1>1, RowsFit
  <2>2. PICK c : c = [i \in 1 .. 2 * top + 1 |-> 0]
    OBVIOUS
  <2>3. f[0] = [costs |-> c, cont |-> TRUE, trace |-> <<>>]
    BY <1>3, <2>1, <2>2 DEF Searches
  <2>4. f[0].costs = c /\ f[0].cont /\ f[0].trace = <<>>
    BY <2>3
  <2>5. Row(c, w, 0, top)
    <3>1. c \in Seq(Nat) /\ Len(c) = 2 * top + 1 /\ \A i \in 1 .. Len(c) : c[i] = 0
      BY <2>2
    <3>2. ~(0 > 0)
      OBVIOUS
    <3> QED
      BY <3>1, <3>2 DEF Row, IsRow, Zeros
  <2>6. <<>> \in Seq(Seq(Nat)) /\ Len(<<>>) = 0 /\ \A h \in 1 .. 0 : FALSE
    OBVIOUS
  <2>7. 0 <= EditDistance(a, b) /\ ~(0 > EditDistance(a, b))
    BY <1>4
  <2>8. Searched(f[0], w, a, b, 0)
    BY <1>1, <2>4, <2>5, <2>6, <2>7, Zenon DEF Searched
  <2> QED
    BY <2>8
<1>6. ASSUME NEW i \in 0 .. rounds - 1, i \in T PROVE i + 1 \in T
  <2>1. i + 1 \in 1 .. rounds /\ (i + 1) - 1 = i /\ i \in 0 .. Len(a) + Len(b)
    BY <1>1, <1>2
  <2>2. f[i + 1] = Round(a, b, (i + 1) - 1, f[(i + 1) - 1])
    BY <1>3, <2>1 DEF Searches
  <2>3. f[i + 1] = Round(a, b, i, f[i])
    BY <2>1, <2>2
  <2>4. Searched(f[i], w, a, b, i)
    BY <1>6
  <2>5. Searched(f[i + 1], w, a, b, i + 1)
    BY <2>1, <2>3, <2>4, RoundIs
  <2> QED
    BY <2>1, <2>5
<1>7. rounds \in T
  <2> HIDE DEF T
  <2>1. 0 .. rounds \subseteq T
    BY <1>2, <1>5, <1>6, UpTo
  <2> QED
    BY <1>2, <2>1
<1>8. Searched(f[rounds], w, a, b, rounds)
  BY <1>7
<1>9. Search(a, b, rounds) = f[rounds]
  BY <1>3 DEF Searches
<1> QED
  BY <1>8, <1>9

(* The number of edits that myers_diff_min_edit finds.                     *)
LEMMA MinEditIs ==
  ASSUME NEW a, NEW b, NEW w, Setting(a, b, w)
  PROVE  myers_diff_min_edit(a, b) = EditDistance(a, b)
<1>0. Len(a) \in Nat /\ Len(b) \in Nat /\ Fit(a, b) /\ Reach(w, a, b, Len(a) + Len(b))
  BY DEF Setting
<1>1. PICK top \in Nat : top = Len(a) + Len(b)
  <2>1. Len(a) + Len(b) \in Nat
    BY <1>0
  <2> QED
    BY <2>1
<1>2. PICK l \in 0 .. top : l = EditDistance(a, b)
  BY <1>0, <1>1, EndsAtDistance
<1>3. MaxEdit(a, b) = top
  BY <1>0, <1>1, RowsFit
<1>4. PICK s : s = Search(a, b, top)
  OBVIOUS
<1>5. Searched(s, w, a, b, top)
  <2>1. top \in 0 .. Len(a) + Len(b) + 1
    BY <1>1
  <2> QED
    BY <1>4, <2>1, SearchIs
<1>6. myers_diff_min_edit(a, b) = IF s.cont THEN top ELSE Len(s.trace) - 1
  BY <1>3, <1>4 DEF myers_diff_min_edit
<1>7. CASE l = top
  <2>1. s.cont
    <3>1. top <= EditDistance(a, b)
      BY <1>2, <1>7
    <3> QED
      BY <1>5, <3>1 DEF Searched
  <2> QED
    BY <1>2, <1>6, <1>7, <2>1
<1>8. CASE l # top
  <2>1. ~s.cont /\ Len(s.trace) = l + 1
    <3>1. top > EditDistance(a, b)
      BY <1>2, <1>8
    <3> QED
      BY <1>2, <1>5, <3>1 DEF Searched
  <2> QED
    BY <1>2, <1>6, <2>1
<1> QED
  BY <1>7, <1>8

(* The rows that are kept.                                                 *)
IsTrace(trace, w, a, b) ==
  /\ trace \in Seq(Seq(Nat)) /\ Len(trace) = EditDistance(a, b) + 1
  /\ \A h \in 1 .. Len(trace) : Row(trace[h], w, h - 1, Len(a) + Len(b))

(* The trace has a row for each number of edits up to the distance.        *)
LEMMA TraceIs ==
  ASSUME NEW a, NEW b, NEW w, Setting(a, b, w)
  PROVE  IsTrace(myers_diff_trace(a, b), w, a, b)
<1>0. Len(a) \in Nat /\ Len(b) \in Nat /\ Fit(a, b) /\ Reach(w, a, b, Len(a) + Len(b))
  BY DEF Setting
<1>1. PICK top \in Nat : top = Len(a) + Len(b)
  <2>1. Len(a) + Len(b) \in Nat
    BY <1>0
  <2> QED
    BY <2>1
<1>2. PICK l \in 0 .. top : l = EditDistance(a, b)
  BY <1>0, <1>1, EndsAtDistance
<1>3. MaxEdit(a, b) + 1 = top + 1
  BY <1>0, <1>1, RowsFit
<1>4. Searched(Search(a, b, top + 1), w, a, b, top + 1)
  <2>1. top + 1 \in 0 .. Len(a) + Len(b) + 1
    BY <1>1
  <2> QED
    BY <2>1, SearchIs
<1>5. top + 1 > EditDistance(a, b)
  BY <1>2
<1> QED
  BY <1>3, <1>4, <1>5 DEF Searched, IsTrace, myers_diff_trace

-----------------------------------------------------------------------------
(* Scripts *)

(* The edit e takes prefixes of lengths x and y to prefixes of lengths u and v. *)
Follows(e, x, y, u, v, a, b) ==
  \/ e.action = "ADD" /\ u = x /\ v = y + 1 /\ v <= Len(b) /\ e.val = b[v]
  \/ e.action = "DEL" /\ u = x + 1 /\ v = y /\ u <= Len(a) /\ e.val = a[u]
  \/ /\ e.action = "EQ" /\ u = x + 1 /\ v = y + 1 /\ u <= Len(a) /\ v <= Len(b)
     /\ e.val = a[u] /\ e.val = b[v]

(* The edits go on from each other, from the beginning of both arrays.     *)
Path(edits, xs, ys, a, b) ==
  /\ Len(edits) \in Nat
  /\ xs[0] = 0 /\ ys[0] = 0
  /\ \A i \in 1 .. Len(edits) :
       /\ xs[i - 1] \in Nat /\ ys[i - 1] \in Nat /\ xs[i] \in Nat /\ ys[i] \in Nat
       /\ Follows(edits[i], xs[i - 1], ys[i - 1], xs[i], ys[i], a, b)

(* A prefix and the element after it.                                      *)
LEMMA OneMore ==
  ASSUME NEW V, NEW a \in Seq(V), NEW x \in 0 .. Len(a) - 1
  PROVE  Append(SubSeq(a, 1, x), a[x + 1]) = SubSeq(a, 1, x + 1)
<1>1. Len(a) \in Nat /\ x \in Nat /\ x + 1 \in 1 .. Len(a) /\ 1 \in 1 .. Len(a) /\ (x + 1) - 1 = x
  OBVIOUS
<1>2. \A i \in 1 .. x : a[i] \in V
  BY <1>1
<1>3. SubSeq(a, 1, x) \in Seq(V)
  BY <1>1, <1>2, SubSeqProperties
<1>4. a[x + 1] \in V
  BY <1>1
<1>5. Append(SubSeq(a, 1, x), a[x + 1]) = SubSeq(a, 1, x) \o <<a[x + 1]>>
  BY <1>3, <1>4, AppendIsConcat
<1>6. SubSeq(a, 1, x + 1) = SubSeq(a, 1, (x + 1) - 1) \o <<a[x + 1]>>
  BY <1>1, SubSeqRecursiveSecond
<1> QED
  BY <1>1, <1>5, <1>6

(* The steps of a path, counted from 0.                                    *)
LEMMA PathSteps ==
  ASSUME NEW edits, NEW xs, NEW ys, NEW a, NEW b, Path(edits, xs, ys, a, b)
  PROVE  \A i \in 0 .. Len(edits) - 1 :
           /\ i + 1 \in 1 .. Len(edits) /\ (i + 1) - 1 = i
           /\ xs[i] \in Nat /\ ys[i] \in Nat /\ xs[i + 1] \in Nat /\ ys[i + 1] \in Nat
           /\ Follows(edits[i + 1], xs[i], ys[i], xs[i + 1], ys[i + 1], a, b)
<1> SUFFICES ASSUME NEW i \in 0 .. Len(edits) - 1
             PROVE  /\ i + 1 \in 1 .. Len(edits) /\ (i + 1) - 1 = i
                    /\ xs[i] \in Nat /\ ys[i] \in Nat /\ xs[i + 1] \in Nat /\ ys[i + 1] \in Nat
                    /\ Follows(edits[i + 1], xs[i], ys[i], xs[i + 1], ys[i + 1], a, b)
  OBVIOUS
<1>1. Len(edits) \in Nat
  BY DEF Path
<1>2. i + 1 \in 1 .. Len(edits) /\ (i + 1) - 1 = i
  BY <1>1
<1>3. /\ xs[(i + 1) - 1] \in Nat /\ ys[(i + 1) - 1] \in Nat /\ xs[i + 1] \in Nat /\ ys[i + 1] \in Nat
      /\ Follows(edits[i + 1], xs[(i + 1) - 1], ys[(i + 1) - 1], xs[i + 1], ys[i + 1], a, b)
  BY <1>2 DEF Path
<1> QED
  BY <1>2, <1>3

(* Without the insertions it makes the prefix of orig to which it leads.   *)
LEMMA PathKeepsOrig ==
  ASSUME NEW V, NEW a \in Seq(V), NEW b, NEW edits, NEW xs, NEW ys, Path(edits, xs, ys, a, b)
  PROVE  /\ xs[Len(edits)] \in 0 .. Len(a)
         /\ Kept(edits, {"EQ", "DEL"}) = SubSeq(a, 1, xs[Len(edits)])
<1>1. Len(edits) \in Nat /\ xs[0] = 0
  BY DEF Path
<1>2. PICK f : Keeps(f, edits, {"EQ", "DEL"})
  BY <1>1, KeptSteps
<1> DEFINE T == {i \in Nat : xs[i] \in 0 .. Len(a) /\ f[i] = SubSeq(a, 1, xs[i])}
<1>3. 0 \in T
  <2>1. f[0] = <<>> /\ SubSeq(a, 1, 0) = <<>> /\ Len(a) \in Nat
    BY <1>2, SubSeqEmpty DEF Keeps
  <2>2. f[0] = SubSeq(a, 1, xs[0])
    BY <1>1, <2>1, Zenon
  <2>3. xs[0] \in 0 .. Len(a)
    BY <1>1, <2>1
  <2> QED
    BY <2>2, <2>3
<1>4. ASSUME NEW i \in 0 .. Len(edits) - 1, i \in T PROVE i + 1 \in T
  <2>1. /\ i + 1 \in 1 .. Len(edits) /\ (i + 1) - 1 = i
        /\ xs[i] \in Nat /\ ys[i] \in Nat /\ xs[i + 1] \in Nat /\ ys[i + 1] \in Nat
        /\ Follows(edits[i + 1], xs[i], ys[i], xs[i + 1], ys[i + 1], a, b)
    BY PathSteps
  <2>2. PICK e : e = edits[i + 1]
    OBVIOUS
  <2>3. PICK x \in 0 .. Len(a), u \in Nat : x = xs[i] /\ u = xs[i + 1]
    BY <1>4, <2>1
  <2>4. f[i] = SubSeq(a, 1, x)
    BY <1>4, <2>3
  <2>5. f[i + 1] = IF e.action \in {"EQ", "DEL"} THEN Append(f[i], e.val) ELSE f[i]
    <3>1. f[i + 1] = IF edits[i + 1].action \in {"EQ", "DEL"}
                     THEN Append(f[(i + 1) - 1], edits[i + 1].val) ELSE f[(i + 1) - 1]
      BY <1>2, <2>1 DEF Keeps
    <3> QED
      BY <2>1, <2>2, <3>1
  <2>6. CASE e.action = "ADD" /\ u = x
    <3>1. f[i + 1] = f[i]
      BY <2>5, <2>6
    <3>2. f[i + 1] = SubSeq(a, 1, xs[i + 1])
      BY <2>3, <2>4, <2>6, <3>1, Zenon
    <3>3. u \in 0 .. Len(a)
      BY <2>3, <2>6
    <3> QED
      BY <2>1, <2>3, <3>2, <3>3
  <2>7. CASE e.action \in {"EQ", "DEL"} /\ u = x + 1 /\ u <= Len(a) /\ e.val = a[u]
    <3>1. x \in 0 .. Len(a) - 1 /\ u \in 0 .. Len(a)
      BY <2>3, <2>7
    <3>2. Append(SubSeq(a, 1, x), a[x + 1]) = SubSeq(a, 1, x + 1)
      BY <3>1, OneMore
    <3>3. f[i + 1] = SubSeq(a, 1, u)
      BY <2>4, <2>5, <2>7, <3>2
    <3>4. f[i + 1] = SubSeq(a, 1, xs[i + 1])
      BY <2>3, <3>3, Zenon
    <3> QED
      BY <2>1, <2>3, <3>1, <3>4
  <2> QED
    BY <2>1, <2>2, <2>3, <2>6, <2>7 DEF Follows
<1>5. Len(edits) \in T
  <2> HIDE DEF T
  <2>1. 0 .. Len(edits) \subseteq T
    BY <1>1, <1>3, <1>4, UpTo
  <2> QED
    BY <1>1, <2>1
<1> QED
  BY <1>2, <1>5 DEF Keeps

(* Without the deletions it makes that of updated.                         *)
LEMMA PathKeepsUpdated ==
  ASSUME NEW V, NEW a, NEW b \in Seq(V), NEW edits, NEW xs, NEW ys, Path(edits, xs, ys, a, b)
  PROVE  /\ ys[Len(edits)] \in 0 .. Len(b)
         /\ Kept(edits, {"EQ", "ADD"}) = SubSeq(b, 1, ys[Len(edits)])
<1>1. Len(edits) \in Nat /\ ys[0] = 0
  BY DEF Path
<1>2. PICK f : Keeps(f, edits, {"EQ", "ADD"})
  BY <1>1, KeptSteps
<1> DEFINE T == {i \in Nat : ys[i] \in 0 .. Len(b) /\ f[i] = SubSeq(b, 1, ys[i])}
<1>3. 0 \in T
  <2>1. f[0] = <<>> /\ SubSeq(b, 1, 0) = <<>> /\ Len(b) \in Nat
    BY <1>2, SubSeqEmpty DEF Keeps
  <2>2. f[0] = SubSeq(b, 1, ys[0])
    BY <1>1, <2>1, Zenon
  <2>3. ys[0] \in 0 .. Len(b)
    BY <1>1, <2>1
  <2> QED
    BY <2>2, <2>3
<1>4. ASSUME NEW i \in 0 .. Len(edits) - 1, i \in T PROVE i + 1 \in T
  <2>1. /\ i + 1 \in 1 .. Len(edits) /\ (i + 1) - 1 = i
        /\ xs[i] \in Nat /\ ys[i] \in Nat /\ xs[i + 1] \in Nat /\ ys[i + 1] \in Nat
        /\ Follows(edits[i + 1], xs[i], ys[i], xs[i + 1], ys[i + 1], a, b)
    BY PathSteps
  <2>2. PICK e : e = edits[i + 1]
    OBVIOUS
  <2>3. PICK y \in 0 .. Len(b), v \in Nat : y = ys[i] /\ v = ys[i + 1]
    BY <1>4, <2>1
  <2>4. f[i] = SubSeq(b, 1, y)
    BY <1>4, <2>3
  <2>5. f[i + 1] = IF e.action \in {"EQ", "ADD"} THEN Append(f[i], e.val) ELSE f[i]
    <3>1. f[i + 1] = IF edits[i + 1].action \in {"EQ", "ADD"}
                     THEN Append(f[(i + 1) - 1], edits[i + 1].val) ELSE f[(i + 1) - 1]
      BY <1>2, <2>1 DEF Keeps
    <3> QED
      BY <2>1, <2>2, <3>1
  <2>6. CASE e.action = "DEL" /\ v = y
    <3>1. f[i + 1] = f[i]
      BY <2>5, <2>6
    <3>2. f[i + 1] = SubSeq(b, 1, ys[i + 1])
      BY <2>3, <2>4, <2>6, <3>1, Zenon
    <3>3. v \in 0 .. Len(b)
      BY <2>3, <2>6
    <3> QED
      BY <2>1, <2>3, <3>2, <3>3
  <2>7. CASE e.action \in {"EQ", "ADD"} /\ v = y + 1 /\ v <= Len(b) /\ e.val = b[v]
    <3>1. y \in 0 .. Len(b) - 1 /\ v \in 0 .. Len(b)
      BY <2>3, <2>7
    <3>2. Append(SubSeq(b, 1, y), b[y + 1]) = SubSeq(b, 1, y + 1)
      BY <3>1, OneMore
    <3>3. f[i + 1] = SubSeq(b, 1, v)
      BY <2>4, <2>5, <2>7, <3>2
    <3>4. f[i + 1] = SubSeq(b, 1, ys[i + 1])
      BY <2>3, <3>3, Zenon
    <3> QED
      BY <2>1, <2>3, <3>1, <3>4
  <2> QED
    BY <2>1, <2>2, <2>3, <2>6, <2>7 DEF Follows
<1>5. Len(edits) \in T
  <2> HIDE DEF T
  <2>1. 0 .. Len(edits) \subseteq T
    BY <1>1, <1>3, <1>4, UpTo
  <2> QED
    BY <1>1, <2>1
<1> QED
  BY <1>2, <1>5 DEF Keeps

(* Both.                                                                   *)
Makes(edits, x, y, a, b) ==
  /\ x \in 0 .. Len(a) /\ Kept(edits, {"EQ", "DEL"}) = SubSeq(a, 1, x)
  /\ y \in 0 .. Len(b) /\ Kept(edits, {"EQ", "ADD"}) = SubSeq(b, 1, y)

(* A path makes both of its prefixes.                                      *)
LEMMA PathMakes ==
  ASSUME NEW V, NEW a \in Seq(V), NEW b \in Seq(V), NEW edits, NEW xs, NEW ys,
         Path(edits, xs, ys, a, b)
  PROVE  Makes(edits, xs[Len(edits)], ys[Len(edits)], a, b)
<1>1. /\ xs[Len(edits)] \in 0 .. Len(a)
      /\ Kept(edits, {"EQ", "DEL"}) = SubSeq(a, 1, xs[Len(edits)])
  BY PathKeepsOrig, Zenon
<1>2. /\ ys[Len(edits)] \in 0 .. Len(b)
      /\ Kept(edits, {"EQ", "ADD"}) = SubSeq(b, 1, ys[Len(edits)])
  BY PathKeepsUpdated, Zenon
<1> QED
  BY <1>1, <1>2, Zenon DEF Makes

(* How many changes it takes to get there.                                 *)
LEMMA PathChanges ==
  ASSUME NEW V, NEW a \in Seq(V), NEW b \in Seq(V), NEW edits, NEW xs, NEW ys,
         Path(edits, xs, ys, a, b)
  PROVE  Changes(edits) = 2 * Len(edits) - (xs[Len(edits)] + ys[Len(edits)])
<1>1. Len(edits) \in Nat /\ xs[0] = 0 /\ ys[0] = 0
  BY DEF Path
<1>2. PICK f : Keeps(f, edits, {"ADD", "DEL"})
  BY <1>1, KeptSteps
<1> DEFINE T == {i \in Nat : f[i] \in Seq(V) /\ Len(f[i]) = 2 * i - (xs[i] + ys[i])}
<1>3. 0 \in T
  <2>1. <<>> \in Seq(V) /\ Len(<<>>) = 0
    BY EmptySeq
  <2>2. f[0] = <<>>
    BY <1>2 DEF Keeps
  <2>3. f[0] \in Seq(V) /\ Len(f[0]) = 0
    BY <2>1, <2>2, Zenon
  <2> QED
    BY <1>1, <2>3
<1>4. ASSUME NEW i \in 0 .. Len(edits) - 1, i \in T PROVE i + 1 \in T
  <2>1. /\ i + 1 \in 1 .. Len(edits) /\ (i + 1) - 1 = i
        /\ xs[i] \in Nat /\ ys[i] \in Nat /\ xs[i + 1] \in Nat /\ ys[i + 1] \in Nat
        /\ Follows(edits[i + 1], xs[i], ys[i], xs[i + 1], ys[i + 1], a, b)
    BY PathSteps
  <2>2. PICK e : e = edits[i + 1]
    OBVIOUS
  <2>3. PICK x \in Nat, y \in Nat, u \in Nat, v \in Nat :
          x = xs[i] /\ y = ys[i] /\ u = xs[i + 1] /\ v = ys[i + 1]
    BY <2>1
  <2>4. PICK s \in Seq(V) : s = f[i] /\ Len(s) = 2 * i - (x + y)
    BY <1>4, <2>3
  <2>5. f[i + 1] = IF e.action \in {"ADD", "DEL"} THEN Append(s, e.val) ELSE s
    <3>1. f[i + 1] = IF edits[i + 1].action \in {"ADD", "DEL"}
                     THEN Append(f[(i + 1) - 1], edits[i + 1].val) ELSE f[(i + 1) - 1]
      BY <1>2, <2>1 DEF Keeps
    <3> QED
      BY <2>1, <2>2, <2>4, <3>1
  <2>6. Follows(e, x, y, u, v, a, b)
    BY <2>1, <2>2, <2>3
  <2>7. CASE e.action = "EQ" /\ u = x + 1 /\ v = y + 1
    <3>1. f[i + 1] = s /\ Len(s) = 2 * (i + 1) - (u + v)
      BY <2>4, <2>5, <2>7
    <3> QED
      BY <2>1, <2>3, <3>1
  <2>8. CASE e.action \in {"ADD", "DEL"} /\ u + v = x + y + 1 /\ e.val \in V
    <3>1. PICK t \in Seq(V) : t = Append(s, e.val) /\ Len(t) = Len(s) + 1
      BY <2>8, AppendProperties
    <3>2. f[i + 1] = t /\ Len(t) = 2 * (i + 1) - (u + v)
      BY <2>4, <2>5, <2>8, <3>1
    <3> QED
      BY <2>1, <2>3, <3>2
  <2>9. \/ e.action = "EQ" /\ u = x + 1 /\ v = y + 1
        \/ e.action \in {"ADD", "DEL"} /\ u + v = x + y + 1 /\ e.val \in V
    <3>1. CASE e.action = "ADD" /\ u = x /\ v = y + 1 /\ v <= Len(b) /\ e.val = b[v]
      <4>1. v \in 1 .. Len(b)
        BY <3>1
      <4> QED
        BY <3>1, <4>1
    <3>2. CASE e.action = "DEL" /\ u = x + 1 /\ v = y /\ u <= Len(a) /\ e.val = a[u]
      <4>1. u \in 1 .. Len(a)
        BY <3>2
      <4> QED
        BY <3>2, <4>1
    <3> QED
      BY <2>6, <3>1, <3>2 DEF Follows
  <2> QED
    BY <2>7, <2>8, <2>9
<1>5. Len(edits) \in T
  <2> HIDE DEF T
  <2>1. 0 .. Len(edits) \subseteq T
    BY <1>1, <1>3, <1>4, UpTo
  <2> QED
    BY <1>1, <2>1
<1> QED
  BY <1>2, <1>5 DEF Keeps, Changes

-----------------------------------------------------------------------------
(* Walks *)

(* One step back from the point p to the point q.                          *)
StepBack(q, p, a, b) ==
  \/ q[1] = p[1] /\ q[2] = p[2] - 1
  \/ q[1] = p[1] - 1 /\ q[2] = p[2]
  \/ q[1] = p[1] - 1 /\ q[2] = p[2] - 1 /\ a[p[1]] = b[p[2]]

(* The points P lead back from p to q.                                     *)
Way(P, p, q, a, b) ==
  /\ P \in Seq(Grid(a, b))
  /\ \A i \in 1 .. Len(P) : StepBack(P[i], IF i = 1 THEN p ELSE P[i - 1], a, b)
  /\ q = IF Len(P) = 0 THEN p ELSE P[Len(P)]

(* R is the sequences P and Q, one after the other.                        *)
Concat(R, P, Q, G) ==
  /\ R \in Seq(G) /\ Len(R) = Len(P) + Len(Q)
  /\ \A i \in 1 .. Len(P) + Len(Q) : R[i] = IF i <= Len(P) THEN P[i] ELSE Q[i - Len(P)]

(* Two sequences, one after the other.                                     *)
LEMMA ConcatIs ==
  ASSUME NEW G, NEW P \in Seq(G), NEW Q \in Seq(G)
  PROVE  Concat(P \o Q, P, Q, G)
BY ConcatProperties, Zenon DEF Concat

(* A walk goes on where another one ends.                                  *)
Joined(R, P, Q, p, q, a, b) == Way(R, p, q, a, b) /\ Len(R) = Len(P) + Len(Q)

(* Two walks make one.                                                     *)
LEMMA WayJoins ==
  ASSUME NEW a, NEW b, NEW P, NEW Q, NEW p, NEW q, NEW r, Way(P, p, q, a, b), Way(Q, q, r, a, b)
  PROVE  Joined(P \o Q, P, Q, p, r, a, b)
<1> DEFINE G == Grid(a, b)
<1>1. P \in Seq(G) /\ Q \in Seq(G)
  BY DEF Way
<1> HIDE DEF G
<1>0. PICK R : R = P \o Q
  OBVIOUS
<1>2. /\ R \in Seq(G) /\ R = P \o Q /\ Len(R) = Len(P) + Len(Q)
      /\ \A i \in 1 .. Len(P) + Len(Q) : R[i] = IF i <= Len(P) THEN P[i] ELSE Q[i - Len(P)]
  <2>1. Concat(R, P, Q, G)
    BY <1>0, <1>1, ConcatIs, Zenon
  <2> QED
    BY <1>0, <2>1, Zenon DEF Concat
<1>3. PICK l \in Nat, m \in Nat : l = Len(P) /\ m = Len(Q)
  BY <1>1, LenProperties
<1>4. \A i \in 1 .. l : R[i] = P[i]
  BY <1>2, <1>3
<1>5. \A i \in 1 .. m : R[l + i] = Q[i]
  <2> SUFFICES ASSUME NEW i \in 1 .. m PROVE R[l + i] = Q[i]
    OBVIOUS
  <2>1. l + i \in 1 .. l + m /\ ~(l + i <= l) /\ (l + i) - l = i
    BY <1>3
  <2> QED
    BY <1>2, <1>3, <2>1
<1>6. /\ \A i \in 1 .. l : StepBack(P[i], IF i = 1 THEN p ELSE P[i - 1], a, b)
      /\ q = IF l = 0 THEN p ELSE P[l]
      /\ \A i \in 1 .. m : StepBack(Q[i], IF i = 1 THEN q ELSE Q[i - 1], a, b)
      /\ r = IF m = 0 THEN q ELSE Q[m]
  BY <1>3 DEF Way
<1>7. ASSUME NEW i \in 1 .. l + m PROVE StepBack(R[i], IF i = 1 THEN p ELSE R[i - 1], a, b)
  <2>1. CASE i <= l
    <3>1. i \in 1 .. l /\ (i # 1 => i - 1 \in 1 .. l)
      BY <1>3, <2>1
    <3>2. R[i] = P[i] /\ (i # 1 => R[i - 1] = P[i - 1])
      BY <1>4, <3>1
    <3>3. StepBack(P[i], IF i = 1 THEN p ELSE P[i - 1], a, b)
      BY <1>6, <3>1
    <3> QED
      BY <3>2, <3>3
  <2>2. CASE i > l
    <3>1. PICK h \in 1 .. m : i = l + h
      <4>1. i - l \in 1 .. m /\ i = l + (i - l)
        BY <1>3, <2>2
      <4> QED
        BY <4>1
    <3>2. R[i] = Q[h]
      BY <1>5, <3>1
    <3>3. StepBack(Q[h], IF h = 1 THEN q ELSE Q[h - 1], a, b)
      BY <1>6
    <3>4. (IF h = 1 THEN q ELSE Q[h - 1]) = (IF i = 1 THEN p ELSE R[i - 1])
      <4>1. CASE h = 1 /\ l = 0
        BY <1>6, <3>1, <4>1
      <4>2. CASE h = 1 /\ l # 0
        <5>1. i - 1 = l /\ i # 1 /\ l \in 1 .. l
          BY <1>3, <3>1, <4>2
        <5> QED
          BY <1>4, <1>6, <4>2, <5>1
      <4>3. CASE h # 1
        <5>1. h - 1 \in 1 .. m /\ i - 1 = l + (h - 1) /\ i # 1
          BY <1>3, <3>1, <4>3
        <5> QED
          BY <1>5, <4>3, <5>1
      <4> QED
        BY <4>1, <4>2, <4>3
    <3> QED
      BY <3>2, <3>3, <3>4
  <2> QED
    BY <1>3, <2>1, <2>2
<1>8. r = IF l + m = 0 THEN p ELSE R[l + m]
  <2>1. CASE m = 0
    <3>1. l + m = l /\ (l # 0 => l \in 1 .. l)
      BY <1>3, <2>1
    <3> QED
      BY <1>4, <1>6, <2>1, <3>1
  <2>2. CASE m # 0
    <3>1. m \in 1 .. m /\ l + m # 0
      BY <1>3, <2>2
    <3> QED
      BY <1>5, <1>6, <2>2, <3>1
  <2> QED
    BY <2>1, <2>2
<1>9. Len(R) = l + m
  BY <1>2, <1>3
<1>10. Way(R, p, r, a, b)
  BY <1>2, <1>7, <1>8, <1>9 DEF Way, G
<1>11. Joined(R, P, Q, p, r, a, b)
  BY <1>2, <1>10 DEF Joined
<1> QED
  BY <1>2, <1>11

(* The walk that goes nowhere.                                             *)
LEMMA WayStays ==
  ASSUME NEW a, NEW b, NEW p
  PROVE  Way(<<>>, p, p, a, b)
<1>1. <<>> \in Seq(Grid(a, b)) /\ Len(<<>>) = 0
  BY EmptySeq
<1>2. \A i \in 1 .. 0 : FALSE
  OBVIOUS
<1> QED
  BY <1>1, <1>2, Zenon DEF Way

(* The walk of a single step.                                              *)
LEMMA WayChanges ==
  ASSUME NEW a, NEW b, NEW p, NEW q \in Grid(a, b), StepBack(q, p, a, b)
  PROVE  Way(<<q>>, p, q, a, b) /\ Len(<<q>>) = 1
<1>1. <<q>> \in Seq(Grid(a, b)) /\ Len(<<q>>) = 1 /\ <<q>>[1] = q
  OBVIOUS
<1>2. \A i \in 1 .. 1 : i = 1
  OBVIOUS
<1>3. 1 # 0
  OBVIOUS
<1>4. \A i \in 1 .. Len(<<q>>) : StepBack(<<q>>[i], IF i = 1 THEN p ELSE <<q>>[i - 1], a, b)
  BY <1>1, <1>2
<1>5. q = IF Len(<<q>>) = 0 THEN p ELSE <<q>>[Len(<<q>>)]
  BY <1>1
<1> QED
  BY <1>1, <1>4, <1>5, Zenon DEF Way

(* A sequence is as long as its domain.                                    *)
LEMMA LenOfDomain ==
  ASSUME NEW S, NEW n \in Nat, NEW R \in [1 .. n -> S], R \in Seq(S)
  PROVE  Len(R) = n
<1>1. DOMAIN R = 1 .. n /\ DOMAIN R = 1 .. Len(R) /\ Len(R) \in Nat
  BY LenProperties
<1>2. PICK l \in Nat : l = Len(R)
  BY <1>1
<1>3. 1 .. n = 1 .. l
  BY <1>1, <1>2
<1>4. (n > l => n \in 1 .. n /\ ~(n \in 1 .. l)) /\ (l > n => l \in 1 .. l /\ ~(l \in 1 .. n))
  OBVIOUS
<1>5. ~(n > l) /\ ~(l > n)
  BY <1>3, <1>4
<1> QED
  BY <1>2, <1>5

(* Back along a run of r equal elements.                                   *)
RunWay(R, x, y, r, a, b) == Way(R, <<x, y>>, <<x - r, y - r>>, a, b) /\ Len(R) = r

(* The walk along a run.                                                   *)
LEMMA WayRuns ==
  ASSUME NEW a, NEW b, NEW x \in 0 .. Len(a), NEW y \in 0 .. Len(b), Len(a) \in Nat, Len(b) \in Nat,
         NEW r \in Nat, r <= x, r <= y, \A h \in 0 .. r - 1 : a[x - h] = b[y - h]
  PROVE  RunWay([i \in 1 .. r |-> <<x - i, y - i>>], x, y, r, a, b)
<1> DEFINE G == Grid(a, b)
<1>1. PICK R : R = [i \in 1 .. r |-> <<x - i, y - i>>]
  OBVIOUS
<1>2. \A i \in 1 .. r : R[i] = <<x - i, y - i>> /\ <<x - i, y - i>> \in G
  BY <1>1 DEF Grid
<1> HIDE DEF G
<1>3. R \in [1 .. r -> G]
  BY <1>1, <1>2
<1>4. R \in Seq(G)
  BY <1>3, SeqDef, Zenon
<1>5. Len(R) = r
  BY <1>3, <1>4, LenOfDomain
<1>6. ASSUME NEW i \in 1 .. r PROVE StepBack(R[i], IF i = 1 THEN <<x, y>> ELSE R[i - 1], a, b)
  <2>1. PICK h \in 0 .. r - 1 : i = h + 1
    <3>1. i - 1 \in 0 .. r - 1 /\ i = (i - 1) + 1
      OBVIOUS
    <3> QED
      BY <3>1
  <2>2. (IF i = 1 THEN <<x, y>> ELSE R[i - 1]) = <<x - h, y - h>>
    <3>1. CASE i = 1
      BY <2>1, <3>1
    <3>2. CASE i # 1
      <4>1. i - 1 \in 1 .. r /\ i - 1 = h
        BY <2>1, <3>2
      <4> QED
        BY <1>2, <3>2, <4>1
    <3> QED
      BY <3>1, <3>2
  <2>3. R[i] = <<(x - h) - 1, (y - h) - 1>>
    <3>1. x \in Nat /\ y \in Nat /\ h \in Nat
      OBVIOUS
    <3>2. x - i = (x - h) - 1 /\ y - i = (y - h) - 1
      BY <2>1, <3>1
    <3>3. R[i] = <<x - i, y - i>>
      BY <1>2
    <3> QED
      BY <3>2, <3>3, Zenon
  <2>4. a[x - h] = b[y - h]
    OBVIOUS
  <2>5. StepBack(<<(x - h) - 1, (y - h) - 1>>, <<x - h, y - h>>, a, b)
    BY <2>4 DEF StepBack
  <2> QED
    BY <2>2, <2>3, <2>5
<1>7. <<x - r, y - r>> = IF r = 0 THEN <<x, y>> ELSE R[r]
  <2>1. CASE r = 0
    BY <2>1
  <2>2. CASE r # 0
    <3>1. r \in 1 .. r
      BY <2>2
    <3> QED
      BY <1>2, <2>2, <3>1
  <2> QED
    BY <2>1, <2>2
<1>8. Way(R, <<x, y>>, <<x - r, y - r>>, a, b)
  BY <1>4, <1>5, <1>6, <1>7 DEF Way, G
<1> QED
  BY <1>1, <1>5, <1>8 DEF RunWay

-----------------------------------------------------------------------------
(* Backwards through the rows *)

EqualBefore(x, y, r, a, b) == \A h \in 0 .. r - 1 : a[x - h] = b[y - h]

(* A point that d edits reach is reached from <<u, v>> by an edit, if d is *)
(* not 0, and a run of r equal elements.                                   *)
Came(u, v, r, x, y, w, a, b, d) ==
  /\ r <= x /\ r <= y /\ EqualBefore(x, y, r, a, b)
  /\ Min({x - u, y - v}) = r
  /\ d = 0 => r = x /\ r = y
  /\ d > 0 => /\ v \in Nat
              /\ (u = x - r /\ v = (y - r) - 1) \/ (u = (x - r) - 1 /\ v = y - r)
              /\ \E i \in 0 .. d - 1 : u = w[d - 1][i] /\ u - v = 2 * i - (d - 1)

(* That is where the walk goes.                                            *)
CameBy(u, v, r, x, y, c, w, a, b, d) ==
  /\ Came(u, v, r, x, y, w, a, b, d)
  /\ \A t : t.x = x /\ t.y = y => Back(c, d, t) = WalkBack(t, d, u, v)

(* The run that ends at x and y.                                           *)
LEMMA RunBack ==
  ASSUME NEW a, NEW b, NEW s \in Nat, NEW k \in Int, NEW r \in Nat, Run(a, b, s, k, r), s >= k,
         NEW x \in Nat, NEW y \in Nat, x = s + r, y = s + r - k
  PROVE  EqualBefore(x, y, r, a, b)
<1> SUFFICES ASSUME NEW h \in 0 .. r - 1 PROVE a[x - h] = b[y - h]
  BY DEF EqualBefore
<1>1. PICK i \in 1 .. r : i = r - h
  <2>1. r - h \in 1 .. r
    OBVIOUS
  <2> QED
    BY <2>1
<1>2. a[s + i] = b[s - k + i]
  BY DEF Run
<1>3. s + i = x - h /\ s - k + i = y - h
  BY <1>1
<1> QED
  BY <1>2, <1>3

(* The walk back comes to where the edit before started, for the row it    *)
(* reads is the one that this edit was chosen by.                          *)
LEMMA BackChoice ==
  ASSUME NEW a, NEW b, NEW w, Setting(a, b, w), NEW d \in 0 .. Len(a) + Len(b), NEW j \in 0 .. d,
         NEW c, Row(c, w, d, Len(a) + Len(b)),
         NEW x \in Nat, NEW y \in Nat, x = w[d][j], x - y = 2 * j - d
  PROVE  \E u \in Nat, v \in Int, r \in Nat :
           CameBy(u, v, r, x, y, c, w, a, b, d)
<1>0. Len(a) \in Nat /\ Len(b) \in Nat /\ Reach(w, a, b, Len(a) + Len(b))
  BY DEF Setting
<1>1. PICK top \in Nat : top = Len(a) + Len(b)
  <2>1. Len(a) + Len(b) \in Nat
    BY <1>0
  <2> QED
    BY <2>1
<1>2. d \in 0 .. top /\ d \in Nat /\ j \in Nat
  BY <1>1
<1>3. PICK k \in Int : k = 2 * j - d /\ k = x - y
  OBVIOUS
<1>4. Moved(w, a, b, d, j)
  BY <1>0, Moves
<1>5. PICK s \in Nat : s = Start(w, d, j) /\ s >= k
  BY <1>3, <1>4 DEF Moved
<1>6. PICK r \in Nat : x = s + r /\ Run(a, b, s, k, r)
  <2>1. PICK r \in 0 .. Len(a) : w[d][j] = Start(w, d, j) + r /\ Run(a, b, Start(w, d, j), 2 * j - d, r)
    BY <1>4 DEF Moved
  <2>2. r \in Nat
    BY <1>0
  <2> QED
    BY <1>3, <1>5, <2>1, <2>2
<1>7. y = s + r - k /\ r <= x /\ r <= y
  <2>1. k = x - y /\ x = s + r /\ s >= k
    BY <1>3, <1>5, <1>6
  <2> QED
    BY <2>1
<1>8. EqualBefore(x, y, r, a, b)
  BY <1>5, <1>6, <1>7, RunBack, Zenon
<1>9. d > 0 => Found(c, w, d)
  BY DEF Row
<1>10. GoesDown(c, d, k) <=> d = 0 \/ Down(w, d, j)
  BY <1>2, <1>3, <1>9, ChoiceIs
<1>11. CASE d = 0
  <2>1. k = 0 /\ x = y /\ s = 0 /\ r = x
    BY <1>2, <1>3, <1>5, <1>6, <1>11 DEF Start
  <2>2. c[Slot(c, 1)] = 0
    <3>1. IsRow(c, top) /\ Zeros(c)
      BY <1>1, <1>11 DEF Row
    <3> QED
      BY <3>1, ZeroFirst
  <2>3. PICK v \in Int : v = 0 - 1
    OBVIOUS
  <2>4. Min({x - 0, y - v}) = r
    <3>1. x - 0 \in Int /\ y - v \in Int /\ x - 0 <= y - v /\ x - 0 = r
      BY <2>1, <2>3
    <3> QED
      BY <3>1, MinOfTwo
  <2>5. Came(0, v, r, x, y, w, a, b, d)
    BY <1>7, <1>8, <1>11, <2>1, <2>4 DEF Came
  <2>6. ASSUME NEW t, t.x = x, t.y = y PROVE Back(c, d, t) = WalkBack(t, d, 0, v)
    <3>1. t.x - t.y = 0 /\ GoesDown(c, d, t.x - t.y) /\ t.x - t.y + 1 = 1
      BY <1>10, <1>11, <2>1, <2>6
    <3>2. Back(c, d, t) = WalkBack(t, d, c[Slot(c, 1)], c[Slot(c, 1)] - 1)
      BY <3>1 DEF Back
    <3> QED
      BY <2>2, <2>3, <3>2
  <2>7. CameBy(0, v, r, x, y, c, w, a, b, d)
    BY <2>5, <2>6, Zenon DEF CameBy
  <2>8. 0 \in Nat
    OBVIOUS
  <2> QED
    BY <2>7, <2>8, Zenon
<1>12. CASE d > 0
  <2>0. d # 0 /\ d - 1 \in 0 .. Len(a) + Len(b)
    BY <1>1, <1>2, <1>12
  <2>1. \A h \in 0 .. d - 1 : c[Slot(c, 2 * h - (d - 1))] = w[d - 1][h]
    BY <1>9, <1>12 DEF Found
  <2>2. \A h \in 0 .. d - 1 : w[d - 1][h] \in Nat /\ w[d - 1][h] >= 2 * h - (d - 1)
    BY <2>0, ReachIsBounded
  <2>3. CASE Down(w, d, j)
    <3>1. j \in 0 .. d - 1
      <4>1. j = 0 \/ j # d
        BY <2>3 DEF Down
      <4> QED
        BY <1>2, <1>12, <4>1
    <3>2. 2 * j - (d - 1) = k + 1
      BY <1>2, <1>3
    <3>3. s = w[d - 1][j]
      BY <1>5, <2>0, <2>3, Zenon DEF Start
    <3>4. c[Slot(c, k + 1)] = s
      BY <2>1, <3>1, <3>2, <3>3
    <3>5. s >= k + 1
      BY <2>2, <3>1, <3>2, <3>3
    <3>6. PICK v \in Nat : v = s - (k + 1)
      <4>1. s - (k + 1) \in Nat
        BY <3>5
      <4> QED
        BY <4>1
    <3>7. s = x - r /\ v = (y - r) - 1 /\ s - v = 2 * j - (d - 1)
      BY <1>6, <1>7, <3>2, <3>6
    <3>8. Min({x - s, y - v}) = r
      <4>1. x - s \in Int /\ y - v \in Int /\ x - s <= y - v /\ x - s = r
        BY <1>6, <1>7, <3>6
      <4> QED
        BY <4>1, MinOfTwo
    <3>9. Came(s, v, r, x, y, w, a, b, d)
      BY <1>7, <1>8, <2>0, <3>1, <3>3, <3>7, <3>8 DEF Came
    <3>10. ASSUME NEW t, t.x = x, t.y = y PROVE Back(c, d, t) = WalkBack(t, d, s, v)
      <4>1. t.x - t.y = k /\ GoesDown(c, d, t.x - t.y)
        BY <1>3, <1>10, <2>3, <3>10
      <4>2. Back(c, d, t) = WalkBack(t, d, c[Slot(c, k + 1)], c[Slot(c, k + 1)] - (k + 1))
        BY <4>1 DEF Back
      <4> QED
        BY <3>4, <3>6, <4>2
    <3>11. CameBy(s, v, r, x, y, c, w, a, b, d)
      BY <3>9, <3>10, Zenon DEF CameBy
    <3>12. v \in Int
      OBVIOUS
    <3> QED
      BY <3>11, <3>12, Zenon
  <2>4. CASE ~Down(w, d, j)
    <3>1. j - 1 \in 0 .. d - 1
      <4>1. j # 0
        BY <2>4 DEF Down
      <4> QED
        BY <1>2, <4>1
    <3>2. 2 * (j - 1) - (d - 1) = k - 1
      BY <1>2, <1>3
    <3>3. s = w[d - 1][j - 1] + 1
      BY <1>5, <2>0, <2>4, Zenon DEF Start
    <3>4. PICK u \in Nat : u = w[d - 1][j - 1] /\ u >= k - 1
      BY <2>2, <3>1, <3>2
    <3>5. c[Slot(c, k - 1)] = u
      BY <2>1, <3>1, <3>2, <3>4
    <3>6. PICK v \in Nat : v = u - (k - 1)
      <4>1. u - (k - 1) \in Nat
        BY <3>4
      <4> QED
        BY <4>1
    <3>7. u = (x - r) - 1 /\ v = y - r /\ u - v = 2 * (j - 1) - (d - 1)
      <4>1. s = u + 1 /\ x = s + r /\ y = s + r - k
        BY <1>6, <1>7, <3>3, <3>4
      <4>2. u = (x - r) - 1 /\ v = y - r
        BY <3>6, <4>1
      <4>3. u - v = k - 1
        BY <3>6
      <4> QED
        BY <3>2, <4>2, <4>3
    <3>8. Min({x - u, y - v}) = r
      <4>1. x - u \in Int /\ y - v \in Int /\ ~(x - u <= y - v) /\ y - v = r
        BY <1>6, <1>7, <3>7
      <4> QED
        BY <4>1, MinOfTwo
    <3>9. Came(u, v, r, x, y, w, a, b, d)
      BY <1>7, <1>8, <2>0, <3>1, <3>4, <3>7, <3>8 DEF Came
    <3>10. ASSUME NEW t, t.x = x, t.y = y PROVE Back(c, d, t) = WalkBack(t, d, u, v)
      <4>1. t.x - t.y = k /\ ~GoesDown(c, d, t.x - t.y)
        BY <1>3, <1>10, <2>0, <2>4, <3>10
      <4>2. Back(c, d, t) = WalkBack(t, d, c[Slot(c, k - 1)], c[Slot(c, k - 1)] - (k - 1))
        BY <4>1 DEF Back
      <4> QED
        BY <3>5, <3>6, <4>2
    <3>11. CameBy(u, v, r, x, y, c, w, a, b, d)
      BY <3>9, <3>10, Zenon DEF CameBy
    <3>12. v \in Int
      OBVIOUS
    <3> QED
      BY <3>11, <3>12, Zenon
  <2> QED
    BY <2>3, <2>4, Zenon
<1> QED
  BY <1>2, <1>11, <1>12

(* After the run of T comes the point <<u, v>>, if d is not 0.             *)
WalksTo(t, T, d, u, v) ==
  t.x = u /\ t.y = v /\ t.points = T \o (IF d > 0 THEN <<<<u, v>>>> ELSE <<>>)

(* The fields of WalkBack.                                                 *)
LEMMA WalkBackIs ==
  ASSUME NEW s, NEW d, NEW u, NEW v, NEW r, NEW x, NEW y, NEW P, NEW T,
         s.x = x, s.y = y, s.points = P, Min({x - u, y - v}) = r,
         T = P \o [i \in 1 .. r |-> <<x - i, y - i>>]
  PROVE  WalksTo(WalkBack(s, d, u, v), T, d, u, v)
BY DEF WalkBack, WalksTo

(* The walk is where d edits reach; its points count the edits behind it.  *)
Walked(s, w, a, b, d) ==
  /\ s.x \in 0 .. Len(a) /\ s.y \in 0 .. Len(b)
  /\ \E j \in 0 .. d : s.x = w[d][j] /\ s.x - s.y = 2 * j - d
  /\ Way(s.points, <<Len(a), Len(b)>>, <<s.x, s.y>>, a, b)
  /\ 2 * Len(s.points) + s.x + s.y = Len(a) + Len(b) + EditDistance(a, b) - d

(* At the beginning of both arrays.                                        *)
Arrived(points, a, b) ==
  /\ Way(points, <<Len(a), Len(b)>>, <<0, 0>>, a, b)
  /\ 2 * Len(points) = Len(a) + Len(b) + EditDistance(a, b)

(* The walk after the run, before the edit.                                *)
RunsOn(T, P, p, x, y, r, a, b) ==
  /\ T = P \o [i \in 1 .. r |-> <<x - i, y - i>>]
  /\ Way(T, p, <<x - r, y - r>>, a, b) /\ Len(T) = Len(P) + r

(* The walk goes on along the run that ends where it is.                   *)
LEMMA RanBack ==
  ASSUME NEW a, NEW b, Len(a) \in Nat, Len(b) \in Nat,
         NEW P, NEW p, NEW x \in 0 .. Len(a), NEW y \in 0 .. Len(b), NEW r \in Nat,
         Way(P, p, <<x, y>>, a, b), r <= x, r <= y, EqualBefore(x, y, r, a, b)
  PROVE  \E T : RunsOn(T, P, p, x, y, r, a, b)
<1>1. PICK R : R = [i \in 1 .. r |-> <<x - i, y - i>>]
  OBVIOUS
<1>2. \A h \in 0 .. r - 1 : a[x - h] = b[y - h]
  BY DEF EqualBefore
<1>3. RunWay(R, x, y, r, a, b)
  BY <1>1, <1>2, WayRuns
<1>4. Way(R, <<x, y>>, <<x - r, y - r>>, a, b) /\ Len(R) = r
  BY <1>3, Zenon DEF RunWay
<1>5. PICK T : T = P \o R
  OBVIOUS
<1>6. Joined(T, P, R, p, <<x - r, y - r>>, a, b)
  BY <1>4, <1>5, WayJoins, Zenon
<1>7. Way(T, p, <<x - r, y - r>>, a, b) /\ Len(T) = Len(P) + r
  BY <1>4, <1>6 DEF Joined
<1> QED
  BY <1>1, <1>5, <1>7 DEF RunsOn

(* A row more of the walk back: one edit less, and in the end the          *)
(* beginning of both arrays.                                               *)
LEMMA BackIs ==
  ASSUME NEW a, NEW b, NEW w, Setting(a, b, w), NEW d \in 0 .. Len(a) + Len(b),
         NEW c, Row(c, w, d, Len(a) + Len(b)), NEW s, Walked(s, w, a, b, d)
  PROVE  /\ d > 0 => Walked(Back(c, d, s), w, a, b, d - 1)
         /\ d = 0 => Arrived(Back(c, d, s).points, a, b)
<1>0. Len(a) \in Nat /\ Len(b) \in Nat /\ Reach(w, a, b, Len(a) + Len(b))
  BY DEF Setting
<1>1. PICK x \in 0 .. Len(a), y \in 0 .. Len(b) : x = s.x /\ y = s.y
  BY DEF Walked
<1>2. PICK j \in 0 .. d : x = w[d][j] /\ x - y = 2 * j - d
  BY <1>1 DEF Walked
<1>3. x \in Nat /\ y \in Nat /\ d \in Nat
  BY <1>0
<1>4. PICK u \in Nat, v \in Int, r \in Nat : CameBy(u, v, r, x, y, c, w, a, b, d)
  BY <1>2, <1>3, BackChoice
<1>5. /\ r <= x /\ r <= y /\ EqualBefore(x, y, r, a, b) /\ Min({s.x - u, s.y - v}) = r
      /\ d = 0 => r = x /\ r = y
  BY <1>1, <1>4 DEF CameBy, Came
<1>6. Back(c, d, s) = WalkBack(s, d, u, v)
  BY <1>1, <1>4, Zenon DEF CameBy
<1>7. PICK t : t = WalkBack(s, d, u, v)
  OBVIOUS
<1>8. PICK P : P = s.points
  OBVIOUS
<1>9. Way(P, <<Len(a), Len(b)>>, <<x, y>>, a, b)
  BY <1>1, <1>8, Zenon DEF Walked
<1>10. PICK T : /\ T = P \o [i \in 1 .. r |-> <<x - i, y - i>>]
                /\ Way(T, <<Len(a), Len(b)>>, <<x - r, y - r>>, a, b) /\ Len(T) = Len(P) + r
  <2>1. PICK p : p = <<Len(a), Len(b)>>
    OBVIOUS
  <2>2. Way(P, p, <<x, y>>, a, b)
    BY <1>9, <2>1
  <2>3. \E T : RunsOn(T, P, p, x, y, r, a, b)
    BY <1>0, <1>5, <2>2, RanBack
  <2> QED
    BY <2>1, <2>3, Zenon DEF RunsOn
<1>11. /\ t.x = u /\ t.y = v
       /\ d > 0 => t.points = T \o <<<<u, v>>>>
       /\ ~(d > 0) => t.points = T \o <<>>
  <2>1. Min({x - u, y - v}) = r
    BY <1>1, <1>5
  <2>2. WalksTo(t, T, d, u, v)
    BY <1>1, <1>7, <1>8, <1>10, <2>1, WalkBackIs, Zenon
  <2> QED
    BY <2>2, Zenon DEF WalksTo
<1>12. PICK l \in 0 .. Len(a) + Len(b) : l = EditDistance(a, b)
  BY <1>0, EndsAtDistance
<1>13. PICK o \in Nat : o = Len(P)
  <2>1. P \in Seq(Grid(a, b))
    BY <1>9 DEF Way
  <2> QED
    BY <2>1, LenProperties
<1>14. 2 * o + x + y = Len(a) + Len(b) + l - d
  BY <1>1, <1>8, <1>12, <1>13 DEF Walked
<1>15. ASSUME d > 0 PROVE Walked(t, w, a, b, d - 1)
  <2>1. /\ v \in Nat
        /\ (u = x - r /\ v = (y - r) - 1) \/ (u = (x - r) - 1 /\ v = y - r)
        /\ \E i \in 0 .. d - 1 : u = w[d - 1][i] /\ u - v = 2 * i - (d - 1)
    BY <1>4, <1>15 DEF CameBy, Came
  <2>0. /\ u \in Nat /\ v \in Nat /\ r \in Nat /\ x \in Nat /\ y \in Nat
        /\ (u = x - r /\ v = (y - r) - 1) \/ (u = (x - r) - 1 /\ v = y - r)
    BY <1>3, <1>4, <2>1, Zenon
  <2>13. u + v = x + y - 2 * r - 1 /\ u <= x /\ v <= y
    BY <2>0
  <2>2. u \in 0 .. Len(a) /\ v \in 0 .. Len(b)
    <3>1. x <= Len(a) /\ y <= Len(b)
      BY <1>0
    <3> QED
      BY <1>0, <2>0, <2>13, <3>1
  <2>3. PICK q \in Grid(a, b) : q = <<u, v>>
    BY <2>2 DEF Grid
  <2>4. PICK p : p = <<x - r, y - r>>
    OBVIOUS
  <2>5. StepBack(q, p, a, b)
    BY <2>1, <2>3, <2>4 DEF StepBack
  <2>6. Way(<<q>>, p, q, a, b) /\ Len(<<q>>) = 1
    BY <2>5, WayChanges
  <2>7. PICK Q, U : Q = <<q>> /\ U = T \o Q
    OBVIOUS
  <2>8. Joined(U, T, Q, <<Len(a), Len(b)>>, q, a, b)
    BY <1>10, <2>4, <2>6, <2>7, WayJoins, Zenon
  <2>9. t.points = U
    BY <1>11, <1>15, <2>3, <2>7
  <2>10. Way(t.points, <<Len(a), Len(b)>>, <<t.x, t.y>>, a, b)
    BY <1>11, <2>3, <2>8, <2>9 DEF Joined
  <2>11. Len(t.points) = o + r + 1
    BY <1>10, <1>13, <2>6, <2>7, <2>8, <2>9 DEF Joined
  <2>12. 2 * Len(t.points) + u + v = Len(a) + Len(b) + l - (d - 1)
    <3>1. l \in Nat /\ d \in Nat /\ o \in Nat
      BY <1>0, <1>3
    <3>2. 2 * (o + r + 1) + u + v = 2 * o + x + y + 1
      BY <2>0, <2>13, <3>1
    <3> QED
      BY <1>0, <1>14, <2>0, <2>11, <3>1, <3>2
  <2> QED
    BY <1>11, <1>12, <2>1, <2>2, <2>10, <2>12 DEF Walked
<1>16. ASSUME d = 0 PROVE Arrived(t.points, a, b)
  <2>1. x - r = 0 /\ y - r = 0
    BY <1>3, <1>5, <1>16
  <2>2. t.points = T \o <<>>
    BY <1>11, <1>16
  <2>3. T \in Seq(Grid(a, b))
    BY <1>10 DEF Way
  <2>4. t.points = T
    BY <2>2, <2>3, ConcatEmptySeq
  <2>5. Way(T, <<Len(a), Len(b)>>, <<0, 0>>, a, b)
    BY <1>10, <2>1
  <2>6. 2 * Len(T) = Len(a) + Len(b) + l
    BY <1>0, <1>3, <1>5, <1>10, <1>13, <1>14, <1>16
  <2> QED
    BY <1>12, <2>4, <2>5, <2>6 DEF Arrived
<1> QED
  BY <1>6, <1>7, <1>15, <1>16

(* The walk ends at the beginning of both arrays.                          *)
LEMMA PointsAre ==
  ASSUME NEW a, NEW b, NEW w, Setting(a, b, w)
  PROVE  Arrived(myers_diff_backtrace(a, b), a, b)
<1>0. Len(a) \in Nat /\ Len(b) \in Nat /\ Fit(a, b) /\ Reach(w, a, b, Len(a) + Len(b))
  BY DEF Setting
<1>1. PICK l \in 0 .. Len(a) + Len(b) : l = EditDistance(a, b)
  <2>1. Len(a) + Len(b) \in Nat
    BY <1>0
  <2> QED
    BY <1>0, <2>1, EndsAtDistance
<1>2. l \in Nat /\ l <= Len(a) + Len(b)
  BY <1>0
<1>3. PICK trace : trace = myers_diff_trace(a, b)
  OBVIOUS
<1>4. IsTrace(trace, w, a, b)
  BY <1>3, TraceIs
<1>5. RowsRead(a, b, trace) = l + 1
  <2>1. IndexT(RowLength(a, b)) = 2 * (Len(a) + Len(b)) + 1
    BY <1>0, RowsFit
  <2>2. ~(2 * (Len(a) + Len(b)) + 1 < 0)
    BY <1>0
  <2>3. Len(trace) = l + 1
    BY <1>1, <1>4 DEF IsTrace
  <2> QED
    BY <2>1, <2>2, <2>3 DEF RowsRead
<1>6. myers_diff_backtrace(a, b) = Points(a, b, trace, l + 1)
  BY <1>3, <1>5 DEF myers_diff_backtrace
<1>7. PICK f : WalksBack(f, a, b, trace, l + 1)
  <2>1. l + 1 \in Nat
    BY <1>2
  <2> QED
    BY <2>1, PointsSteps
<1> DEFINE S == {i \in Nat : Walked(f[i], w, a, b, l - i)}
<1>8. 0 \in S
  <2>1. f[0] = [x |-> Len(a), y |-> Len(b), points |-> <<>>]
    BY <1>7 DEF WalksBack
  <2>2. f[0].x = Len(a) /\ f[0].y = Len(b) /\ f[0].points = <<>>
    BY <2>1
  <2>3. PICK j \in 0 .. l : Len(a) = w[l][j] /\ Len(a) - Len(b) = 2 * j - l
    <3>1. EditDistance(a, b) <= Len(a) + Len(b)
      BY <1>1, <1>2
    <3>2. PICK j \in 0 .. l : AtEnd(w, a, b, l, j)
      BY <1>0, <1>1, <3>1, EndsAtDistance
    <3>3. w[l][j] = Len(a) /\ Len(a) - Len(b) = 2 * j - l
      <4>1. l \in 0 .. Len(a) + Len(b) /\ l = EditDistance(a, b) /\ Len(a) + Len(b) \in Nat
        BY <1>0, <1>1
      <4>2. \A d \in 0 .. Len(a) + Len(b) : \A h \in 0 .. d : AtEnd(w, a, b, d, h) =>
              /\ d >= EditDistance(a, b)
              /\ d = EditDistance(a, b) => w[d][h] = Len(a) /\ Len(a) - Len(b) = 2 * h - d
        BY <1>0, <4>1, EndsAtDistance
      <4> QED
        BY <3>2, <4>1, <4>2
    <3> QED
      BY <3>3
  <2>4. Way(f[0].points, <<Len(a), Len(b)>>, <<f[0].x, f[0].y>>, a, b)
    BY <2>2, WayStays, Zenon
  <2>5. 2 * Len(f[0].points) + f[0].x + f[0].y = Len(a) + Len(b) + l - l
    <3>1. Len(f[0].points) = 0
      BY <2>2, EmptySeq
    <3> QED
      BY <1>0, <1>2, <2>2, <3>1
  <2>6. l - 0 = l /\ Len(a) \in 0 .. Len(a) /\ Len(b) \in 0 .. Len(b)
    BY <1>0, <1>2
  <2>7. Walked(f[0], w, a, b, l)
    BY <1>1, <2>2, <2>3, <2>4, <2>5, <2>6 DEF Walked
  <2>8. Walked(f[0], w, a, b, l - 0)
    BY <2>6, <2>7
  <2> QED
    BY <2>8
<1>9. ASSUME NEW i \in 0 .. l, Walked(f[i], w, a, b, l - i)
      PROVE  /\ i < l => Walked(f[i + 1], w, a, b, l - (i + 1))
             /\ i = l => Arrived(f[i + 1].points, a, b)
  <2>1. PICK d \in 0 .. Len(a) + Len(b) : d = l - i
    <3>1. l - i \in 0 .. Len(a) + Len(b)
      BY <1>0, <1>2
    <3> QED
      BY <3>1
  <2>2. /\ i + 1 \in 1 .. l + 1 /\ (i + 1) - 1 = i
        /\ (l + 1) - (i + 1) = d /\ (l + 1) - (i + 1) + 1 = d + 1 /\ d + 1 \in 1 .. l + 1 /\ (d + 1) - 1 = d
    BY <1>0, <1>2, <2>1
  <2>3. f[i + 1] = Back(trace[(l + 1) - (i + 1) + 1], (l + 1) - (i + 1), f[(i + 1) - 1])
    BY <1>7, <2>2 DEF WalksBack
  <2>4. f[i + 1] = Back(trace[d + 1], d, f[i])
    BY <2>2, <2>3
  <2>5. Row(trace[d + 1], w, d, Len(a) + Len(b))
    <3>1. d + 1 \in 1 .. Len(trace)
      BY <1>1, <1>4, <2>2 DEF IsTrace
    <3>2. Row(trace[d + 1], w, (d + 1) - 1, Len(a) + Len(b))
      BY <1>4, <3>1 DEF IsTrace
    <3> QED
      BY <2>2, <3>2
  <2>6. Walked(f[i], w, a, b, d)
    BY <1>9, <2>1
  <2>7. /\ d > 0 => Walked(f[i + 1], w, a, b, d - 1)
        /\ d = 0 => Arrived(f[i + 1].points, a, b)
    BY <2>4, <2>5, <2>6, BackIs
  <2>8. (i < l => d > 0) /\ (i = l => d = 0) /\ d - 1 = l - (i + 1)
    BY <1>0, <1>2, <2>1
  <2> QED
    BY <2>7, <2>8
<1>10. l \in S
  <2>1. \A i \in 0 .. l - 1 : i \in S => i + 1 \in S
    <3> SUFFICES ASSUME NEW i \in 0 .. l - 1, i \in S PROVE i + 1 \in S
      OBVIOUS
    <3>1. i \in 0 .. l /\ i < l /\ i + 1 \in Nat
      BY <1>2
    <3>2. Walked(f[i], w, a, b, l - i)
      OBVIOUS
    <3>3. Walked(f[i + 1], w, a, b, l - (i + 1))
      BY <1>9, <3>1, <3>2
    <3> QED
      BY <3>1, <3>3
  <2> HIDE DEF S
  <2>2. 0 .. l \subseteq S
    BY <1>2, <1>8, <2>1, UpTo
  <2> QED
    BY <1>2, <2>2
<1>11. Arrived(f[l + 1].points, a, b)
  <2>1. Walked(f[l], w, a, b, l - l)
    BY <1>10
  <2>2. l \in 0 .. l
    BY <1>2
  <2> QED
    BY <1>9, <2>1, <2>2
<1>12. Points(a, b, trace, l + 1) = f[l + 1].points
  BY <1>7 DEF WalksBack
<1> QED
  BY <1>6, <1>11, <1>12

-----------------------------------------------------------------------------
(* The script of two arrays *)

EditSet(V) == [val : V, orig : Int, updated : Int, action : {"ADD", "DEL", "EQ"}]

(* Common elements carry their positions.                                  *)
PlacedAt(e, x, y) == e.action = "EQ" => e.orig = x /\ e.updated = y

(* The edit of a step.                                                     *)
LEMMA EditIs ==
  ASSUME NEW V, NEW a \in Seq(V), NEW b \in Seq(V),
         NEW p \in Grid(a, b), NEW q \in Grid(a, b), StepBack(q, p, a, b)
  PROVE  /\ EditBetween(a, b, p, q) \in EditSet(V)
         /\ Follows(EditBetween(a, b, p, q), q[1], q[2], p[1], p[2], a, b)
         /\ PlacedAt(EditBetween(a, b, p, q), q[1], q[2])
<1>0. Len(a) \in Nat /\ Len(b) \in Nat
  BY LenProperties
<1>1. PICK u \in 0 .. Len(a), v \in 0 .. Len(b) : p = <<u, v>>
  BY DEF Grid
<1>2. PICK x \in 0 .. Len(a), y \in 0 .. Len(b) : q = <<x, y>>
  BY DEF Grid
<1>3. x \in Nat /\ y \in Nat /\ u \in Nat /\ v \in Nat
  BY <1>0, <1>1, <1>2
<1>4. p[1] = u /\ p[2] = v /\ q[1] = x /\ q[2] = y
  BY <1>1, <1>2
<1>5. PICK e : e = EditBetween(a, b, p, q)
  OBVIOUS
<1>6. CASE x = u /\ y = v - 1
  <2>1. y + 1 = v /\ v \in 1 .. Len(b)
    BY <1>0, <1>3, <1>6
  <2>2. e = [val |-> b[v], orig |-> -1, updated |-> y, action |-> "ADD"]
    BY <1>4, <1>5, <1>6, <2>1 DEF EditBetween, Edit
  <2>3. b[v] \in V /\ -1 \in Int /\ y \in Int
    BY <1>3, <2>1, ElementOfSeq
  <2>4. e \in EditSet(V)
    BY <2>2, <2>3 DEF EditSet
  <2>5. e.action = "ADD" /\ e.val = b[v] /\ PlacedAt(e, x, y)
    BY <2>2 DEF PlacedAt
  <2>6. Follows(e, x, y, u, v, a, b)
    BY <1>0, <1>3, <1>6, <2>1, <2>5 DEF Follows
  <2> QED
    BY <1>4, <1>5, <2>4, <2>5, <2>6
<1>7. CASE x = u - 1 /\ y = v
  <2>1. x + 1 = u /\ u \in 1 .. Len(a) /\ x # u
    BY <1>0, <1>3, <1>7
  <2>2. e = [val |-> a[u], orig |-> x, updated |-> -1, action |-> "DEL"]
    BY <1>4, <1>5, <1>7, <2>1 DEF EditBetween, Edit
  <2>3. a[u] \in V /\ -1 \in Int /\ x \in Int
    BY <1>3, <2>1, ElementOfSeq
  <2>4. e \in EditSet(V)
    BY <2>2, <2>3 DEF EditSet
  <2>5. e.action = "DEL" /\ e.val = a[u] /\ PlacedAt(e, x, y)
    BY <2>2 DEF PlacedAt
  <2>6. Follows(e, x, y, u, v, a, b)
    BY <1>0, <1>3, <1>7, <2>1, <2>5 DEF Follows
  <2> QED
    BY <1>4, <1>5, <2>4, <2>5, <2>6
<1>8. CASE x = u - 1 /\ y = v - 1 /\ a[u] = b[v]
  <2>1. x + 1 = u /\ u \in 1 .. Len(a) /\ x # u /\ y + 1 = v /\ v \in 1 .. Len(b) /\ y # v
    BY <1>0, <1>3, <1>8
  <2>2. e = [val |-> a[u], orig |-> x, updated |-> y, action |-> "EQ"]
    BY <1>4, <1>5, <1>8, <2>1 DEF EditBetween, Edit
  <2>3. a[u] \in V /\ y \in Int /\ x \in Int
    BY <1>3, <2>1, ElementOfSeq
  <2>4. e \in EditSet(V)
    BY <2>2, <2>3 DEF EditSet
  <2>5. e.action = "EQ" /\ e.val = a[u] /\ PlacedAt(e, x, y)
    BY <2>2 DEF PlacedAt
  <2>6. Follows(e, x, y, u, v, a, b)
    BY <1>0, <1>3, <1>8, <2>1, <2>5 DEF Follows
  <2> QED
    BY <1>4, <1>5, <2>4, <2>5, <2>6
<1> QED
  BY <1>4, <1>6, <1>7, <1>8 DEF StepBack

(* A script of two arrays, with the prefixes that its edits make.          *)
Script(edits, xs, ys, a, b, V) ==
  /\ edits \in Seq(EditSet(V))
  /\ Path(edits, xs, ys, a, b)
  /\ xs[Len(edits)] = Len(a) /\ ys[Len(edits)] = Len(b)
  /\ \A i \in 1 .. Len(edits) : PlacedAt(edits[i], xs[i - 1], ys[i - 1])

(* A walk back to the beginning makes a script.                            *)
LEMMA EditsOfWalk ==
  ASSUME NEW V, NEW a \in Seq(V), NEW b \in Seq(V),
         NEW Z, Way(Z, <<Len(a), Len(b)>>, <<0, 0>>, a, b)
  PROVE  \E xs, ys : /\ Script(Edits(a, b, <<<<Len(a), Len(b)>>>> \o Z), xs, ys, a, b, V)
                     /\ Len(Edits(a, b, <<<<Len(a), Len(b)>>>> \o Z)) = Len(Z)
<1> DEFINE G == Grid(a, b)
<1>0. Len(a) \in Nat /\ Len(b) \in Nat
  BY LenProperties
<1>1. PICK p \in G : p = <<Len(a), Len(b)>>
  <2>1. <<Len(a), Len(b)>> \in G
    BY <1>0 DEF Grid
  <2> QED
    BY <2>1
<1> HIDE DEF G
<1>2. Z \in Seq(G)
  BY DEF Way, G
<1>3. PICK n \in Nat : n = Len(Z)
  BY <1>2, LenProperties
<1>4. PICK P : P = <<p>> \o Z
  OBVIOUS
<1>5. P \in Seq(G) /\ Len(P) = n + 1 /\ P[1] = p /\ \A i \in 1 .. n : P[i + 1] = Z[i]
  <2>1. <<p>> \in Seq(G) /\ Len(<<p>>) = 1 /\ <<p>>[1] = p
    OBVIOUS
  <2>2. Concat(P, <<p>>, Z, G)
    BY <1>2, <1>4, <2>1, ConcatIs, Zenon
  <2>3. P \in Seq(G) /\ Len(P) = 1 + n
        /\ \A i \in 1 .. 1 + n : P[i] = IF i <= 1 THEN <<p>>[i] ELSE Z[i - 1]
    BY <1>3, <2>1, <2>2 DEF Concat
  <2>4. P[1] = p
    BY <2>1, <2>3
  <2>5. ASSUME NEW i \in 1 .. n PROVE P[i + 1] = Z[i]
    <3>1. i + 1 \in 1 .. 1 + n /\ ~(i + 1 <= 1) /\ (i + 1) - 1 = i
      OBVIOUS
    <3> QED
      BY <2>3, <3>1
  <2> QED
    BY <2>3, <2>4, <2>5
<1>6. \A i \in 1 .. n + 1 : P[i] \in G
  BY <1>5, ElementOfSeq
<1>7. \A i \in 1 .. n : StepBack(P[i + 1], P[i], a, b)
  <2> SUFFICES ASSUME NEW i \in 1 .. n PROVE StepBack(P[i + 1], P[i], a, b)
    OBVIOUS
  <2>1. StepBack(Z[i], IF i = 1 THEN p ELSE Z[i - 1], a, b)
    BY <1>1, <1>3 DEF Way
  <2>2. (IF i = 1 THEN p ELSE Z[i - 1]) = P[i]
    <3>1. CASE i = 1
      BY <1>5, <3>1
    <3>2. CASE i # 1
      <4>1. i - 1 \in 1 .. n /\ (i - 1) + 1 = i
        BY <3>2
      <4> QED
        BY <1>5, <3>2, <4>1
    <3> QED
      BY <3>1, <3>2
  <2> QED
    BY <1>5, <2>1, <2>2
<1>8. P[n + 1] = <<0, 0>>
  <2>1. <<0, 0>> = IF n = 0 THEN p ELSE Z[n]
    BY <1>1, <1>3 DEF Way
  <2>2. CASE n = 0
    BY <1>5, <2>1, <2>2
  <2>3. CASE n # 0
    <3>1. n \in 1 .. n
      BY <2>3
    <3> QED
      BY <1>5, <2>1, <2>3, <3>1
  <2> QED
    BY <2>2, <2>3
<1>9. PICK F : F = [i \in 1 .. n |-> EditBetween(a, b, P[i], P[i + 1])]
  OBVIOUS
<1>10. ASSUME NEW i \in 1 .. n
       PROVE  /\ F[i] \in EditSet(V)
              /\ Follows(F[i], P[i + 1][1], P[i + 1][2], P[i][1], P[i][2], a, b)
              /\ PlacedAt(F[i], P[i + 1][1], P[i + 1][2])
  <2>1. P[i] \in Grid(a, b) /\ P[i + 1] \in Grid(a, b)
    <3>1. i \in 1 .. n + 1 /\ i + 1 \in 1 .. n + 1
      OBVIOUS
    <3> QED
      BY <1>6, <3>1 DEF G
  <2>2. F[i] = EditBetween(a, b, P[i], P[i + 1])
    BY <1>9
  <2>3. StepBack(P[i + 1], P[i], a, b)
    BY <1>7
  <2> QED
    BY <2>1, <2>2, <2>3, EditIs
<1>11. PICK E : E = [j \in 1 .. n |-> F[(n - j) + 1]]
  OBVIOUS
<1>12. ASSUME NEW j \in 1 .. n PROVE E[j] = F[(n - j) + 1] /\ (n - j) + 1 \in 1 .. n
  BY <1>11
<1>13. F \in Seq(EditSet(V)) /\ E \in Seq(EditSet(V)) /\ Len(F) = n /\ Len(E) = n
  <2>1. F \in [1 .. n -> EditSet(V)] /\ E \in [1 .. n -> EditSet(V)]
    BY <1>9, <1>10, <1>11, <1>12
  <2>2. F \in Seq(EditSet(V)) /\ E \in Seq(EditSet(V))
    BY <2>1, SeqDef, Zenon
  <2> QED
    BY <2>1, <2>2, LenOfDomain
<1>14. Edits(a, b, P) = E
  <2>1. Len(P) - 1 = n
    BY <1>5
  <2>2. Edits(a, b, P) = Reverse(F)
    BY <1>9, <2>1 DEF Edits
  <2>3. Reverse(F) = [j \in 1 .. Len(F) |-> F[(Len(F) - j) + 1]]
    BY DEF Reverse
  <2> QED
    BY <1>11, <1>13, <2>2, <2>3
<1>15. PICK xs, ys : /\ xs = [j \in 0 .. n |-> P[(n - j) + 1][1]]
                     /\ ys = [j \in 0 .. n |-> P[(n - j) + 1][2]]
  OBVIOUS
<1>16. ASSUME NEW j \in 0 .. n
       PROVE  xs[j] = P[(n - j) + 1][1] /\ ys[j] = P[(n - j) + 1][2] /\ xs[j] \in Nat /\ ys[j] \in Nat
  <2>1. (n - j) + 1 \in 1 .. n + 1
    OBVIOUS
  <2>2. PICK u \in 0 .. Len(a), v \in 0 .. Len(b) : P[(n - j) + 1] = <<u, v>>
    BY <1>6, <2>1 DEF G, Grid
  <2>3. u \in Nat /\ v \in Nat
    BY <1>0
  <2>4. xs[j] = P[(n - j) + 1][1] /\ ys[j] = P[(n - j) + 1][2]
    BY <1>15
  <2> QED
    BY <2>2, <2>3, <2>4
<1>17. Path(E, xs, ys, a, b) /\ \A j \in 1 .. n : PlacedAt(E[j], xs[j - 1], ys[j - 1])
  <2>1. xs[0] = 0 /\ ys[0] = 0
    <3>1. 0 \in 0 .. n /\ (n - 0) + 1 = n + 1
      OBVIOUS
    <3>2. xs[0] = P[n + 1][1] /\ ys[0] = P[n + 1][2]
      BY <1>16, <3>1
    <3> QED
      BY <1>8, <3>2
  <2>2. ASSUME NEW j \in 1 .. n
        PROVE  /\ xs[j - 1] \in Nat /\ ys[j - 1] \in Nat /\ xs[j] \in Nat /\ ys[j] \in Nat
               /\ Follows(E[j], xs[j - 1], ys[j - 1], xs[j], ys[j], a, b)
               /\ PlacedAt(E[j], xs[j - 1], ys[j - 1])
    <3>1. PICK i \in 1 .. n : i = (n - j) + 1
      BY <1>12
    <3>2. j \in 0 .. n /\ j - 1 \in 0 .. n /\ (n - (j - 1)) + 1 = i + 1
      BY <3>1
    <3>3. xs[j] = P[i][1] /\ ys[j] = P[i][2] /\ xs[j] \in Nat /\ ys[j] \in Nat
      BY <1>16, <3>1, <3>2
    <3>4. xs[j - 1] = P[i + 1][1] /\ ys[j - 1] = P[i + 1][2] /\ xs[j - 1] \in Nat /\ ys[j - 1] \in Nat
      BY <1>16, <3>2
    <3>5. E[j] = F[i]
      BY <1>12, <3>1
    <3>6. /\ Follows(F[i], P[i + 1][1], P[i + 1][2], P[i][1], P[i][2], a, b)
          /\ PlacedAt(F[i], P[i + 1][1], P[i + 1][2])
      BY <1>10
    <3> QED
      BY <3>3, <3>4, <3>5, <3>6
  <2> QED
    BY <1>13, <2>1, <2>2 DEF Path
<1>18. xs[n] = Len(a) /\ ys[n] = Len(b)
  <2>1. n \in 0 .. n /\ (n - n) + 1 = 1
    OBVIOUS
  <2>2. xs[n] = P[1][1] /\ ys[n] = P[1][2]
    BY <1>16, <2>1
  <2> QED
    BY <1>1, <1>5, <2>2
<1>19. Script(E, xs, ys, a, b, V)
  BY <1>13, <1>17, <1>18 DEF Script
<1>20. Edits(a, b, <<<<Len(a), Len(b)>>>> \o Z) = E
  BY <1>1, <1>4, <1>14
<1> QED
  BY <1>3, <1>13, <1>19, <1>20

(* The algorithm makes a script, as short as the edit distance says.       *)
Differs(edits, xs, ys, a, b, V) ==
  Script(edits, xs, ys, a, b, V) /\ 2 * Len(edits) = Len(a) + Len(b) + EditDistance(a, b)

(* What myers_diff returns is such a script, and myers_diff_min_edit is    *)
(* its number of changes.                                                  *)
LEMMA DiffScript ==
  ASSUME NEW V, NEW a \in Seq(V), NEW b \in Seq(V), Fit(a, b)
  PROVE  /\ \E xs, ys : Differs(myers_diff(a, b), xs, ys, a, b, V)
         /\ myers_diff_min_edit(a, b) = EditDistance(a, b)
<1>0. Len(a) \in Nat /\ Len(b) \in Nat
  BY LenProperties
<1>1. PICK top \in Nat : top = Len(a) + Len(b)
  <2>1. Len(a) + Len(b) \in Nat
    BY <1>0
  <2> QED
    BY <2>1
<1>2. PICK w : Reach(w, a, b, top)
  BY ReachExists
<1>3. Setting(a, b, w)
  BY <1>0, <1>1, <1>2 DEF Setting
<1>4. PICK Z : Z = myers_diff_backtrace(a, b)
  OBVIOUS
<1>5. Way(Z, <<Len(a), Len(b)>>, <<0, 0>>, a, b) /\ 2 * Len(Z) = Len(a) + Len(b) + EditDistance(a, b)
  BY <1>3, <1>4, PointsAre DEF Arrived
<1>6. myers_diff(a, b) = Edits(a, b, <<<<Len(a), Len(b)>>>> \o Z)
  BY <1>4 DEF myers_diff
<1>7. PICK edits : edits = Edits(a, b, <<<<Len(a), Len(b)>>>> \o Z)
  OBVIOUS
<1>8. PICK xs, ys : Script(edits, xs, ys, a, b, V) /\ Len(edits) = Len(Z)
  BY <1>5, <1>7, EditsOfWalk
<1>9. Differs(edits, xs, ys, a, b, V)
  BY <1>5, <1>8 DEF Differs
<1> QED
  BY <1>3, <1>6, <1>7, <1>9, MinEditIs

(* The script of myers_diff turns the one array into the other, its number *)
(* of changes is the edit distance, and myers_diff_min_edit finds the same *)
(* number: for arrays of any values whose rows an IndexT can count.        *)
THEOREM ShortestScript ==
  ASSUME NEW V, NEW a \in Seq(V), NEW b \in Seq(V), Fit(a, b)
  PROVE  /\ Turns(myers_diff(a, b), a, b)
         /\ Changes(myers_diff(a, b)) = EditDistance(a, b)
         /\ Changes(myers_diff(a, b)) = myers_diff_min_edit(a, b)
<1>0. Len(a) \in Nat /\ Len(b) \in Nat
  BY LenProperties
<1>1. PICK edits : edits = myers_diff(a, b)
  OBVIOUS
<1>2. PICK xs, ys : Differs(edits, xs, ys, a, b, V)
  BY <1>1, DiffScript
<1>3. /\ Path(edits, xs, ys, a, b) /\ xs[Len(edits)] = Len(a) /\ ys[Len(edits)] = Len(b)
      /\ 2 * Len(edits) = Len(a) + Len(b) + EditDistance(a, b)
  BY <1>2 DEF Differs, Script
<1>4. Makes(edits, xs[Len(edits)], ys[Len(edits)], a, b)
  BY <1>3, PathMakes, Zenon
<1>5. /\ Kept(edits, {"EQ", "DEL"}) = SubSeq(a, 1, Len(a))
      /\ Kept(edits, {"EQ", "ADD"}) = SubSeq(b, 1, Len(b))
  BY <1>3, <1>4 DEF Makes
<1>6. Changes(edits) = 2 * Len(edits) - (Len(a) + Len(b))
  BY <1>3, PathChanges
<1>7. SubSeq(a, 1, Len(a)) = a /\ SubSeq(b, 1, Len(b)) = b
  BY SubSeqFull
<1>8. PICK l \in Nat : l = EditDistance(a, b)
  <2>1. Len(a) + Len(b) \in Nat
    BY <1>0
  <2>2. \E w : Reach(w, a, b, Len(a) + Len(b))
    BY <2>1, ReachExists
  <2>3. EditDistance(a, b) \in 0 .. Len(a) + Len(b)
    BY <1>0, <2>1, <2>2, EndsAtDistance
  <2> QED
    BY <2>1, <2>3
<1>9. Changes(edits) = EditDistance(a, b)
  BY <1>0, <1>3, <1>6, <1>8
<1>10. myers_diff_min_edit(a, b) = EditDistance(a, b)
  BY DiffScript
<1> QED
  BY <1>1, <1>4, <1>5, <1>7, <1>9, <1>10 DEF Turns

-----------------------------------------------------------------------------
(* The texts of DiffMsg *)

Text == Lines \cup RawLines

(* The loop of process_lines.                                              *)
Cleaned(raw, trim_spaces, i) == IF trim_spaces THEN trim(raw[i]) ELSE raw[i]

Processes(f, raw, ignore_empty_lines, trim_spaces) ==
  /\ process_lines(raw, ignore_empty_lines, trim_spaces) = f[Len(raw)]
  /\ f[0] = <<>>
  /\ \A i \in 1 .. Len(raw) :
       f[i] = IF ~ignore_empty_lines \/ Cleaned(raw, trim_spaces, i) # ""
              THEN Append(f[i - 1], Cleaned(raw, trim_spaces, i)) ELSE f[i - 1]


(* The loop exists and satisfies its equation.                             *)
LEMMA ProcessSteps ==
  ASSUME NEW raw, Len(raw) \in Nat, NEW ignore_empty_lines, NEW trim_spaces
  PROVE  \E f : Processes(f, raw, ignore_empty_lines, trim_spaces)
<1> DEFINE n == Len(raw)
           start == <<>>
           E(i, v) == IF ~ignore_empty_lines \/ Cleaned(raw, trim_spaces, i) # "" THEN Append(v, Cleaned(raw, trim_spaces, i)) ELSE v
           Is(f) == f = [i \in 0 .. n |-> IF i = 0 THEN start ELSE E(i, f[i - 1])]
           S == {k \in Nat : \E f : f[0] = start /\ \A i \in 1 .. k : f[i] = E(i, f[i - 1])}
<1>1. n \in Nat
  OBVIOUS
<1>2. \E f : Is(f)
  <2> HIDE DEF start, E
  <2>1. 0 \in S
    <3>1. PICK f : f = [i \in 0 .. 0 |-> start]
      OBVIOUS
    <3>2. f[0] = start /\ \A i \in 1 .. 0 : f[i] = E(i, f[i - 1])
      BY <3>1
    <3> QED
      BY <3>2
  <2>2. ASSUME NEW k \in Nat, k \in S PROVE k + 1 \in S
    <3>1. PICK f : f[0] = start /\ \A i \in 1 .. k : f[i] = E(i, f[i - 1])
      BY <2>2
    <3>2. PICK g : g = [i \in 0 .. k + 1 |-> IF i = k + 1 THEN E(i, f[k]) ELSE f[i]]
      OBVIOUS
    <3>3. g[k + 1] = E(k + 1, f[k]) /\ \A i \in 0 .. k : g[i] = f[i]
      BY <3>2
    <3>4. g[0] = start
      BY <3>1, <3>3
    <3>5. ASSUME NEW i \in 1 .. k + 1 PROVE g[i] = E(i, g[i - 1])
      <4>1. i - 1 \in 0 .. k /\ (k + 1) - 1 = k
        OBVIOUS
      <4>2. CASE i = k + 1
        BY <3>3, <4>1, <4>2
      <4>3. CASE i # k + 1
        <5>1. i \in 1 .. k /\ i \in 0 .. k
          BY <4>3
        <5> QED
          BY <3>1, <3>3, <4>1, <5>1
      <4> QED
        BY <4>2, <4>3
    <3> QED
      BY <3>4, <3>5
  <2>3. n \in S
    <3> HIDE DEF S, n
    <3>1. \A i \in 0 .. n - 1 : i \in S => i + 1 \in S
      BY <1>1, <2>2
    <3>2. 0 .. n \subseteq S
      BY <1>1, <2>1, <3>1, UpTo
    <3> QED
      BY <1>1, <3>2
  <2> HIDE DEF n
  <2>4. PICK f : f[0] = start /\ \A i \in 1 .. n : f[i] = E(i, f[i - 1])
    BY <2>3
  <2>5. PICK g : g = [i \in 0 .. n |-> f[i]]
    OBVIOUS
  <2>6. \A i \in 0 .. n : g[i] = f[i]
    BY <2>5
  <2>7. ASSUME NEW i \in 0 .. n PROVE f[i] = IF i = 0 THEN start ELSE E(i, g[i - 1])
    <3>1. CASE i = 0
      BY <2>4, <3>1
    <3>2. CASE i # 0
      <4>1. i \in 1 .. n /\ i - 1 \in 0 .. n
        BY <1>1, <3>2
      <4> QED
        BY <2>4, <2>6, <3>2, <4>1
    <3> QED
      BY <3>1, <3>2
  <2>8. g = [i \in 0 .. n |-> IF i = 0 THEN start ELSE E(i, g[i - 1])]
    BY <2>5, <2>7
  <2> QED
    BY <2>8
<1> DEFINE f == CHOOSE f : Is(f)
<1>3. Is(f)
  <2> HIDE DEF Is
  <2> QED
    BY <1>2, Zenon
<1>4. process_lines(raw, ignore_empty_lines, trim_spaces) = f[Len(raw)]
  BY DEF process_lines, Cleaned
<1> HIDE DEF f
<1>5. f[0] = start /\ \A i \in 1 .. n : f[i] = E(i, f[i - 1])
  <2> HIDE DEF start, E, n
  <2>1. \A i \in 0 .. n : f[i] = IF i = 0 THEN start ELSE E(i, f[i - 1])
    BY <1>3
  <2>2. 0 \in 0 .. n /\ \A i \in 1 .. n : i \in 0 .. n /\ i # 0
    BY <1>1
  <2> QED
    BY <2>1, <2>2
<1> QED
  BY <1>4, <1>5 DEF Processes

(* The lines of a text are no more than those it was read from.            *)
LEMMA LinesKept ==
  ASSUME NEW raw \in Seq(RawLines), NEW ignore_empty_lines \in BOOLEAN, NEW trim_spaces \in BOOLEAN
  PROVE  /\ process_lines(raw, ignore_empty_lines, trim_spaces) \in Seq(RawLines)
         /\ Len(process_lines(raw, ignore_empty_lines, trim_spaces)) <= Len(raw)
<1>1. Len(raw) \in Nat
  BY LenProperties
<1>2. PICK f : Processes(f, raw, ignore_empty_lines, trim_spaces)
  BY <1>1, ProcessSteps
<1> DEFINE T == {i \in Nat : f[i] \in Seq(RawLines) /\ Len(f[i]) <= i}
<1>3. 0 \in T
  <2>1. <<>> \in Seq(RawLines) /\ Len(<<>>) = 0
    BY EmptySeq
  <2>2. f[0] = <<>>
    BY <1>2 DEF Processes
  <2>3. f[0] \in Seq(RawLines) /\ Len(f[0]) = 0
    BY <2>1, <2>2, Zenon
  <2> QED
    BY <2>3
<1>4. ASSUME NEW i \in 0 .. Len(raw) - 1, i \in T PROVE i + 1 \in T
  <2>1. i \in Nat /\ i + 1 \in 1 .. Len(raw) /\ (i + 1) - 1 = i
    BY <1>1
  <2>2. PICK s \in Seq(RawLines) : s = f[i] /\ Len(s) <= i /\ Len(s) \in Nat
    BY <1>4, LenProperties
  <2>3. PICK l : l = Cleaned(raw, trim_spaces, i + 1)
    OBVIOUS
  <2>4. l \in RawLines
    <3>1. raw[i + 1] \in RawLines
      BY <2>1, ElementOfSeq
    <3>2. \A r \in RawLines : trim(r) \in RawLines
      BY DEF RawLines, trim
    <3>3. trim(raw[i + 1]) \in RawLines
      BY <3>1, <3>2
    <3> QED
      BY <2>3, <3>1, <3>3 DEF Cleaned
  <2>5. f[i + 1] = Append(s, l) \/ f[i + 1] = s
    <3>1. f[i + 1] = IF ~ignore_empty_lines \/ Cleaned(raw, trim_spaces, i + 1) # ""
              THEN Append(f[(i + 1) - 1], Cleaned(raw, trim_spaces, i + 1)) ELSE f[(i + 1) - 1]
      BY <1>2, <2>1 DEF Processes
    <3>2. f[(i + 1) - 1] = s
      BY <2>1, <2>2
    <3> QED
      BY <2>3, <3>1, <3>2, Zenon
  <2>6. Append(s, l) \in Seq(RawLines) /\ Len(Append(s, l)) <= i + 1
    <3>1. Append(s, l) \in Seq(RawLines) /\ Len(Append(s, l)) = Len(s) + 1
      BY <2>4, AppendProperties
    <3> QED
      BY <2>1, <2>2, <3>1
  <2>7. Len(s) <= i + 1
    BY <2>1, <2>2
  <2>8. f[i + 1] \in Seq(RawLines) /\ Len(f[i + 1]) <= i + 1
    BY <2>2, <2>5, <2>6, <2>7, Zenon
  <2> QED
    BY <2>1, <2>8
<1>5. Len(raw) \in T
  <2> HIDE DEF T
  <2>1. 0 .. Len(raw) \subseteq T
    BY <1>1, <1>3, <1>4, UpTo
  <2> QED
    BY <1>1, <2>1
<1> QED
  BY <1>2, <1>5 DEF Processes

(* Rows of the longest texts have lengths that an IndexT can count; a row  *)
(* is twice as long as both texts together.                                *)
TextsFit == 4 * MaxLines + 1 <= MaxIndex /\ 4 * MaxRaw + 1 <= MaxIndex

TextOK(t) == t \in Seq(Text) /\ Len(t) \in Nat /\ 4 * Len(t) + 1 <= MaxIndex
TextsOK == TextOK(expect) /\ TextOK(got)

(* The elements of BoundedSeq.                                             *)
LEMMA Bounded ==
  ASSUME NEW S, NEW n \in Nat, NEW s \in BoundedSeq(S, n)
  PROVE  s \in Seq(S) /\ Len(s) \in Nat /\ Len(s) <= n
<1>1. PICK m \in 0 .. n : s \in [1 .. m -> S]
  BY DEF BoundedSeq, SeqOf
<1>2. m \in Nat /\ m <= n
  OBVIOUS
<1>3. s \in Seq(S)
  BY <1>1, <1>2, SeqDef, Zenon
<1>4. Len(s) = m
  BY <1>1, <1>2, <1>3, LenOfDomain
<1> QED
  BY <1>2, <1>3, <1>4

(* The texts a caller gives, and the texts that files hold.                *)
LEMMA LinesOfCaller ==
  ASSUME NEW t \in BoundedSeq(Lines, MaxLines)
  PROVE  t \in Seq(Text) /\ Len(t) \in Nat /\ Len(t) <= MaxLines
<1>1. t \in Seq(Lines) /\ Len(t) \in Nat /\ Len(t) <= MaxLines
  BY DiffAssumption, Bounded
<1> QED
  BY <1>1 DEF Text

(* Of a raw text of at most MaxRaw lines.                                  *)
LEMMA LinesOfFile ==
  ASSUME NEW r \in BoundedSeq(RawLines, MaxRaw), NEW ignore \in BOOLEAN, NEW trims \in BOOLEAN,
         NEW t, t = process_lines(r, ignore, trims)
  PROVE  t \in Seq(Text) /\ Len(t) \in Nat /\ Len(t) <= MaxRaw
<1>0. MaxRaw \in Nat
  BY DiffAssumption
<1>1. r \in Seq(RawLines) /\ Len(r) \in Nat /\ Len(r) <= MaxRaw
  BY <1>0, Bounded
<1>2. t \in Seq(RawLines) /\ Len(t) <= Len(r)
  BY <1>1, LinesKept
<1>3. t \in Seq(Text) /\ Len(t) \in Nat
  BY <1>2, LenProperties DEF Text
<1> QED
  BY <1>0, <1>1, <1>2, <1>3

(* The two ways to begin.                                                  *)
TwoTexts(n) ==
  /\ expect \in Seq(Text) /\ Len(expect) \in Nat /\ Len(expect) <= n
  /\ got \in Seq(Text) /\ Len(got) \in Nat /\ Len(got) <= n

(* Behaviours begin with one kind of texts or the other.                   *)
LEMMA TextsBegin ==
  ASSUME DiffInit
  PROVE  \/ TwoTexts(MaxLines) /\ batch_limit \in Limits
         \/ TwoTexts(MaxRaw) /\ batch_limit = MaxIndex
<1>1. CASE /\ expect \in BoundedSeq(Lines, MaxLines)
           /\ got \in BoundedSeq(Lines, MaxLines)
           /\ batch_limit \in Limits
  BY <1>1, LinesOfCaller DEF TwoTexts
<1>2. CASE /\ \E ex, go \in BoundedSeq(RawLines, MaxRaw), ignore, trims \in BOOLEAN :
                /\ expect = process_lines(ex, ignore, trims)
                /\ got = process_lines(go, ignore, trims)
           /\ batch_limit = MaxIndex
  BY <1>2, LinesOfFile DEF TwoTexts
<1> QED
  BY <1>1, <1>2 DEF DiffInit

(* Parts of two such texts fit an IndexT.                                  *)
LEMMA PartsFit ==
  ASSUME NEW a, NEW b, TextOK(a), TextOK(b),
         NEW p, NEW q, Len(p) \in Nat, Len(q) \in Nat, Len(p) <= Len(a), Len(q) <= Len(b)
  PROVE  Fit(p, q)
BY MaxIndexType DEF TextOK, Fit

(* No step changes the texts.                                              *)
LEMMA TextsStay == TextsOK /\ [DiffNext]_diffVars => TextsOK'
<1> SUFFICES ASSUME TextsOK, [DiffNext]_diffVars PROVE TextsOK'
  OBVIOUS
<1>1. UNCHANGED <<expect, got, batch_limit>>
  BY DEF DiffNext, Rest, Cut, Show, diffVars
<1> QED
  BY <1>1 DEF TextsOK, TextOK

(* Before a batch is cut, the script of the texts turns one into the       *)
(* other, and it is a shortest one: myers_diff on texts the rows of which  *)
(* an IndexT can count.                                                    *)
THEOREM ScriptsAreShortest ==
  ASSUME TextsFit
  PROVE  DiffSpec => []ScriptIsShortest
<1>1. DiffInit => TextsOK
  BY TextsBegin, DiffAssumption, MaxIndexType DEF TwoTexts, TextsFit, TextsOK, TextOK
<1>2. TextsOK => ScriptIsShortest
  <2> SUFFICES ASSUME TextsOK PROVE ScriptIsShortest
    OBVIOUS
  <2>1. TextOK(expect) /\ TextOK(got) /\ expect \in Seq(Text) /\ got \in Seq(Text)
    BY DEF TextsOK, TextOK
  <2>2. Fit(expect, got)
    BY <2>1, PartsFit DEF TextOK
  <2>3. /\ Turns(myers_diff(expect, got), expect, got)
        /\ Changes(myers_diff(expect, got)) = EditDistance(expect, got)
        /\ Changes(myers_diff(expect, got)) = myers_diff_min_edit(expect, got)
    BY <2>1, <2>2, ShortestScript
  <2> QED
    BY <2>3 DEF ScriptIsShortest
<1> QED
  BY <1>1, <1>2, TextsStay, PTL DEF DiffSpec

-----------------------------------------------------------------------------
(* Scripts of parts of the texts *)

(* The edits lead to the prefixes of lengths x and y.                      *)
Leads(edits, x, y, a, b) ==
  \E xs, ys : Path(edits, xs, ys, a, b) /\ xs[Len(edits)] = x /\ ys[Len(edits)] = y

(* Each edit gets past a line at least.                                    *)
LEMMA PathLength ==
  ASSUME NEW a, NEW b, NEW edits, NEW xs, NEW ys, Path(edits, xs, ys, a, b)
  PROVE  /\ xs[Len(edits)] \in Nat /\ ys[Len(edits)] \in Nat
         /\ Len(edits) <= xs[Len(edits)] + ys[Len(edits)]
<1>1. Len(edits) \in Nat /\ xs[0] = 0 /\ ys[0] = 0
  BY DEF Path
<1> DEFINE T == {i \in Nat : xs[i] \in Nat /\ ys[i] \in Nat /\ i <= xs[i] + ys[i]}
<1>2. 0 \in T
  BY <1>1
<1>3. ASSUME NEW i \in 0 .. Len(edits) - 1, i \in T PROVE i + 1 \in T
  <2>1. /\ i \in Nat /\ xs[i] \in Nat /\ ys[i] \in Nat /\ xs[i + 1] \in Nat /\ ys[i + 1] \in Nat
        /\ Follows(edits[i + 1], xs[i], ys[i], xs[i + 1], ys[i + 1], a, b)
    BY <1>1, PathSteps
  <2>2. i <= xs[i] + ys[i]
    BY <1>3
  <2>3. xs[i + 1] + ys[i + 1] >= xs[i] + ys[i] + 1
    BY <2>1 DEF Follows
  <2> QED
    BY <2>1, <2>2, <2>3
<1>4. Len(edits) \in T
  <2> HIDE DEF T
  <2>1. 0 .. Len(edits) \subseteq T
    BY <1>1, <1>2, <1>3, UpTo
  <2> QED
    BY <1>1, <2>1
<1> QED
  BY <1>4

(* The beginning of a script.                                              *)
LEMMA PathPrefix ==
  ASSUME NEW S, NEW edits \in Seq(S), NEW a, NEW b, NEW xs, NEW ys, Path(edits, xs, ys, a, b),
         NEW k \in 0 .. Len(edits)
  PROVE  /\ SubSeq(edits, 1, k) \in Seq(S) /\ Len(SubSeq(edits, 1, k)) = k
         /\ \A i \in 1 .. k : SubSeq(edits, 1, k)[i] = edits[i]
         /\ Path(SubSeq(edits, 1, k), xs, ys, a, b)
<1>1. Len(edits) \in Nat /\ k \in Nat /\ 1 \in Int
  BY LenProperties
<1>2. \A i \in 1 .. k : edits[i] \in S
  BY <1>1, ElementOfSeq
<1>3. PICK p : p = SubSeq(edits, 1, k)
  OBVIOUS
<1>4. /\ p \in Seq(S) /\ Len(p) = (IF 1 <= k THEN k - 1 + 1 ELSE 0)
      /\ \A i \in 1 .. k - 1 + 1 : p[i] = edits[1 + i - 1]
  BY <1>1, <1>2, <1>3, SubSeqProperties
<1>5. Len(p) = k
  BY <1>1, <1>4
<1>6. \A i \in 1 .. k : p[i] = edits[i]
  <2> SUFFICES ASSUME NEW i \in 1 .. k PROVE p[i] = edits[i]
    OBVIOUS
  <2>1. i \in 1 .. k - 1 + 1 /\ 1 + i - 1 = i
    BY <1>1
  <2> QED
    BY <1>4, <2>1
<1>7. Path(p, xs, ys, a, b)
  <2>1. \A i \in 1 .. k : i \in 1 .. Len(edits)
    BY <1>1
  <2> QED
    BY <1>1, <1>5, <1>6, <2>1 DEF Path
<1> QED
  BY <1>3, <1>4, <1>5, <1>6, <1>7

(* The part of a text that follows its first n lines.                      *)
Part(p, a, n, V) ==
  /\ a \in Seq(V) /\ p \in Seq(V) /\ n \in Nat
  /\ Len(a) \in Nat /\ Len(p) \in Nat
  /\ n + Len(p) <= Len(a)
  /\ \A i \in 1 .. Len(p) : p[i] = a[n + i]

(* A part of a text from line n + 1 to line m.                             *)
LEMMA PartIs ==
  ASSUME NEW V, NEW a \in Seq(V), NEW n \in 0 .. Len(a), NEW m \in n .. Len(a)
  PROVE  Part(SubSeq(a, n + 1, m), a, n, V) /\ Len(SubSeq(a, n + 1, m)) = m - n
<1>1. Len(a) \in Nat /\ n \in Nat /\ m \in Nat /\ n + 1 \in Int /\ n <= m /\ m <= Len(a)
  BY LenProperties
<1>2. \A i \in n + 1 .. m : a[i] \in V
  <2> SUFFICES ASSUME NEW i \in n + 1 .. m PROVE a[i] \in V
    OBVIOUS
  <2>1. i \in 1 .. Len(a)
    BY <1>1
  <2> QED
    BY <2>1, ElementOfSeq
<1>3. PICK p : p = SubSeq(a, n + 1, m)
  OBVIOUS
<1>4. /\ p \in Seq(V) /\ Len(p) = (IF n + 1 <= m THEN m - (n + 1) + 1 ELSE 0)
      /\ \A i \in 1 .. m - (n + 1) + 1 : p[i] = a[(n + 1) + i - 1]
  BY <1>1, <1>2, <1>3, SubSeqProperties
<1>5. Len(p) = m - n
  BY <1>1, <1>4
<1>6. \A i \in 1 .. Len(p) : p[i] = a[n + i]
  <2> SUFFICES ASSUME NEW i \in 1 .. Len(p) PROVE p[i] = a[n + i]
    OBVIOUS
  <2>1. i \in 1 .. m - (n + 1) + 1 /\ (n + 1) + i - 1 = n + i
    BY <1>1, <1>5
  <2> QED
    BY <1>4, <2>1
<1>7. Len(p) \in Nat /\ n + Len(p) <= Len(a)
  BY <1>1, <1>5
<1> QED
  BY <1>1, <1>3, <1>4, <1>5, <1>6, <1>7 DEF Part

(* An edit of the parts is one of the texts.                               *)
LEMMA FollowsInText ==
  ASSUME NEW V, NEW a, NEW b, NEW p, NEW q, NEW n, NEW m,
         Part(p, a, n, V), Part(q, b, m, V),
         NEW e, NEW x \in Nat, NEW y \in Nat, NEW u \in Nat, NEW v \in Nat,
         Follows(e, x, y, u, v, p, q)
  PROVE  Follows(e, n + x, m + y, n + u, m + v, a, b)
<1>0. /\ n \in Nat /\ m \in Nat /\ Len(a) \in Nat /\ Len(b) \in Nat
      /\ Len(p) \in Nat /\ Len(q) \in Nat /\ n + Len(p) <= Len(a) /\ m + Len(q) <= Len(b)
  BY DEF Part
<1>1. CASE e.action = "ADD" /\ u = x /\ v = y + 1 /\ v <= Len(q) /\ e.val = q[v]
  <2>1. v \in 1 .. Len(q) /\ m + v <= Len(b) /\ m + v = (m + y) + 1
    BY <1>0, <1>1
  <2>2. e.val = b[m + v]
    BY <1>1, <2>1 DEF Part
  <2> QED
    BY <1>1, <2>1, <2>2 DEF Follows
<1>2. CASE e.action = "DEL" /\ u = x + 1 /\ v = y /\ u <= Len(p) /\ e.val = p[u]
  <2>1. u \in 1 .. Len(p) /\ n + u <= Len(a) /\ n + u = (n + x) + 1
    BY <1>0, <1>2
  <2>2. e.val = a[n + u]
    BY <1>2, <2>1 DEF Part
  <2> QED
    BY <1>2, <2>1, <2>2 DEF Follows
<1>3. CASE /\ e.action = "EQ" /\ u = x + 1 /\ v = y + 1 /\ u <= Len(p) /\ v <= Len(q)
           /\ e.val = p[u] /\ e.val = q[v]
  <2>1. u \in 1 .. Len(p) /\ n + u <= Len(a) /\ n + u = (n + x) + 1
    BY <1>0, <1>3
  <2>2. v \in 1 .. Len(q) /\ m + v <= Len(b) /\ m + v = (m + y) + 1
    BY <1>0, <1>3
  <2>3. e.val = a[n + u] /\ e.val = b[m + v]
    BY <1>3, <2>1, <2>2 DEF Part
  <2> QED
    BY <1>3, <2>1, <2>2, <2>3 DEF Follows
<1> QED
  BY <1>1, <1>2, <1>3 DEF Follows

(* Edits of the parts that follow go on from where the first edits lead.   *)
LEMMA LeadsOn ==
  ASSUME NEW V, NEW S, NEW a, NEW b, NEW p, NEW q, NEW n, NEW m,
         Part(p, a, n, V), Part(q, b, m, V),
         NEW first \in Seq(S), NEW next \in Seq(S), Leads(first, n, m, a, b),
         NEW x, NEW y, Leads(next, x, y, p, q)
  PROVE  Leads(first \o next, n + x, m + y, a, b)
<1>1. PICK xs, ys : Path(first, xs, ys, a, b) /\ xs[Len(first)] = n /\ ys[Len(first)] = m
  BY DEF Leads
<1>2. PICK us, vs : Path(next, us, vs, p, q) /\ us[Len(next)] = x /\ vs[Len(next)] = y
  BY DEF Leads
<1>3. PICK k \in Nat, l \in Nat : k = Len(first) /\ l = Len(next)
  BY LenProperties
<1>4. PICK both : both = first \o next
  OBVIOUS
<1>5. /\ both \in Seq(S) /\ Len(both) = k + l
      /\ \A i \in 1 .. k + l : both[i] = IF i <= k THEN first[i] ELSE next[i - k]
  BY <1>3, <1>4, ConcatProperties
<1>6. n \in Nat /\ m \in Nat
  BY DEF Part
<1>7. PICK zs, ws : /\ zs = [i \in 0 .. k + l |-> IF i <= k THEN xs[i] ELSE n + us[i - k]]
                    /\ ws = [i \in 0 .. k + l |-> IF i <= k THEN ys[i] ELSE m + vs[i - k]]
  OBVIOUS
<1>8. \A i \in 0 .. k : zs[i] = xs[i] /\ ws[i] = ys[i]
  BY <1>7
<1>9. ASSUME NEW j \in 0 .. l PROVE zs[k + j] = n + us[j] /\ ws[k + j] = m + vs[j]
  <2>1. CASE j = 0
    <3>1. us[0] = 0 /\ vs[0] = 0
      BY <1>2 DEF Path
    <3>2. k \in 0 .. k /\ k + j = k
      BY <2>1
    <3>3. zs[k + j] = n /\ ws[k + j] = m
      BY <1>1, <1>3, <1>8, <3>2
    <3> QED
      BY <1>6, <2>1, <3>1, <3>3
  <2>2. CASE j # 0
    <3>1. k + j \in 0 .. k + l /\ ~(k + j <= k) /\ (k + j) - k = j
      BY <2>2
    <3> QED
      BY <1>7, <3>1
  <2> QED
    BY <2>1, <2>2
<1>10. ASSUME NEW i \in 1 .. k + l
       PROVE  /\ zs[i - 1] \in Nat /\ ws[i - 1] \in Nat /\ zs[i] \in Nat /\ ws[i] \in Nat
              /\ Follows(both[i], zs[i - 1], ws[i - 1], zs[i], ws[i], a, b)
  <2>1. CASE i <= k
    <3>1. i \in 1 .. k /\ i \in 0 .. k /\ i - 1 \in 0 .. k
      BY <2>1
    <3>2. both[i] = first[i]
      BY <1>5, <2>1
    <3>3. /\ xs[i - 1] \in Nat /\ ys[i - 1] \in Nat /\ xs[i] \in Nat /\ ys[i] \in Nat
          /\ Follows(first[i], xs[i - 1], ys[i - 1], xs[i], ys[i], a, b)
      BY <1>1, <1>3, <3>1 DEF Path
    <3> QED
      BY <1>8, <3>1, <3>2, <3>3
  <2>2. CASE ~(i <= k)
    <3>1. PICK j \in 1 .. l : j = i - k
      BY <2>2
    <3>2. j \in 0 .. l /\ j - 1 \in 0 .. l /\ k + j = i /\ k + (j - 1) = i - 1
      BY <3>1
    <3>3. both[i] = next[j]
      BY <1>5, <2>2, <3>1
    <3>4. PICK x1 \in Nat, y1 \in Nat, u1 \in Nat, v1 \in Nat :
             x1 = us[j - 1] /\ y1 = vs[j - 1] /\ u1 = us[j] /\ v1 = vs[j]
      BY <1>2, <1>3, <3>1 DEF Path
    <3>5. Follows(next[j], x1, y1, u1, v1, p, q)
      BY <1>2, <1>3, <3>1, <3>4 DEF Path
    <3>6. Follows(next[j], n + x1, m + y1, n + u1, m + v1, a, b)
      BY <3>5, FollowsInText
    <3>7. zs[i] = n + u1 /\ ws[i] = m + v1
      BY <1>9, <3>2, <3>4
    <3>8. zs[i - 1] = n + x1 /\ ws[i - 1] = m + y1
      BY <1>9, <3>2, <3>4
    <3> QED
      BY <1>6, <3>3, <3>6, <3>7, <3>8
  <2> QED
    BY <2>1, <2>2
<1>11. zs[0] = 0 /\ ws[0] = 0
  <2>1. 0 \in 0 .. k
    OBVIOUS
  <2>2. xs[0] = 0 /\ ys[0] = 0
    BY <1>1 DEF Path
  <2> QED
    BY <1>8, <2>1, <2>2
<1>12. Path(both, zs, ws, a, b)
  <2>1. Len(both) \in Nat
    BY <1>5
  <2> QED
    BY <1>5, <1>10, <1>11, <2>1 DEF Path
<1>13. zs[Len(both)] = n + x /\ ws[Len(both)] = m + y
  <2>1. l \in 0 .. l
    OBVIOUS
  <2> QED
    BY <1>2, <1>3, <1>5, <1>9, <2>1
<1> QED
  BY <1>4, <1>12, <1>13 DEF Leads

-----------------------------------------------------------------------------
(* Equal texts *)

(* Their distance is 0.                                                    *)
LEMMA NoDistance ==
  ASSUME NEW a, Len(a) \in Nat
  PROVE  EditDistance(a, a) = 0
<1>1. PICK D : Distances(D, a, a)
  BY DistancesExist
<1>2. PICK n \in Nat : n = Len(a)
  OBVIOUS
<1> DEFINE T == {i \in Nat : D[<<i, i>>] = 0}
<1>3. 0 \in T
  BY <1>1 DEF Distances
<1>4. ASSUME NEW i \in 0 .. n - 1, i \in T PROVE i + 1 \in T
  <2>1. i \in Nat /\ i + 1 <= Len(a)
    BY <1>2
  <2>2. Same(a, a, i, i)
    BY <2>1 DEF Same
  <2>3. D[<<i + 1, i + 1>>] = D[<<i, i>>]
    BY <1>1, <2>1, <2>2 DEF Distances
  <2> QED
    BY <1>4, <2>1, <2>3
<1>5. n \in T
  <2> HIDE DEF T
  <2>1. 0 .. n \subseteq T
    BY <1>2, <1>3, <1>4, UpTo
  <2> QED
    BY <1>2, <2>1
<1>6. Common(a, a) \in Nat
  <2>1. Common(a, a) \in 0 .. Len(a)
    BY DistancesExist
  <2> QED
    BY <2>1
<1>7. EditDistance(a, a) \in Int
  BY <1>2, <1>6 DEF EditDistance
<1>8. D[<<n, n>>] = EditDistance(a, a) + (n - n) + (n - n)
  BY <1>1, <1>2 DEF Distances
<1> QED
  BY <1>2, <1>5, <1>7, <1>8

(* So their script has common elements only.                               *)
LEMMA NoDifferences ==
  ASSUME NEW V, NEW a \in Seq(V), NEW edits, NEW xs, NEW ys, Differs(edits, xs, ys, a, a, V)
  PROVE  /\ \A i \in 1 .. Len(edits) : edits[i].action = "EQ"
         /\ \A i \in 0 .. Len(edits) : xs[i] = ys[i]
<1>1. PICK n \in Nat : n = Len(a)
  BY LenProperties
<1>2. EditDistance(a, a) = 0
  BY <1>1, NoDistance
<1>3. /\ Path(edits, xs, ys, a, a) /\ xs[Len(edits)] = n /\ ys[Len(edits)] = n
      /\ 2 * Len(edits) = n + n + 0 /\ Len(edits) \in Nat
  BY <1>1, <1>2 DEF Differs, Script, Path
<1>4. Len(edits) = n
  BY <1>3
<1>5. \A i \in 0 .. n - 1 :
        /\ i + 1 \in 1 .. n
        /\ xs[i] \in Nat /\ ys[i] \in Nat /\ xs[i + 1] \in Nat /\ ys[i + 1] \in Nat
        /\ Follows(edits[i + 1], xs[i], ys[i], xs[i + 1], ys[i + 1], a, a)
  BY <1>3, <1>4, PathSteps
<1>6. ASSUME NEW i \in 0 .. n - 1
       PROVE  /\ xs[i] \in Nat /\ ys[i] \in Nat /\ xs[i + 1] \in Nat /\ ys[i + 1] \in Nat
              /\ xs[i + 1] <= xs[i] + 1 /\ ys[i + 1] <= ys[i] + 1
  <2>1. /\ xs[i] \in Nat /\ ys[i] \in Nat /\ xs[i + 1] \in Nat /\ ys[i + 1] \in Nat
        /\ Follows(edits[i + 1], xs[i], ys[i], xs[i + 1], ys[i + 1], a, a)
    BY <1>5
  <2>2. PICK x \in Nat, y \in Nat, u \in Nat, v \in Nat :
          x = xs[i] /\ y = ys[i] /\ u = xs[i + 1] /\ v = ys[i + 1]
    BY <2>1
  <2>3. u <= x + 1 /\ v <= y + 1
    BY <2>1, <2>2 DEF Follows
  <2> QED
    BY <2>2, <2>3
<1> DEFINE T == {i \in Nat : xs[i] \in Nat /\ ys[i] \in Nat /\ xs[i] <= i /\ ys[i] <= i}
<1>7. 0 .. n \subseteq T
  <2>1. 0 \in T
    BY <1>3 DEF Path
  <2>2. ASSUME NEW i \in 0 .. n - 1, i \in T PROVE i + 1 \in T
    <3>1. /\ xs[i] \in Nat /\ ys[i] \in Nat /\ xs[i + 1] \in Nat /\ ys[i + 1] \in Nat
          /\ xs[i + 1] <= xs[i] + 1 /\ ys[i + 1] <= ys[i] + 1
      BY <1>6
    <3> QED
      BY <2>2, <3>1
  <2> HIDE DEF T
  <2> QED
    BY <2>1, <2>2, UpTo
<1> DEFINE U == {j \in Nat : xs[n - j] >= n - j /\ ys[n - j] >= n - j}
<1>8. 0 .. n \subseteq U
  <2>1. 0 \in U
    BY <1>3, <1>4
  <2>2. ASSUME NEW j \in 0 .. n - 1, j \in U PROVE j + 1 \in U
    <3>1. PICK i \in 0 .. n - 1 : i = n - (j + 1) /\ i + 1 = n - j
      OBVIOUS
    <3>2. /\ xs[i] \in Nat /\ ys[i] \in Nat /\ xs[i + 1] \in Nat /\ ys[i + 1] \in Nat
          /\ xs[i + 1] <= xs[i] + 1 /\ ys[i + 1] <= ys[i] + 1
      BY <1>6
    <3>3. xs[i + 1] >= i + 1 /\ ys[i + 1] >= i + 1
      BY <2>2, <3>1
    <3>4. xs[i] >= i /\ ys[i] >= i
      BY <3>2, <3>3
    <3> QED
      BY <3>1, <3>4
  <2> HIDE DEF U
  <2> QED
    BY <2>1, <2>2, UpTo
<1>9. ASSUME NEW i \in 0 .. n PROVE xs[i] = i /\ ys[i] = i
  <2>1. xs[i] \in Nat /\ ys[i] \in Nat /\ xs[i] <= i /\ ys[i] <= i
    BY <1>7
  <2>2. PICK j \in 0 .. n : n - j = i
    <3>1. n - i \in 0 .. n /\ n - (n - i) = i
      OBVIOUS
    <3> QED
      BY <3>1
  <2>3. j \in U
    BY <1>8
  <2>4. xs[i] >= i /\ ys[i] >= i
    BY <2>2, <2>3
  <2> QED
    BY <2>1, <2>4
<1>10. ASSUME NEW i \in 1 .. n PROVE edits[i].action = "EQ"
  <2>1. PICK j \in 0 .. n - 1 : j + 1 = i
    <3>1. i - 1 \in 0 .. n - 1 /\ (i - 1) + 1 = i
      OBVIOUS
    <3> QED
      BY <3>1
  <2>2. j \in 0 .. n /\ i \in 0 .. n
    OBVIOUS
  <2>3. xs[j] = j /\ ys[j] = j /\ xs[i] = j + 1 /\ ys[i] = j + 1
    BY <1>9, <2>1, <2>2
  <2>4. Follows(edits[i], j, j, j + 1, j + 1, a, a)
    BY <1>5, <2>1, <2>3
  <2> QED
    BY <2>4 DEF Follows
<1> QED
  BY <1>4, <1>9, <1>10

-----------------------------------------------------------------------------
(* What a call of safe_diff_msg_helper finds                               *)

(* The edits turn the first x lines of a into the first y lines of b, and  *)
(* equal texts differ nowhere.                                             *)
Gives(edits, x, y, a, b, V) ==
  /\ edits \in Seq(EditSet(V))
  /\ x \in 0 .. Len(a) /\ y \in 0 .. Len(b)
  /\ Leads(edits, x, y, a, b)
  /\ a = b => x = y /\ \A i \in 1 .. Len(edits) : edits[i].action = "EQ"

(* The beginning of the script of two parts.                               *)
LEMMA PrefixGives ==
  ASSUME NEW V, NEW p \in Seq(V), NEW q \in Seq(V), NEW edits, NEW xs, NEW ys,
         Differs(edits, xs, ys, p, q, V), NEW k \in 0 .. Len(edits)
  PROVE  Gives(SubSeq(edits, 1, k), xs[k], ys[k], p, q, V)
<1>1. edits \in Seq(EditSet(V)) /\ Path(edits, xs, ys, p, q)
  BY DEF Differs, Script
<1>2. PICK some : some = SubSeq(edits, 1, k)
  OBVIOUS
<1>3. /\ some \in Seq(EditSet(V)) /\ Len(some) = k
      /\ \A i \in 1 .. k : some[i] = edits[i]
      /\ Path(some, xs, ys, p, q)
  BY <1>1, <1>2, PathPrefix
<1>4. Makes(some, xs[Len(some)], ys[Len(some)], p, q)
  BY <1>3, PathMakes, Zenon
<1>5. xs[k] \in 0 .. Len(p) /\ ys[k] \in 0 .. Len(q)
  BY <1>3, <1>4 DEF Makes
<1>6. Leads(some, xs[k], ys[k], p, q)
  BY <1>3 DEF Leads
<1>7. ASSUME p = q
      PROVE  xs[k] = ys[k] /\ \A i \in 1 .. Len(some) : some[i].action = "EQ"
  <2>1. /\ \A i \in 1 .. Len(edits) : edits[i].action = "EQ"
        /\ \A i \in 0 .. Len(edits) : xs[i] = ys[i]
    <3>1. Differs(edits, xs, ys, p, p, V)
      BY <1>7
    <3> QED
      BY <3>1, NoDifferences
  <2>2. \A i \in 1 .. k : i \in 1 .. Len(edits)
    BY <1>1 DEF Path
  <2> QED
    BY <1>3, <2>1, <2>2
<1> QED
  BY <1>2, <1>3, <1>5, <1>6, <1>7 DEF Gives

(* A script of the parts that follow goes on.                              *)
LEMMA GoesOn ==
  ASSUME NEW V, NEW a, NEW b, NEW p, NEW q, NEW n, NEW m,
         Part(p, a, n, V), Part(q, b, m, V), a = b /\ n = m => p = q,
         NEW first, NEW next, Gives(first, n, m, a, b, V),
         NEW x, NEW y, Gives(next, x, y, p, q, V)
  PROVE  Gives(first \o next, n + x, m + y, a, b, V)
<1>1. /\ first \in Seq(EditSet(V)) /\ next \in Seq(EditSet(V))
      /\ Leads(first, n, m, a, b) /\ Leads(next, x, y, p, q)
  BY DEF Gives
<1>2. Leads(first \o next, n + x, m + y, a, b)
  BY <1>1, LeadsOn
<1>3. n + x \in 0 .. Len(a) /\ m + y \in 0 .. Len(b)
  BY DEF Gives, Part
<1>4. PICK k \in Nat, l \in Nat : k = Len(first) /\ l = Len(next)
  BY <1>1, LenProperties
<1>5. PICK both : both = first \o next
  OBVIOUS
<1>6. /\ both \in Seq(EditSet(V)) /\ Len(both) = k + l
      /\ \A i \in 1 .. k + l : both[i] = IF i <= k THEN first[i] ELSE next[i - k]
  BY <1>1, <1>4, <1>5, ConcatProperties
<1>7. ASSUME a = b
      PROVE  n + x = m + y /\ \A i \in 1 .. Len(both) : both[i].action = "EQ"
  <2>1. n = m /\ \A i \in 1 .. k : first[i].action = "EQ"
    BY <1>4, <1>7 DEF Gives
  <2>2. x = y /\ \A i \in 1 .. l : next[i].action = "EQ"
    BY <1>4, <1>7, <2>1 DEF Gives
  <2>3. ASSUME NEW i \in 1 .. k + l PROVE both[i].action = "EQ"
    <3>1. CASE i <= k
      <4>1. i \in 1 .. k
        BY <3>1
      <4> QED
        BY <1>6, <2>1, <3>1, <4>1
    <3>2. CASE ~(i <= k)
      <4>1. i - k \in 1 .. l
        BY <3>2
      <4> QED
        BY <1>6, <2>2, <3>2, <4>1
    <3> QED
      BY <3>1, <3>2
  <2> QED
    BY <1>6, <2>1, <2>2, <2>3
<1> QED
  BY <1>2, <1>3, <1>5, <1>6, <1>7 DEF Gives

(* The last of some numbers.                                               *)
LEMMA LastOne ==
  ASSUME NEW n \in Nat, NEW I, I \subseteq 1 .. n, I # {}
  PROVE  Max(I) \in I
<1> DEFINE T == {k \in Nat : (\E i \in I : i <= k) =>
                               \E x \in I : x <= k /\ \A y \in I : y <= k => x >= y}
<1>1. 0 \in T
  OBVIOUS
<1>2. ASSUME NEW k \in 0 .. n - 1, k \in T PROVE k + 1 \in T
  <2>1. \A i \in I : i \in Nat /\ (i <= k + 1 <=> i <= k \/ i = k + 1)
    OBVIOUS
  <2>2. CASE k + 1 \in I
    BY <2>1, <2>2
  <2>3. CASE k + 1 \notin I
    <3>1. \A i \in I : i <= k + 1 <=> i <= k
      BY <2>1, <2>3
    <3> QED
      BY <1>2, <3>1
  <2> QED
    BY <2>2, <2>3
<1>3. n \in T
  <2> HIDE DEF T
  <2>1. 0 .. n \subseteq T
    BY <1>1, <1>2, UpTo
  <2> QED
    BY <2>1
<1>4. \A i \in I : i <= n
  OBVIOUS
<1>5. \E x \in I : \A y \in I : x >= y
  BY <1>3, <1>4
<1> QED
  BY <1>5, Zenon DEF Max

(* The last common line among the edits, if any.                           *)
LEMMA LastCommon ==
  ASSUME NEW edits, Len(edits) \in Nat,
         NEW last, last = SelectLastInSeq(edits, LAMBDA e : e.action = "EQ")
  PROVE  \/ last = 0
         \/ last \in 1 .. Len(edits) /\ edits[last].action = "EQ"
<1> DEFINE I == {i \in 1 .. Len(edits) : edits[i].action = "EQ"}
<1>1. last = IF I # {} THEN Max(I) ELSE 0
  BY DEF SelectLastInSeq
<1>2. I # {} => Max(I) \in I
  <2>1. I \subseteq 1 .. Len(edits)
    OBVIOUS
  <2> HIDE DEF I
  <2> QED
    BY <2>1, LastOne
<1>3. CASE I # {}
  BY <1>1, <1>2, <1>3
<1>4. CASE I = {}
  BY <1>1, <1>4
<1> QED
  BY <1>3, <1>4

-----------------------------------------------------------------------------
(* Batches *)

(* A loop up to an IndexT takes all of the edits that it can count.        *)
LEMMA PushesAll ==
  ASSUME NEW S, NEW edits \in Seq(S), NEW k \in 0 .. Len(edits), Len(edits) <= MaxIndex
  PROVE  Pushed(edits, k) = SubSeq(edits, 1, k)
<1>1. k \in Int /\ -MaxIndex <= k /\ k <= MaxIndex
  <2>1. Len(edits) \in Nat /\ MaxIndex \in Nat
    BY LenProperties, MaxIndexType
  <2> QED
    BY <2>1
<1>2. IndexT(k) = k
  BY <1>1, IndexKeeps
<1> QED
  BY <1>2 DEF Pushed

(* A script is not longer than both texts together.                        *)
LEMMA ScriptFits ==
  ASSUME NEW V, NEW p \in Seq(V), NEW q \in Seq(V), Fit(p, q),
         NEW edits, NEW xs, NEW ys, Differs(edits, xs, ys, p, q, V)
  PROVE  edits \in Seq(EditSet(V)) /\ Len(edits) \in Nat /\ Len(edits) <= MaxIndex
<1>1. PICK n \in Nat, m \in Nat : n = Len(p) /\ m = Len(q)
  BY LenProperties
<1>2. /\ edits \in Seq(EditSet(V)) /\ Path(edits, xs, ys, p, q)
      /\ xs[Len(edits)] = n /\ ys[Len(edits)] = m
  BY <1>1 DEF Differs, Script
<1>3. Len(edits) \in Nat /\ Len(edits) <= n + m
  BY <1>2, PathLength, LenProperties
<1>4. 2 * (n + m) + 1 <= MaxIndex /\ MaxIndex \in Nat
  BY <1>1, MaxIndexType DEF Fit
<1> QED
  BY <1>2, <1>3, <1>4

(* Without a cut all of them are taken.                                    *)
LEMMA RestGives ==
  ASSUME NEW V, NEW p \in Seq(V), NEW q \in Seq(V), Fit(p, q)
  PROVE  Gives(Pushed(myers_diff(p, q), Len(myers_diff(p, q))), Len(p), Len(q), p, q, V)
<1>1. PICK edits : edits = myers_diff(p, q)
  OBVIOUS
<1>2. PICK xs, ys : Differs(edits, xs, ys, p, q, V)
  BY <1>1, DiffScript
<1>3. edits \in Seq(EditSet(V)) /\ Len(edits) \in Nat /\ Len(edits) <= MaxIndex
  BY <1>2, ScriptFits
<1>4. PICK k \in 0 .. Len(edits) : k = Len(edits)
  BY <1>3
<1>5. Pushed(edits, k) = SubSeq(edits, 1, k)
  BY <1>3, PushesAll
<1>6. Gives(SubSeq(edits, 1, k), xs[k], ys[k], p, q, V)
  BY <1>2, PrefixGives
<1>7. xs[k] = Len(p) /\ ys[k] = Len(q)
  BY <1>2, <1>4 DEF Differs, Script
<1> QED
  BY <1>1, <1>4, <1>5, <1>6, <1>7

(* A batch gives x and y lines, at least one of them.                      *)
Batched(edits, last, x, y, p, q, V) ==
  /\ x \in Nat /\ y \in Nat /\ x + y > 0
  /\ IndexT(IF last = 0 THEN Len(p) ELSE edits[last].orig + 1) = x
  /\ IndexT(IF last = 0 THEN Len(q) ELSE edits[last].updated + 1) = y
  /\ Gives(Pushed(edits, BatchEnd(edits, last)), x, y, p, q, V)

(* A batch that is not empty gives a line at least: up to its last common  *)
(* line, or all of it when there is none.                                  *)
LEMMA BatchGives ==
  ASSUME NEW V, NEW p \in Seq(V), NEW q \in Seq(V), Fit(p, q), Len(p) + Len(q) > 0,
         NEW edits, edits = myers_diff(p, q),
         NEW last, last = SelectLastInSeq(Pushed(edits, Len(edits)), LAMBDA e : e.action = "EQ")
  PROVE  \E x, y : Batched(edits, last, x, y, p, q, V)
<1>1. PICK n \in Nat, m \in Nat : n = Len(p) /\ m = Len(q)
  BY LenProperties
<1>2. n <= MaxIndex /\ m <= MaxIndex /\ MaxIndex \in Nat
  BY <1>1, MaxIndexType DEF Fit
<1>3. PICK xs, ys : Differs(edits, xs, ys, p, q, V)
  BY DiffScript
<1>4. edits \in Seq(EditSet(V)) /\ Len(edits) \in Nat /\ Len(edits) <= MaxIndex
  BY <1>3, ScriptFits
<1>5. Pushed(edits, Len(edits)) = edits
  <2>1. Len(edits) \in 0 .. Len(edits)
    BY <1>4
  <2>2. SubSeq(edits, 1, Len(edits)) = edits
    BY <1>4, SubSeqFull
  <2> QED
    BY <1>4, <2>1, <2>2, PushesAll
<1>6. last = SelectLastInSeq(edits, LAMBDA e : e.action = "EQ")
  BY <1>5
<1>7. \/ last = 0
      \/ last \in 1 .. Len(edits) /\ edits[last].action = "EQ"
  BY <1>4, <1>6, LastCommon
<1>8. CASE last = 0
  <2>1. IndexT(n) = n /\ IndexT(m) = m
    BY <1>2, IndexKeeps
  <2>2. BatchEnd(edits, last) = Len(edits)
    BY <1>8 DEF BatchEnd
  <2>3. Gives(Pushed(edits, BatchEnd(edits, last)), n, m, p, q, V)
    BY <1>1, <2>2, RestGives
  <2>4. n + m > 0
    BY <1>1
  <2>5. Batched(edits, last, n, m, p, q, V)
    BY <1>1, <1>8, <2>1, <2>3, <2>4 DEF Batched
  <2> QED
    BY <2>5
<1>9. CASE last \in 1 .. Len(edits) /\ edits[last].action = "EQ"
  <2>1. PICK k \in 1 .. Len(edits) : k = last
    BY <1>9
  <2>2. k \in 0 .. Len(edits) /\ k # 0
    BY <1>4
  <2>3. /\ PlacedAt(edits[k], xs[k - 1], ys[k - 1])
        /\ xs[k - 1] \in Nat /\ ys[k - 1] \in Nat /\ xs[k] \in Nat /\ ys[k] \in Nat
        /\ Follows(edits[k], xs[k - 1], ys[k - 1], xs[k], ys[k], p, q)
    BY <1>3, <2>1 DEF Differs, Script, Path
  <2>4. edits[k].action = "EQ"
    BY <1>9, <2>1
  <2>5. edits[k].orig = xs[k - 1] /\ edits[k].updated = ys[k - 1]
    BY <2>3, <2>4 DEF PlacedAt
  <2>6. xs[k] = xs[k - 1] + 1 /\ ys[k] = ys[k - 1] + 1
    BY <2>3, <2>4 DEF Follows
  <2>7. PICK x \in Nat, y \in Nat : x = xs[k] /\ y = ys[k]
    BY <2>3
  <2>8. edits[k].orig + 1 = x /\ edits[k].updated + 1 = y /\ x + y > 0
    BY <2>3, <2>5, <2>6, <2>7
  <2>9. Gives(SubSeq(edits, 1, k), x, y, p, q, V)
    BY <1>3, <2>2, <2>7, PrefixGives
  <2>10. Gives(Pushed(edits, BatchEnd(edits, last)), x, y, p, q, V)
    <3>1. BatchEnd(edits, last) = k
      BY <2>1, <2>2 DEF BatchEnd
    <3>2. Pushed(edits, k) = SubSeq(edits, 1, k)
      BY <1>4, <2>2, PushesAll
    <3> QED
      BY <2>9, <3>1, <3>2
  <2>11. IndexT(x) = x /\ IndexT(y) = y
    <3>1. x <= n /\ y <= m
      BY <1>1, <2>9 DEF Gives
    <3>2. x \in Int /\ -MaxIndex <= x /\ x <= MaxIndex /\ y \in Int /\ -MaxIndex <= y /\ y <= MaxIndex
      BY <1>2, <3>1
    <3> QED
      BY <3>2, IndexKeeps
  <2>12. Batched(edits, last, x, y, p, q, V)
    BY <2>1, <2>2, <2>8, <2>10, <2>11 DEF Batched
  <2> QED
    BY <2>12
<1> QED
  BY <1>7, <1>8, <1>9

-----------------------------------------------------------------------------
(* The message                                                             *)

(* What an edit more adds to the values kept.                              *)
LEMMA KeptAppend ==
  ASSUME NEW S, NEW s \in Seq(S), NEW e \in S, NEW actions
  PROVE  Kept(Append(s, e), actions) =
           IF e.action \in actions THEN Append(Kept(s, actions), e.val) ELSE Kept(s, actions)
<1>1. PICK n \in Nat : n = Len(s)
  BY LenProperties
<1>2. PICK t : t = Append(s, e)
  OBVIOUS
<1>3. t \in Seq(S) /\ Len(t) = n + 1 /\ (\A i \in 1 .. n : t[i] = s[i]) /\ t[n + 1] = e
  BY <1>1, <1>2, AppendProperties
<1>4. PICK f : Keeps(f, s, actions)
  BY <1>1, KeptSteps
<1>5. PICK g : Keeps(g, t, actions)
  <2>1. Len(t) \in Nat
    BY <1>3
  <2> QED
    BY <2>1, KeptSteps
<1> DEFINE T == {i \in Nat : f[i] = g[i]}
<1>6. 0 \in T
  BY <1>4, <1>5 DEF Keeps
<1>7. ASSUME NEW i \in 0 .. n - 1, i \in T PROVE i + 1 \in T
  <2>1. i + 1 \in 1 .. n /\ i + 1 \in 1 .. n + 1 /\ (i + 1) - 1 = i /\ i + 1 \in Nat
    OBVIOUS
  <2>2. f[i + 1] = IF s[i + 1].action \in actions
                   THEN Append(f[(i + 1) - 1], s[i + 1].val) ELSE f[(i + 1) - 1]
    BY <1>1, <1>4, <2>1 DEF Keeps
  <2>3. g[i + 1] = IF t[i + 1].action \in actions
                   THEN Append(g[(i + 1) - 1], t[i + 1].val) ELSE g[(i + 1) - 1]
    BY <1>3, <1>5, <2>1 DEF Keeps
  <2>4. s[i + 1] = t[i + 1] /\ f[(i + 1) - 1] = g[(i + 1) - 1]
    BY <1>3, <1>7, <2>1
  <2>5. f[i + 1] = g[i + 1]
    <3>1. PICK u, v : u = s[i + 1] /\ v = f[(i + 1) - 1]
      OBVIOUS
    <3>2. f[i + 1] = IF u.action \in actions THEN Append(v, u.val) ELSE v
      BY <2>2, <3>1
    <3>3. g[i + 1] = IF u.action \in actions THEN Append(v, u.val) ELSE v
      BY <2>3, <2>4, <3>1
    <3> QED
      BY <3>2, <3>3
  <2> QED
    BY <2>1, <2>5
<1>8. f[n] = g[n]
  <2>1. n \in T
    <3> HIDE DEF T
    <3>1. 0 .. n \subseteq T
      BY <1>6, <1>7, UpTo
    <3> QED
      BY <3>1
  <2> QED
    BY <2>1
<1>9. Kept(s, actions) = f[n]
  BY <1>1, <1>4 DEF Keeps
<1>10. Kept(t, actions) = g[n + 1]
  BY <1>3, <1>5 DEF Keeps
<1>11. g[n + 1] = IF e.action \in actions THEN Append(g[n], e.val) ELSE g[n]
  <2>1. n + 1 \in 1 .. n + 1 /\ (n + 1) - 1 = n
    OBVIOUS
  <2>2. g[n + 1] = IF t[n + 1].action \in actions
                   THEN Append(g[(n + 1) - 1], t[n + 1].val) ELSE g[(n + 1) - 1]
    BY <1>3, <1>5, <2>1 DEF Keeps
  <2> QED
    BY <1>3, <2>1, <2>2
<1> QED
  BY <1>2, <1>8, <1>9, <1>10, <1>11, Zenon

(* Of no edits nothing is kept.                                            *)
LEMMA KeptEmpty ==
  ASSUME NEW actions
  PROVE  Kept(<<>>, actions) = <<>>
<1>1. PICK s : s = <<>>
  OBVIOUS
<1>2. Len(s) = 0
  BY <1>1
<1>3. PICK f : Keeps(f, s, actions)
  BY <1>2, KeptSteps
<1> QED
  BY <1>1, <1>2, <1>3 DEF Keeps

(* Of common lines, all values are kept.                                   *)
LEMMA AllKept ==
  ASSUME NEW edits, Len(edits) \in Nat, \A i \in 1 .. Len(edits) : edits[i].action = "EQ",
         NEW A, NEW B, "EQ" \in A, "EQ" \in B
  PROVE  Kept(edits, A) = Kept(edits, B)
<1>1. PICK f : Keeps(f, edits, A)
  BY KeptSteps
<1>2. PICK g : Keeps(g, edits, B)
  BY KeptSteps
<1>3. PICK n \in Nat : n = Len(edits)
  OBVIOUS
<1> DEFINE T == {i \in Nat : f[i] = g[i]}
<1>4. 0 \in T
  BY <1>1, <1>2 DEF Keeps
<1>5. ASSUME NEW i \in 0 .. n - 1, i \in T PROVE i + 1 \in T
  <2>1. i + 1 \in 1 .. n /\ (i + 1) - 1 = i /\ i + 1 \in Nat
    OBVIOUS
  <2>2. f[i + 1] = IF edits[i + 1].action \in A
                   THEN Append(f[(i + 1) - 1], edits[i + 1].val) ELSE f[(i + 1) - 1]
    BY <1>1, <1>3, <2>1 DEF Keeps
  <2>3. g[i + 1] = IF edits[i + 1].action \in B
                   THEN Append(g[(i + 1) - 1], edits[i + 1].val) ELSE g[(i + 1) - 1]
    BY <1>2, <1>3, <2>1 DEF Keeps
  <2>4. edits[i + 1].action \in A /\ edits[i + 1].action \in B
    BY <1>3, <2>1
  <2>5. f[(i + 1) - 1] = g[(i + 1) - 1]
    BY <1>5, <2>1
  <2>6. f[i + 1] = g[i + 1]
    BY <2>2, <2>3, <2>4, <2>5, Zenon
  <2> QED
    BY <2>1, <2>6
<1>6. n \in T
  <2> HIDE DEF T
  <2>1. 0 .. n \subseteq T
    BY <1>4, <1>5, UpTo
  <2> QED
    BY <2>1
<1> QED
  BY <1>1, <1>2, <1>3, <1>6 DEF Keeps

(* The loop of to_string.                                                  *)
Writes(f, n) ==
  /\ Written(n) = f[n]
  /\ f[0] = <<>>
  /\ \A i \in 1 .. n : f[i] = IF i \in Shown(n) THEN Append(f[i - 1], LineFormat(i)) ELSE f[i - 1]


(* The loop exists and satisfies its equation.                             *)
LEMMA WrittenSteps ==
  ASSUME NEW ndiffs \in Nat
  PROVE  \E f : Writes(f, ndiffs)
<1> DEFINE n == ndiffs
           start == <<>>
           E(i, v) == IF i \in Shown(ndiffs) THEN Append(v, LineFormat(i)) ELSE v
           Is(f) == f = [i \in 0 .. n |-> IF i = 0 THEN start ELSE E(i, f[i - 1])]
           S == {k \in Nat : \E f : f[0] = start /\ \A i \in 1 .. k : f[i] = E(i, f[i - 1])}
<1>1. n \in Nat
  OBVIOUS
<1>2. \E f : Is(f)
  <2> HIDE DEF start, E
  <2>1. 0 \in S
    <3>1. PICK f : f = [i \in 0 .. 0 |-> start]
      OBVIOUS
    <3>2. f[0] = start /\ \A i \in 1 .. 0 : f[i] = E(i, f[i - 1])
      BY <3>1
    <3> QED
      BY <3>2
  <2>2. ASSUME NEW k \in Nat, k \in S PROVE k + 1 \in S
    <3>1. PICK f : f[0] = start /\ \A i \in 1 .. k : f[i] = E(i, f[i - 1])
      BY <2>2
    <3>2. PICK g : g = [i \in 0 .. k + 1 |-> IF i = k + 1 THEN E(i, f[k]) ELSE f[i]]
      OBVIOUS
    <3>3. g[k + 1] = E(k + 1, f[k]) /\ \A i \in 0 .. k : g[i] = f[i]
      BY <3>2
    <3>4. g[0] = start
      BY <3>1, <3>3
    <3>5. ASSUME NEW i \in 1 .. k + 1 PROVE g[i] = E(i, g[i - 1])
      <4>1. i - 1 \in 0 .. k /\ (k + 1) - 1 = k
        OBVIOUS
      <4>2. CASE i = k + 1
        BY <3>3, <4>1, <4>2
      <4>3. CASE i # k + 1
        <5>1. i \in 1 .. k /\ i \in 0 .. k
          BY <4>3
        <5> QED
          BY <3>1, <3>3, <4>1, <5>1
      <4> QED
        BY <4>2, <4>3
    <3> QED
      BY <3>4, <3>5
  <2>3. n \in S
    <3> HIDE DEF S, n
    <3>1. \A i \in 0 .. n - 1 : i \in S => i + 1 \in S
      BY <1>1, <2>2
    <3>2. 0 .. n \subseteq S
      BY <1>1, <2>1, <3>1, UpTo
    <3> QED
      BY <1>1, <3>2
  <2> HIDE DEF n
  <2>4. PICK f : f[0] = start /\ \A i \in 1 .. n : f[i] = E(i, f[i - 1])
    BY <2>3
  <2>5. PICK g : g = [i \in 0 .. n |-> f[i]]
    OBVIOUS
  <2>6. \A i \in 0 .. n : g[i] = f[i]
    BY <2>5
  <2>7. ASSUME NEW i \in 0 .. n PROVE f[i] = IF i = 0 THEN start ELSE E(i, g[i - 1])
    <3>1. CASE i = 0
      BY <2>4, <3>1
    <3>2. CASE i # 0
      <4>1. i \in 1 .. n /\ i - 1 \in 0 .. n
        BY <1>1, <3>2
      <4> QED
        BY <2>4, <2>6, <3>2, <4>1
    <3> QED
      BY <3>1, <3>2
  <2>8. g = [i \in 0 .. n |-> IF i = 0 THEN start ELSE E(i, g[i - 1])]
    BY <2>5, <2>7
  <2> QED
    BY <2>8
<1> DEFINE f == CHOOSE f : Is(f)
<1>3. Is(f)
  <2> HIDE DEF Is
  <2> QED
    BY <1>2, Zenon
<1>4. Written(ndiffs) = f[ndiffs]
  BY DEF Written
<1> HIDE DEF f
<1>5. f[0] = start /\ \A i \in 1 .. n : f[i] = E(i, f[i - 1])
  <2> HIDE DEF start, E, n
  <2>1. \A i \in 0 .. n : f[i] = IF i = 0 THEN start ELSE E(i, f[i - 1])
    BY <1>3
  <2>2. 0 \in 0 .. n /\ \A i \in 1 .. n : i \in 0 .. n /\ i # 0
    BY <1>1
  <2> QED
    BY <2>1, <2>2
<1> QED
  BY <1>4, <1>5 DEF Writes

LineSet == [val : Text, action : {"ADD", "DEL", "EQ"}, orig : Nat, updated : Nat]

(* The text has the line at the number shown.                              *)
LineIsRight(line, a, b) ==
  /\ line.action # "ADD" => a[line.orig + 1] = line.val
  /\ line.action # "DEL" => b[line.updated + 1] = line.val

(* The numbers of a line are those of the prefixes that the edits before   *)
(* it make.                                                                *)
LEMMA LineIs ==
  ASSUME expect \in Seq(Text), got \in Seq(Text), diffs \in Seq(EditSet(Text)),
         NEW xs, NEW ys, Path(diffs, xs, ys, expect, got), NEW c \in 1 .. Len(diffs)
  PROVE  /\ LineFormat(c) \in LineSet
         /\ LineFormat(c).action = diffs[c].action /\ LineFormat(c).val = diffs[c].val
         /\ LineIsRight(LineFormat(c), expect, got)
<1>1. PICK k \in 0 .. Len(diffs) : k = c - 1 /\ k + 1 = c
  <2>1. c - 1 \in 0 .. Len(diffs) /\ (c - 1) + 1 = c
    BY LenProperties
  <2> QED
    BY <2>1
<1>2. PICK before : before = SubSeq(diffs, 1, k)
  OBVIOUS
<1>3. Len(before) = k /\ Path(before, xs, ys, expect, got)
  BY <1>2, PathPrefix
<1>4. Makes(before, xs[Len(before)], ys[Len(before)], expect, got)
  BY <1>3, PathMakes, Zenon
<1>5. PICK x \in 0 .. Len(expect), y \in 0 .. Len(got) :
        /\ x = xs[k] /\ Kept(before, {"EQ", "DEL"}) = SubSeq(expect, 1, x)
        /\ y = ys[k] /\ Kept(before, {"EQ", "ADD"}) = SubSeq(got, 1, y)
  BY <1>3, <1>4 DEF Makes
<1>6. Len(SubSeq(expect, 1, x)) = x /\ x \in Nat
  <2>1. 0 \in 0 .. Len(expect) /\ x \in 0 .. Len(expect) /\ x \in Nat /\ 0 + 1 = 1 /\ x - 0 = x
    BY LenProperties
  <2>2. Len(SubSeq(expect, 0 + 1, x)) = x - 0
    BY <2>1, PartIs
  <2> QED
    BY <2>1, <2>2
<1>7. Len(SubSeq(got, 1, y)) = y /\ y \in Nat
  <2>1. 0 \in 0 .. Len(got) /\ y \in 0 .. Len(got) /\ y \in Nat /\ 0 + 1 = 1 /\ y - 0 = y
    BY LenProperties
  <2>2. Len(SubSeq(got, 0 + 1, y)) = y - 0
    BY <2>1, PartIs
  <2> QED
    BY <2>1, <2>2
<1>8. PICK e \in EditSet(Text) : e = diffs[c]
  BY ElementOfSeq
<1>9. LineFormat(c) = [val |-> e.val, action |-> e.action, orig |-> x, updated |-> y]
  <2>1. Len(Kept(before, {"EQ", "DEL"})) = x /\ Len(Kept(before, {"EQ", "ADD"})) = y
    BY <1>5, <1>6, <1>7
  <2> QED
    BY <1>1, <1>2, <1>8, <2>1 DEF LineFormat, Counted
<1>10. LineFormat(c) \in LineSet
  BY <1>6, <1>7, <1>8, <1>9 DEF LineSet, EditSet
<1>11. PICK line : line = LineFormat(c)
  OBVIOUS
<1>12. line.action = e.action /\ line.val = e.val /\ line.orig = x /\ line.updated = y
  BY <1>9, <1>11
<1>13. Follows(e, x, y, xs[c], ys[c], expect, got)
  BY <1>1, <1>5, <1>8 DEF Path
<1>14. /\ e.action # "ADD" => e.val = expect[x + 1]
       /\ e.action # "DEL" => e.val = got[y + 1]
  BY <1>13 DEF Follows
<1>15. LineIsRight(line, expect, got)
  BY <1>12, <1>14 DEF LineIsRight
<1> QED
  BY <1>8, <1>10, <1>11, <1>12, <1>15

(* What is written of the first i edits of n.                              *)
WrittenOf(s, i, n, kept) ==
  /\ s \in Seq(LineSet)
  /\ \A h \in 1 .. Len(s) : LineIsRight(s[h], expect, got)
  /\ Kept(s, {"ADD", "DEL"}) = kept
  /\ (\E c \in 1 .. i : diffs[c].action # "EQ") => s # <<>>
  /\ (\A c \in 1 .. n : diffs[c].action = "EQ") => s = <<>>

(* An edit more.                                                           *)
LEMMA WritesOn ==
  ASSUME expect \in Seq(Text), got \in Seq(Text), diffs \in Seq(EditSet(Text)),
         NEW xs, NEW ys, Path(diffs, xs, ys, expect, got),
         NEW n \in Nat, n = Len(diffs), NEW i \in 0 .. n - 1,
         NEW s, NEW kept, WrittenOf(s, i, n, kept),
         NEW t, t = (IF i + 1 \in Shown(n) THEN Append(s, LineFormat(i + 1)) ELSE s),
         NEW more, more = (IF diffs[i + 1].action \in {"ADD", "DEL"}
                           THEN Append(kept, diffs[i + 1].val) ELSE kept)
  PROVE  WrittenOf(t, i + 1, n, more)
<1>1. PICK c \in 1 .. n : c = i + 1
  <2>1. i + 1 \in 1 .. n
    OBVIOUS
  <2> QED
    BY <2>1
<1>2. PICK line : line = LineFormat(c)
  OBVIOUS
<1>3. /\ line \in LineSet /\ LineIsRight(line, expect, got)
      /\ line.action = diffs[c].action /\ line.val = diffs[c].val
  BY <1>2, LineIs
<1>4. diffs[c].action \in {"ADD", "DEL", "EQ"}
  <2>1. diffs[c] \in EditSet(Text)
    BY ElementOfSeq
  <2> QED
    BY <2>1 DEF EditSet
<1>5. diffs[c].action # "EQ" => c \in Shown(n)
  BY DiffAssumption DEF Shown
<1>6. \A d \in 1 .. i + 1 : d \in 1 .. i \/ d = c
  BY <1>1
<1>7. CASE c \in Shown(n)
  <2>1. t = Append(s, line)
    BY <1>1, <1>2, <1>7
  <2>2. s \in Seq(LineSet)
    BY DEF WrittenOf
  <2>3. /\ t \in Seq(LineSet) /\ t # <<>> /\ Len(t) = Len(s) + 1 /\ Len(s) \in Nat
        /\ \A h \in 1 .. Len(s) : t[h] = s[h]
        /\ t[Len(s) + 1] = line
    BY <1>3, <2>1, <2>2, AppendProperties, LenProperties
  <2>4. ASSUME NEW h \in 1 .. Len(t) PROVE LineIsRight(t[h], expect, got)
    <3>1. CASE h \in 1 .. Len(s)
      BY <2>3, <3>1 DEF WrittenOf
    <3>2. CASE h = Len(s) + 1
      BY <1>3, <2>3, <3>2
    <3> QED
      BY <2>3, <3>1, <3>2
  <2>5. Kept(t, {"ADD", "DEL"}) = more
    <3>1. Kept(Append(s, line), {"ADD", "DEL"}) =
            IF line.action \in {"ADD", "DEL"}
            THEN Append(Kept(s, {"ADD", "DEL"}), line.val) ELSE Kept(s, {"ADD", "DEL"})
      BY <1>3, <2>2, KeptAppend
    <3>2. Kept(s, {"ADD", "DEL"}) = kept
      BY DEF WrittenOf
    <3> QED
      BY <1>1, <1>3, <2>1, <3>1, <3>2
  <2>6. \E d \in 1 .. n : diffs[d].action # "EQ"
    BY <1>7 DEF Shown
  <2> QED
    BY <2>3, <2>4, <2>5, <2>6 DEF WrittenOf
<1>8. CASE c \notin Shown(n)
  <2>1. t = s
    BY <1>1, <1>8
  <2>2. diffs[c].action = "EQ"
    BY <1>5, <1>8
  <2>3. more = kept
    BY <1>1, <2>2
  <2>4. (\E d \in 1 .. i + 1 : diffs[d].action # "EQ") => \E d \in 1 .. i : diffs[d].action # "EQ"
    BY <1>6, <2>2
  <2> QED
    BY <2>1, <2>3, <2>4 DEF WrittenOf
<1> QED
  BY <1>7, <1>8

-----------------------------------------------------------------------------
(* The invariant *)

(* MessageIsRight of the message m about the edits d of a and b.           *)
Right(m, d, a, b) ==
  /\ m = <<>> <=> a = b
  /\ Changes(m) = Changes(d)
  /\ \A i \in DOMAIN m : LineIsRight(m[i], a, b)

(* The message about a script of both texts is right.                      *)
LEMMA MessageRight ==
  ASSUME expect \in Seq(Text), got \in Seq(Text),
         Gives(diffs, Len(expect), Len(got), expect, got, Text), NEW n, n = Len(diffs)
  PROVE  Right(Written(n), diffs, expect, got)
<1>1. diffs \in Seq(EditSet(Text)) /\ n \in Nat
  BY LenProperties DEF Gives
<1>2. PICK xs, ys : /\ Path(diffs, xs, ys, expect, got)
                    /\ xs[Len(diffs)] = Len(expect) /\ ys[Len(diffs)] = Len(got)
  BY DEF Gives, Leads
<1>3. PICK f : Writes(f, n)
  BY <1>1, WrittenSteps
<1>4. PICK g : Keeps(g, diffs, {"ADD", "DEL"})
  BY <1>1, KeptSteps
<1> DEFINE T == {i \in Nat : WrittenOf(f[i], i, n, g[i])}
<1>5. 0 \in T
  <2>1. f[0] = <<>> /\ g[0] = <<>>
    BY <1>3, <1>4 DEF Writes, Keeps
  <2>2. PICK s : s = <<>>
    OBVIOUS
  <2>3. s \in Seq(LineSet) /\ Len(s) = 0
    BY <2>2, EmptySeq
  <2>4. Kept(s, {"ADD", "DEL"}) = s
    BY <2>2, KeptEmpty
  <2>5. WrittenOf(s, 0, n, s)
    BY <2>2, <2>3, <2>4 DEF WrittenOf
  <2>6. f[0] = s /\ g[0] = s
    BY <2>1, <2>2
  <2>7. WrittenOf(f[0], 0, n, g[0])
    BY <2>5, <2>6, Zenon
  <2> QED
    BY <2>7
<1>6. ASSUME NEW i \in 0 .. n - 1, i \in T PROVE i + 1 \in T
  <2>1. i + 1 \in 1 .. n /\ (i + 1) - 1 = i /\ i + 1 \in Nat
    BY <1>1
  <2>2. PICK s, t, kept, more : s = f[i] /\ t = f[i + 1] /\ kept = g[i] /\ more = g[i + 1]
    OBVIOUS
  <2>3. t = IF i + 1 \in Shown(n) THEN Append(s, LineFormat(i + 1)) ELSE s
    <3>1. f[i + 1] = IF i + 1 \in Shown(n) THEN Append(f[(i + 1) - 1], LineFormat(i + 1))
                     ELSE f[(i + 1) - 1]
      BY <1>3, <2>1 DEF Writes
    <3> QED
      BY <2>1, <2>2, <3>1
  <2>4. more = IF diffs[i + 1].action \in {"ADD", "DEL"}
               THEN Append(kept, diffs[i + 1].val) ELSE kept
    <3>1. g[i + 1] = IF diffs[i + 1].action \in {"ADD", "DEL"}
                     THEN Append(g[(i + 1) - 1], diffs[i + 1].val) ELSE g[(i + 1) - 1]
      BY <1>4, <2>1 DEF Keeps
    <3> QED
      BY <2>1, <2>2, <3>1
  <2>5. WrittenOf(s, i, n, kept)
    BY <1>6, <2>2
  <2>6. WrittenOf(t, i + 1, n, more)
    BY <1>1, <1>2, <2>3, <2>4, <2>5, WritesOn
  <2>7. WrittenOf(f[i + 1], i + 1, n, g[i + 1])
    BY <2>2, <2>6, Zenon
  <2> QED
    BY <2>1, <2>7
<1>7. PICK m : m = Written(n)
  OBVIOUS
<1>8. WrittenOf(m, n, n, g[n])
  <2>1. n \in T
    <3> HIDE DEF T
    <3>1. 0 .. n \subseteq T
      BY <1>1, <1>5, <1>6, UpTo
    <3> QED
      BY <1>1, <3>1
  <2>2. m = f[n]
    BY <1>3, <1>7 DEF Writes
  <2> QED
    BY <2>1, <2>2
<1>9. Changes(m) = Changes(diffs)
  BY <1>4, <1>8 DEF WrittenOf, Keeps, Changes
<1>10. \A i \in DOMAIN m : LineIsRight(m[i], expect, got)
  <2>1. DOMAIN m = 1 .. Len(m)
    BY <1>8, LenProperties DEF WrittenOf
  <2> QED
    BY <1>8, <2>1 DEF WrittenOf
<1>11. ASSUME expect = got PROVE m = <<>>
  <2>1. \A c \in 1 .. n : diffs[c].action = "EQ"
    BY <1>11 DEF Gives
  <2> QED
    BY <1>8, <2>1 DEF WrittenOf
<1>12. ASSUME m = <<>> PROVE expect = got
  <2>1. \A c \in 1 .. Len(diffs) : diffs[c].action = "EQ"
    BY <1>8, <1>12 DEF WrittenOf
  <2>2. Kept(diffs, {"EQ", "DEL"}) = Kept(diffs, {"EQ", "ADD"})
    <3>1. "EQ" \in {"EQ", "DEL"} /\ "EQ" \in {"EQ", "ADD"} /\ Len(diffs) \in Nat
      BY <1>1
    <3> QED
      BY <2>1, <3>1, AllKept
  <2>3. Makes(diffs, xs[Len(diffs)], ys[Len(diffs)], expect, got)
    BY <1>2, PathMakes, Zenon
  <2>4. /\ Kept(diffs, {"EQ", "DEL"}) = SubSeq(expect, 1, Len(expect))
        /\ Kept(diffs, {"EQ", "ADD"}) = SubSeq(got, 1, Len(got))
    BY <1>2, <2>3 DEF Makes
  <2>5. SubSeq(expect, 1, Len(expect)) = expect /\ SubSeq(got, 1, Len(got)) = got
    BY SubSeqFull
  <2> QED
    BY <2>2, <2>4, <2>5
<1>13. m = <<>> <=> expect = got
  BY <1>11, <1>12
<1> QED
  BY <1>7, <1>9, <1>10, <1>13 DEF Right

(* The edits of the longest texts can be counted, and so can the rows of   *)
(* the longest batches: a limit is low enough, or the texts are short.     *)
BatchesFit ==
  /\ 2 * MaxLines <= MaxIndex
  /\ 4 * MaxRaw + 1 <= MaxIndex
  /\ \A l \in Limits : 4 * l + 1 <= MaxIndex \/ 4 * MaxLines + 1 <= MaxIndex

LinesOK(t) == t \in Seq(Text) /\ Len(t) \in Nat /\ 2 * Len(t) <= MaxIndex
BatchesOK ==
  /\ LinesOK(expect) /\ LinesOK(got)
  /\ batch_limit \in Nat \ {0}
  /\ 4 * batch_limit + 1 <= MaxIndex \/ (TextOK(expect) /\ TextOK(got))

(* They do in the first state.                                             *)
LEMMA BatchesBegin ==
  ASSUME BatchesFit, DiffInit
  PROVE  BatchesOK
<1>0. /\ MaxLines \in Nat /\ MaxRaw \in Nat /\ MaxIndex \in Nat /\ Limits \subseteq Nat \ {0}
      /\ 2 * MaxLines <= MaxIndex /\ 4 * MaxRaw + 1 <= MaxIndex
  BY DiffAssumption, MaxIndexType DEF BatchesFit
<1>1. CASE TwoTexts(MaxLines) /\ batch_limit \in Limits
  <2>1. LinesOK(expect) /\ LinesOK(got) /\ batch_limit \in Nat \ {0}
    BY <1>0, <1>1 DEF TwoTexts, LinesOK
  <2>2. 4 * MaxLines + 1 <= MaxIndex => TextOK(expect) /\ TextOK(got)
    BY <1>0, <1>1 DEF TwoTexts, TextOK
  <2>3. 4 * batch_limit + 1 <= MaxIndex \/ 4 * MaxLines + 1 <= MaxIndex
    BY <1>1 DEF BatchesFit
  <2> QED
    BY <2>1, <2>2, <2>3 DEF BatchesOK
<1>2. CASE TwoTexts(MaxRaw) /\ batch_limit = MaxIndex
  <2>1. LinesOK(expect) /\ LinesOK(got) /\ batch_limit \in Nat \ {0}
    BY <1>0, <1>2 DEF TwoTexts, LinesOK
  <2>2. TextOK(expect) /\ TextOK(got)
    BY <1>0, <1>2 DEF TwoTexts, TextOK
  <2> QED
    BY <2>1, <2>2 DEF BatchesOK
<1> QED
  BY <1>1, <1>2, TextsBegin

(* The rows of a batch can be counted.                                     *)
LEMMA BatchFits ==
  ASSUME BatchesOK, NEW p, NEW q, Len(p) \in Nat, Len(q) \in Nat,
         Len(p) <= Len(expect), Len(q) <= Len(got), Len(p) <= batch_limit, Len(q) <= batch_limit
  PROVE  Fit(p, q) /\ ~Throws(p, q)
<1>1. Fit(p, q)
  <2>1. CASE 4 * batch_limit + 1 <= MaxIndex
    BY <2>1, MaxIndexType DEF BatchesOK, Fit
  <2>2. CASE TextOK(expect) /\ TextOK(got)
    BY <2>2, PartsFit
  <2> QED
    BY <2>1, <2>2 DEF BatchesOK
<1> QED
  BY <1>1, RowsFit

(* The invariant of DiffMsg: what was found so far is a script of the      *)
(* lines that the calls are through with, and no batch was too long.       *)
DiffInv ==
  /\ BatchesOK
  /\ Gives(diffs, efrom, gfrom, expect, got, Text)
  /\ calls \in Nat /\ calls <= efrom + gfrom
  /\ phase \in {"diff", "show", "done"}
  /\ phase # "diff" => efrom = Len(expect) /\ gfrom = Len(got)
  /\ phase = "done" => Right(message, diffs, expect, got)

(* No edits are a script of no lines.                                      *)
LEMMA NothingFound ==
  ASSUME NEW V, NEW a, NEW b, Len(a) \in Nat, Len(b) \in Nat
  PROVE  Gives(<<>>, 0, 0, a, b, V)
<1>1. PICK s : s = <<>>
  OBVIOUS
<1>2. s \in Seq(EditSet(V)) /\ Len(s) = 0
  BY <1>1
<1>3. PICK zero : zero = [i \in {0} |-> 0]
  OBVIOUS
<1>4. zero[0] = 0
  BY <1>3
<1>5. Path(s, zero, zero, a, b)
  BY <1>2, <1>4 DEF Path
<1>6. Leads(s, 0, 0, a, b)
  BY <1>2, <1>4, <1>5 DEF Leads
<1>7. 0 \in 0 .. Len(a) /\ 0 \in 0 .. Len(b)
  OBVIOUS
<1> QED
  BY <1>1, <1>2, <1>6, <1>7 DEF Gives

(* The invariant holds in the first state.                                 *)
LEMMA DiffBeginsRight ==
  ASSUME BatchesFit, DiffInit
  PROVE  DiffInv
<1>1. BatchesOK
  BY BatchesBegin
<1>2. /\ efrom = 0 /\ gfrom = 0 /\ diffs = <<>> /\ calls = 0 /\ phase = "diff"
  BY DEF DiffInit, DiffBegins
<1>3. Gives(<<>>, 0, 0, expect, got, Text)
  BY <1>1, NothingFound DEF BatchesOK, LinesOK
<1>4. Gives(diffs, efrom, gfrom, expect, got, Text)
  BY <1>2, <1>3
<1> QED
  BY <1>1, <1>2, <1>4 DEF DiffInv

(* The last call.                                                          *)
LEMMA RestHolds == DiffInv /\ Rest => DiffInv'
<1> SUFFICES ASSUME DiffInv, Rest PROVE DiffInv'
  OBVIOUS
<1>0. /\ expect \in Seq(Text) /\ got \in Seq(Text)
      /\ Len(expect) \in Nat /\ Len(got) \in Nat
      /\ efrom \in 0 .. Len(expect) /\ gfrom \in 0 .. Len(got)
      /\ calls \in Nat /\ calls <= efrom + gfrom
  BY DEF DiffInv, BatchesOK, LinesOK, Gives
<1>1. PICK p : p = From(expect, efrom)
  OBVIOUS
<1>2. PICK q : q = From(got, gfrom)
  OBVIOUS
<1>3. Part(p, expect, efrom, Text) /\ Len(p) = Len(expect) - efrom
  <2>1. Len(expect) \in efrom .. Len(expect)
    BY <1>0
  <2> QED
    BY <1>0, <1>1, <2>1, PartIs DEF From
<1>4. Part(q, got, gfrom, Text) /\ Len(q) = Len(got) - gfrom
  <2>1. Len(got) \in gfrom .. Len(got)
    BY <1>0
  <2> QED
    BY <1>0, <1>2, <2>1, PartIs DEF From
<1>5. /\ p \in Seq(Text) /\ Len(p) \in Nat /\ Len(p) <= Len(expect)
      /\ q \in Seq(Text) /\ Len(q) \in Nat /\ Len(q) <= Len(got)
  BY <1>0, <1>3, <1>4 DEF Part
<1>6. Fit(p, q) /\ ~Throws(p, q)
  <2>1. Len(p) <= batch_limit /\ Len(q) <= batch_limit
    BY <1>3, <1>4 DEF Rest, Fits
  <2> QED
    BY <1>5, <2>1, BatchFits DEF DiffInv
<1>7. PICK next : next = Pushed(myers_diff(p, q), Len(myers_diff(p, q)))
  OBVIOUS
<1>8. Gives(next, Len(p), Len(q), p, q, Text)
  BY <1>5, <1>6, <1>7, RestGives
<1>9. /\ diffs' = diffs \o next /\ efrom' = Len(expect) /\ gfrom' = Len(got) /\ phase' = "show"
      /\ UNCHANGED <<expect, got, batch_limit, calls>>
  BY <1>1, <1>2, <1>6, <1>7 DEF Rest
<1>10. expect = got /\ efrom = gfrom => p = q
  BY <1>1, <1>2
<1>11. Gives(diffs \o next, efrom + Len(p), gfrom + Len(q), expect, got, Text)
  BY <1>3, <1>4, <1>8, <1>10, GoesOn DEF DiffInv
<1>12. efrom + Len(p) = Len(expect) /\ gfrom + Len(q) = Len(got)
  BY <1>0, <1>3, <1>4
<1>13. Gives(diffs', efrom', gfrom', expect', got', Text)
  BY <1>9, <1>11, <1>12
<1>14. calls' \in Nat /\ calls' <= efrom' + gfrom'
  BY <1>0, <1>9
<1>15. BatchesOK'
  BY <1>9 DEF DiffInv, BatchesOK, LinesOK, TextOK
<1> QED
  BY <1>9, <1>13, <1>14, <1>15 DEF DiffInv

(* A batch of a text.                                                      *)
LEMMA BatchIs ==
  ASSUME NEW V, NEW a \in Seq(V), NEW n \in 0 .. Len(a), batch_limit \in Nat \ {0}
  PROVE  /\ Part(Batch(a, n), a, n, V) /\ Len(Batch(a, n)) <= batch_limit
         /\ Len(a) - n > 0 => Len(Batch(a, n)) > 0
<1>1. Len(a) \in Nat /\ n \in Nat /\ n + batch_limit \in Int
  BY LenProperties
<1>2. PICK m \in n .. Len(a) : /\ m = Min({n + batch_limit, Len(a)}) /\ m <= n + batch_limit
                               /\ Len(a) - n > 0 => m > n
  <2>1. Min({n + batch_limit, Len(a)}) =
          IF n + batch_limit <= Len(a) THEN n + batch_limit ELSE Len(a)
    BY <1>1, MinOfTwo
  <2> QED
    BY <1>1, <2>1
<1>3. Part(SubSeq(a, n + 1, m), a, n, V) /\ Len(SubSeq(a, n + 1, m)) = m - n
  BY PartIs
<1>4. Batch(a, n) = SubSeq(a, n + 1, m)
  BY <1>2 DEF Batch
<1>5. m - n <= batch_limit /\ (Len(a) - n > 0 => m - n > 0)
  BY <1>1, <1>2
<1> QED
  BY <1>3, <1>4, <1>5

(* A call that cuts.                                                       *)
LEMMA CutHolds == DiffInv /\ Cut => DiffInv'
<1> SUFFICES ASSUME DiffInv, Cut PROVE DiffInv'
  OBVIOUS
<1>0. /\ expect \in Seq(Text) /\ got \in Seq(Text)
      /\ Len(expect) \in Nat /\ Len(got) \in Nat /\ batch_limit \in Nat \ {0}
      /\ efrom \in 0 .. Len(expect) /\ gfrom \in 0 .. Len(got)
      /\ calls \in Nat /\ calls <= efrom + gfrom
  BY DEF DiffInv, BatchesOK, LinesOK, Gives
<1>1. PICK p : p = Batch(expect, efrom)
  OBVIOUS
<1>2. PICK q : q = Batch(got, gfrom)
  OBVIOUS
<1>3. /\ Part(p, expect, efrom, Text) /\ Len(p) <= batch_limit
      /\ Len(expect) - efrom > 0 => Len(p) > 0
  BY <1>0, <1>1, BatchIs
<1>4. /\ Part(q, got, gfrom, Text) /\ Len(q) <= batch_limit
      /\ Len(got) - gfrom > 0 => Len(q) > 0
  BY <1>0, <1>2, BatchIs
<1>5. /\ p \in Seq(Text) /\ Len(p) \in Nat /\ Len(p) <= Len(expect)
      /\ q \in Seq(Text) /\ Len(q) \in Nat /\ Len(q) <= Len(got)
  BY <1>0, <1>3, <1>4 DEF Part
<1>6. Fit(p, q) /\ ~Throws(p, q)
  BY <1>3, <1>4, <1>5, BatchFits DEF DiffInv
<1>7. Len(p) + Len(q) > 0
  <2>1. Len(expect) - efrom > 0 \/ Len(got) - gfrom > 0
    BY <1>0 DEF Cut, Fits
  <2> QED
    BY <1>3, <1>4, <1>5, <2>1
<1>8. PICK edits : edits = myers_diff(p, q)
  OBVIOUS
<1>9. Keep(p, q, edits) /\ phase = "diff" /\ UNCHANGED <<expect, got, batch_limit>>
  BY <1>1, <1>2, <1>6, <1>8 DEF Cut
<1>10. PICK last : last = SelectLastInSeq(Pushed(edits, Len(edits)), LAMBDA e : e.action = "EQ")
  OBVIOUS
<1>11. PICK x, y : Batched(edits, last, x, y, p, q, Text)
  BY <1>5, <1>6, <1>7, <1>8, <1>10, BatchGives
<1>12. PICK next : next = Pushed(edits, BatchEnd(edits, last))
  OBVIOUS
<1>13. /\ diffs' = diffs \o next
       /\ efrom' = efrom + IndexT(IF last = 0 THEN Len(p) ELSE edits[last].orig + 1)
       /\ gfrom' = gfrom + IndexT(IF last = 0 THEN Len(q) ELSE edits[last].updated + 1)
       /\ calls' = calls + 1 /\ phase' = phase
  BY <1>9, <1>10, <1>12 DEF Keep
<1>14. /\ x \in Nat /\ y \in Nat /\ x + y > 0 /\ Gives(next, x, y, p, q, Text)
       /\ efrom' = efrom + x /\ gfrom' = gfrom + y
  BY <1>11, <1>12, <1>13 DEF Batched
<1>15. expect = got /\ efrom = gfrom => p = q
  BY <1>1, <1>2
<1>16. Gives(diffs \o next, efrom + x, gfrom + y, expect, got, Text)
  BY <1>3, <1>4, <1>14, <1>15, GoesOn DEF DiffInv
<1>17. Gives(diffs', efrom', gfrom', expect', got', Text)
  BY <1>9, <1>13, <1>14, <1>16
<1>18. calls' \in Nat /\ calls' <= efrom' + gfrom'
  BY <1>0, <1>13, <1>14
<1>19. BatchesOK'
  BY <1>9 DEF DiffInv, BatchesOK, LinesOK, TextOK
<1>20. phase' = "diff"
  BY <1>9, <1>13
<1> QED
  BY <1>17, <1>18, <1>19, <1>20 DEF DiffInv

(* to_string: the edits are few enough to be counted.                      *)
LEMMA ShowHolds == DiffInv /\ Show => DiffInv'
<1> SUFFICES ASSUME DiffInv, Show PROVE DiffInv'
  OBVIOUS
<1>1. /\ expect \in Seq(Text) /\ got \in Seq(Text) /\ LinesOK(expect) /\ LinesOK(got)
      /\ phase = "show" /\ efrom = Len(expect) /\ gfrom = Len(got)
      /\ Gives(diffs, Len(expect), Len(got), expect, got, Text)
  BY DEF DiffInv, BatchesOK, LinesOK, Show
<1>2. PICK n \in Nat : n = Len(diffs) /\ IndexT(Len(diffs)) = n
  <2>1. diffs \in Seq(EditSet(Text)) /\ Len(diffs) \in Nat
    BY <1>1, LenProperties DEF Gives
  <2>2. Len(diffs) <= Len(expect) + Len(got)
    <3>1. PICK xs, ys : /\ Path(diffs, xs, ys, expect, got)
                        /\ xs[Len(diffs)] = Len(expect) /\ ys[Len(diffs)] = Len(got)
      BY <1>1 DEF Gives, Leads
    <3> QED
      BY <3>1, PathLength
  <2>3. Len(diffs) \in Int /\ -MaxIndex <= Len(diffs) /\ Len(diffs) <= MaxIndex
    BY <1>1, <2>1, <2>2, MaxIndexType DEF LinesOK
  <2> QED
    BY <2>1, <2>3, IndexKeeps
<1>3. phase' = "done" /\ message' = Written(n)
  <2>1. ~(n < 0)
    BY <1>2
  <2> QED
    BY <1>2, <2>1 DEF Show
<1>4. UNCHANGED <<expect, got, batch_limit, efrom, gfrom, diffs, calls>>
  BY DEF Show
<1>5. Right(Written(n), diffs, expect, got)
  BY <1>1, <1>2, MessageRight
<1>6. Right(message', diffs', expect', got')
  BY <1>3, <1>4, <1>5
<1>7. BatchesOK'
  BY <1>4 DEF DiffInv, BatchesOK, LinesOK, TextOK
<1>8. Gives(diffs', efrom', gfrom', expect', got', Text)
  BY <1>4 DEF DiffInv
<1>9. /\ calls' \in Nat /\ calls' <= efrom' + gfrom'
      /\ efrom' = Len(expect') /\ gfrom' = Len(got')
  BY <1>1, <1>4 DEF DiffInv
<1> QED
  BY <1>3, <1>6, <1>7, <1>8, <1>9 DEF DiffInv

(* Every step preserves the invariant.                                     *)
LEMMA DiffStays == DiffInv /\ [DiffNext]_diffVars => DiffInv'
<1> SUFFICES ASSUME DiffInv, [DiffNext]_diffVars PROVE DiffInv'
  OBVIOUS
<1>1. CASE UNCHANGED diffVars
  BY <1>1 DEF diffVars, DiffInv, BatchesOK, LinesOK, TextOK
<1> QED
  BY <1>1, RestHolds, CutHolds, ShowHolds DEF DiffNext

(* What a script leads to is what it turns into each other.                *)
LEMMA GivesTurns ==
  ASSUME NEW V, NEW a \in Seq(V), NEW b \in Seq(V), NEW edits, NEW x, NEW y,
         Gives(edits, x, y, a, b, V)
  PROVE  Turns(edits, SubSeq(a, 1, x), SubSeq(b, 1, y))
<1>1. PICK xs, ys : Path(edits, xs, ys, a, b) /\ xs[Len(edits)] = x /\ ys[Len(edits)] = y
  BY DEF Gives, Leads
<1>2. Makes(edits, xs[Len(edits)], ys[Len(edits)], a, b)
  BY <1>1, PathMakes, Zenon
<1> QED
  BY <1>1, <1>2 DEF Makes, Turns

(* Nothing is thrown and nothing is undefined while the batches fit.       *)
THEOREM NothingThrown ==
  ASSUME BatchesFit
  PROVE  DiffSpec => [](phase \in {"diff", "show", "done"})
<1>1. DiffInit => DiffInv
  BY DiffBeginsRight
<1>2. DiffInv => phase \in {"diff", "show", "done"}
  BY DEF DiffInv
<1> QED
  BY <1>1, <1>2, DiffStays, PTL DEF DiffSpec

(* Between two batches, what was found so far turns the lines behind into  *)
(* each other, and each batch gets past a line at least; the message then  *)
(* says that the texts differ if and only if they do, and shows every      *)
(* change at the right line numbers.                                       *)
THEOREM DiffsAreRight ==
  ASSUME BatchesFit
  PROVE  DiffSpec => []DiffIsRight
<1>1. DiffInit => DiffInv
  BY DiffBeginsRight
<1>2. DiffInv => BatchesMeet
  <2> SUFFICES ASSUME DiffInv PROVE BatchesMeet
    OBVIOUS
  <2>1. expect \in Seq(Text) /\ got \in Seq(Text) /\ Gives(diffs, efrom, gfrom, expect, got, Text)
    BY DEF DiffInv, BatchesOK, LinesOK
  <2>2. Turns(diffs, SubSeq(expect, 1, efrom), SubSeq(got, 1, gfrom))
    BY <2>1, GivesTurns
  <2> QED
    BY <2>2 DEF DiffInv, BatchesMeet
<1>3. DiffInv => MessageIsRight
  <2> SUFFICES ASSUME DiffInv, phase = "done" PROVE MessageIsRight
    BY DEF MessageIsRight
  <2>1. Right(message, diffs, expect, got)
    BY DEF DiffInv
  <2> QED
    BY <2>1 DEF Right, LineIsRight, MessageIsRight
<1>4. DiffInv => DiffIsRight
  BY <1>2, <1>3 DEF DiffIsRight
<1> QED
  BY <1>1, <1>4, DiffStays, PTL DEF DiffSpec
=============================================================================
