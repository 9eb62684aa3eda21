--------------------------- MODULE PackagesProofs ---------------------------
(***************************************************************************)
(* Proofs about the packages without threads that are not recursive        *)
(* algorithms: ScopeGuard, HashList, ConfigMap, FlagSet and Fraction, for  *)
(* every value of their constants.  They share no variables.               *)
(***************************************************************************)
EXTENDS ScopeGuard, HashList, ConfigMap, FlagSet, Fraction,
        SequenceTheorems, FiniteSetTheorems, WellFoundedInduction, TLAPS

-----------------------------------------------------------------------------
(* Induction: no prover takes the theorems of NaturalsInduction, which     *)
(* have an operator as parameter.  These take a set, and rest on the       *)
(* smallest element of its complement.                                     *)

(* A set of numbers with 0 and, up to n, the successor of each member has  *)
(* all numbers up to n.                                                    *)
LEMMA UpTo ==
  ASSUME NEW n \in Nat, NEW S, 0 \in S, \A i \in 0 .. n - 1 : i \in S => i + 1 \in S
  PROVE  0 .. n \subseteq S
<1> DEFINE T == (0 .. n) \ S
           R == OpToRel(<, Nat)
<1> SUFFICES ASSUME T # {} PROVE FALSE
  OBVIOUS
<1>1. \A x, y \in Nat : y < x => <<y, x>> \in R
  BY DEF OpToRel
<1> HIDE DEF R
<1>2. T \subseteq Nat
  OBVIOUS
<1>3. \E x \in T : \A y \in T : ~(<<y, x>> \in R)
  <2> HIDE DEF T
  <2>1. IsWellFoundedOn(R, Nat)
    BY NatLessThanWellFounded DEF R
  <2> QED
    BY <1>2, <2>1, WFMin
<1>4. PICK x \in T : \A y \in T : ~(<<y, x>> \in R)
  BY <1>3
<1>5. x # 0 /\ x \in 1 .. n /\ x - 1 \in 0 .. n - 1
  BY <1>4
<1>6. x - 1 \in T
  BY <1>4, <1>5
<1>7. <<x - 1, x>> \in R
  BY <1>1, <1>5
<1> QED
  BY <1>4, <1>6, <1>7

(* A set of numbers that has each number once it has all smaller ones.     *)
LEMMA AllNumbers ==
  ASSUME NEW S, \A n \in Nat : (\A m \in 0 .. n - 1 : m \in S) => n \in S
  PROVE  Nat \subseteq S
<1> DEFINE T(n) == {i \in Nat : \A m \in 0 .. i : m \in S}
<1> SUFFICES ASSUME NEW n \in Nat PROVE n \in S
  OBVIOUS
<1>1. 0 \in T(n)
  OBVIOUS
<1>2. \A i \in 0 .. n - 1 : i \in T(n) => i + 1 \in T(n)
  <2> SUFFICES ASSUME NEW i \in 0 .. n - 1, \A m \in 0 .. i : m \in S
               PROVE  i + 1 \in T(n)
    OBVIOUS
  <2>1. i + 1 \in Nat /\ \A m \in 0 .. (i + 1) - 1 : m \in S
    OBVIOUS
  <2>2. i + 1 \in S
    BY <2>1
  <2> QED
    BY <2>2
<1>3. 0 .. n \subseteq T(n)
  <2> HIDE DEF T
  <2> QED
    BY <1>1, <1>2, UpTo
<1> QED
  BY <1>3

-----------------------------------------------------------------------------
(* What insertions and removals do to the elements of a sequence.          *)

(* No element comes twice.                                                 *)
Distinct(s) == \A i, j \in DOMAIN s : s[i] = s[j] => i = j

(* The elements of a sequence into which e was inserted.                   *)
LEMMA InsertAtElements ==
  ASSUME NEW S, NEW s \in Seq(S), NEW i \in 1 .. Len(s) + 1, NEW e \in S
  PROVE  /\ InsertAt(s, i, e) \in Seq(S)
         /\ Len(InsertAt(s, i, e)) = Len(s) + 1
         /\ \A j \in 1 .. Len(s) + 1 :
              InsertAt(s, i, e)[j] = IF j < i THEN s[j] ELSE IF j = i THEN e ELSE s[j - 1]
<1> DEFINE front == SubSeq(s, 1, i - 1)
           back == SubSeq(s, i, Len(s))
<1>1. Len(s) \in Nat /\ \A j \in 1 .. Len(s) : s[j] \in S
  BY LenProperties, ElementOfSeq
<1>2. /\ front \in Seq(S) /\ Len(front) = i - 1
      /\ \A j \in 1 .. i - 1 : front[j] = s[j]
  <2>1. \A j \in 1 .. i - 1 : s[j] \in S
    BY <1>1
  <2> QED
    BY <1>1, <2>1, SubSeqProperties, Z3
<1>3. /\ back \in Seq(S) /\ Len(back) = Len(s) + 1 - i
      /\ \A j \in 1 .. Len(s) + 1 - i : back[j] = s[i + j - 1]
  <2>1. \A j \in i .. Len(s) : s[j] \in S
    BY <1>1
  <2> QED
    BY <1>1, <2>1, SubSeqProperties, Z3
<1>4. <<e>> \in Seq(S) /\ Len(<<e>>) = 1 /\ <<e>>[1] = e
  OBVIOUS
<1> HIDE DEF front, back
<1> DEFINE head == front \o <<e>>
<1>5. /\ head \in Seq(S) /\ Len(head) = i
      /\ \A j \in 1 .. i : head[j] = IF j = i THEN e ELSE s[j]
  BY <1>2, <1>4, ConcatProperties
<1> HIDE DEF head
<1>6. InsertAt(s, i, e) = head \o back
  BY DEF InsertAt, head, front, back
<1>7. /\ InsertAt(s, i, e) \in Seq(S)
      /\ Len(InsertAt(s, i, e)) = Len(s) + 1
      /\ \A j \in 1 .. Len(s) + 1 :
           InsertAt(s, i, e)[j] = IF j <= i THEN head[j] ELSE back[j - i]
  <2>1. /\ head \o back \in Seq(S)
        /\ Len(head \o back) = Len(head) + Len(back)
        /\ \A j \in 1 .. Len(head) + Len(back) :
             (head \o back)[j] = IF j <= Len(head) THEN head[j] ELSE back[j - Len(head)]
    BY <1>3, <1>5, ConcatProperties
  <2>2. Len(head) = i /\ Len(head) + Len(back) = Len(s) + 1
    BY <1>1, <1>3, <1>5
  <2> QED
    BY <1>6, <2>1, <2>2
<1>8. ASSUME NEW j \in 1 .. Len(s) + 1
      PROVE  InsertAt(s, i, e)[j] = IF j < i THEN s[j] ELSE IF j = i THEN e ELSE s[j - 1]
  <2>1. CASE j <= i
    BY <1>1, <1>5, <1>7, <2>1
  <2>2. CASE j > i
    <3>1. j - i \in 1 .. Len(s) + 1 - i /\ i + (j - i) - 1 = j - 1 /\ j # i /\ ~(j <= i) /\ ~(j < i)
      BY <1>1, <2>2
    <3> QED
      BY <1>3, <1>7, <3>1
  <2> QED
    BY <1>1, <2>1, <2>2
<1> QED
  BY <1>7, <1>8

(* The elements of a sequence from which one was removed.                  *)
LEMMA RemoveAtElements ==
  ASSUME NEW S, NEW s \in Seq(S), NEW i \in 1 .. Len(s)
  PROVE  /\ RemoveAt(s, i) \in Seq(S)
         /\ Len(RemoveAt(s, i)) = Len(s) - 1
         /\ \A j \in 1 .. Len(s) - 1 :
              RemoveAt(s, i)[j] = IF j < i THEN s[j] ELSE s[j + 1]
<1> DEFINE front == SubSeq(s, 1, i - 1)
           back == SubSeq(s, i + 1, Len(s))
<1>1. Len(s) \in Nat /\ \A j \in 1 .. Len(s) : s[j] \in S
  BY LenProperties, ElementOfSeq
<1>2. /\ front \in Seq(S) /\ Len(front) = i - 1
      /\ \A j \in 1 .. i - 1 : front[j] = s[j]
  <2>1. \A j \in 1 .. i - 1 : s[j] \in S
    BY <1>1
  <2> QED
    BY <1>1, <2>1, SubSeqProperties, Z3
<1>3. /\ back \in Seq(S) /\ Len(back) = Len(s) - i
      /\ \A j \in 1 .. Len(s) - i : back[j] = s[i + j]
  <2>1. \A j \in i + 1 .. Len(s) : s[j] \in S
    BY <1>1
  <2> QED
    BY <1>1, <2>1, SubSeqProperties, Z3
<1> HIDE DEF front, back
<1>4. RemoveAt(s, i) = front \o back
  BY DEF RemoveAt, front, back
<1>5. /\ RemoveAt(s, i) \in Seq(S)
      /\ Len(RemoveAt(s, i)) = Len(s) - 1
      /\ \A j \in 1 .. Len(s) - 1 :
           RemoveAt(s, i)[j] = IF j <= i - 1 THEN front[j] ELSE back[j - (i - 1)]
  <2>1. /\ front \o back \in Seq(S)
        /\ Len(front \o back) = Len(front) + Len(back)
        /\ \A j \in 1 .. Len(front) + Len(back) :
             (front \o back)[j] = IF j <= Len(front) THEN front[j] ELSE back[j - Len(front)]
    BY <1>2, <1>3, ConcatProperties
  <2>2. Len(front) = i - 1 /\ Len(front) + Len(back) = Len(s) - 1
    BY <1>1, <1>2, <1>3
  <2> QED
    BY <1>4, <2>1, <2>2
<1>6. ASSUME NEW j \in 1 .. Len(s) - 1
      PROVE  RemoveAt(s, i)[j] = IF j < i THEN s[j] ELSE s[j + 1]
  <2>1. CASE j <= i - 1
    BY <1>1, <1>2, <1>5, <2>1
  <2>2. CASE j > i - 1
    <3>1. j - (i - 1) \in 1 .. Len(s) - i /\ i + (j - (i - 1)) = j + 1 /\ ~(j <= i - 1) /\ ~(j < i)
      BY <1>1, <2>2
    <3> QED
      BY <1>3, <1>5, <3>1
  <2> QED
    BY <1>1, <2>1, <2>2
<1> QED
  BY <1>5, <1>6

(* The set of the elements, of a sequence without duplicates. *)
LEMMA InsertAtSet ==
  ASSUME NEW S, NEW s \in Seq(S), NEW i \in 1 .. Len(s) + 1, NEW e \in S,
         Distinct(s), e \notin ToSet(s)
  PROVE  /\ InsertAt(s, i, e) \in Seq(S)
         /\ Distinct(InsertAt(s, i, e))
         /\ ToSet(InsertAt(s, i, e)) = ToSet(s) \cup {e}
<1> DEFINE t == InsertAt(s, i, e)
<1>1. /\ Len(s) \in Nat /\ DOMAIN s = 1 .. Len(s)
      /\ t \in Seq(S) /\ Len(t) = Len(s) + 1
      /\ \A j \in 1 .. Len(s) + 1 :
           t[j] = IF j < i THEN s[j] ELSE IF j = i THEN e ELSE s[j - 1]
  BY LenProperties, InsertAtElements
<1> HIDE DEF t
<1>2. DOMAIN t = 1 .. Len(s) + 1
  BY <1>1
<1>3. \A j \in 1 .. Len(s) : s[j] # e
  BY <1>1 DEF ToSet
<1>4. ASSUME NEW j \in DOMAIN t, NEW k \in DOMAIN t, t[j] = t[k] PROVE j = k
  <2>1. CASE j = i
    BY <1>1, <1>2, <1>3, <1>4, <2>1
  <2>2. CASE k = i
    BY <1>1, <1>2, <1>3, <1>4, <2>2
  <2>3. CASE j # i /\ k # i
    <3>1. PICK a \in 1 .. Len(s) : t[j] = s[a] /\ a = IF j < i THEN j ELSE j - 1
      BY <1>1, <1>2, <2>3
    <3>2. PICK b \in 1 .. Len(s) : t[k] = s[b] /\ b = IF k < i THEN k ELSE k - 1
      BY <1>1, <1>2, <2>3
    <3>3. a = b
      BY <1>1, <1>4, <3>1, <3>2 DEF Distinct
    <3> QED
      BY <1>2, <2>3, <3>1, <3>2, <3>3
  <2> QED
    BY <2>1, <2>2, <2>3
<1>5. ToSet(t) \subseteq ToSet(s) \cup {e}
  <2> SUFFICES ASSUME NEW j \in DOMAIN t PROVE t[j] \in ToSet(s) \cup {e}
    BY DEF ToSet
  <2>1. j = i \/ \E a \in 1 .. Len(s) : t[j] = s[a]
    <3>1. CASE j < i
      BY <1>1, <1>2, <3>1
    <3>2. CASE j > i
      <4>1. j - 1 \in 1 .. Len(s) /\ ~(j < i) /\ j # i
        BY <1>1, <1>2, <3>2
      <4> QED
        BY <1>1, <1>2, <4>1
    <3> QED
      BY <1>1, <1>2, <3>1, <3>2
  <2> QED
    BY <1>1, <2>1 DEF ToSet
<1>6. e \in ToSet(t)
  BY <1>1, <1>2 DEF ToSet
<1>7. ASSUME NEW a \in 1 .. Len(s) PROVE s[a] \in ToSet(t)
  <2>1. CASE a < i
    <3>1. a \in 1 .. Len(s) + 1 /\ t[a] = s[a]
      BY <1>1, <2>1
    <3> QED
      BY <1>2, <3>1 DEF ToSet
  <2>2. CASE a >= i
    <3>1. a + 1 \in 1 .. Len(s) + 1 /\ ~(a + 1 < i) /\ a + 1 # i /\ a + 1 - 1 = a
      BY <1>1, <2>2
    <3>2. t[a + 1] = s[a]
      BY <1>1, <3>1
    <3> QED
      BY <1>2, <3>1, <3>2 DEF ToSet
  <2> QED
    BY <1>1, <2>1, <2>2
<1>8. ToSet(t) = ToSet(s) \cup {e}
  BY <1>1, <1>5, <1>6, <1>7 DEF ToSet
<1> QED
  BY <1>1, <1>4, <1>8 DEF t, Distinct

(* A sequence without repetition loses the element that is removed from    *)
(* it.                                                                     *)
LEMMA RemoveAtSet ==
  ASSUME NEW S, NEW s \in Seq(S), NEW i \in 1 .. Len(s), Distinct(s)
  PROVE  /\ RemoveAt(s, i) \in Seq(S)
         /\ Distinct(RemoveAt(s, i))
         /\ ToSet(RemoveAt(s, i)) = ToSet(s) \ {s[i]}
<1> DEFINE t == RemoveAt(s, i)
<1>1. /\ Len(s) \in Nat /\ DOMAIN s = 1 .. Len(s)
      /\ t \in Seq(S) /\ Len(t) = Len(s) - 1
      /\ \A j \in 1 .. Len(s) - 1 : t[j] = IF j < i THEN s[j] ELSE s[j + 1]
  BY LenProperties, RemoveAtElements
<1> HIDE DEF t
<1>2. DOMAIN t = 1 .. Len(s) - 1
  BY <1>1
<1> DEFINE from(j) == IF j < i THEN j ELSE j + 1
<1>3. \A j \in DOMAIN t : from(j) \in 1 .. Len(s) /\ from(j) # i /\ t[j] = s[from(j)]
  BY <1>1, <1>2
<1>4. \A j, k \in DOMAIN t : from(j) = from(k) => j = k
  BY <1>2
<1>5. \A a \in 1 .. Len(s) : a # i => \E j \in DOMAIN t : from(j) = a
  <2> SUFFICES ASSUME NEW a \in 1 .. Len(s), a # i PROVE \E j \in DOMAIN t : from(j) = a
    OBVIOUS
  <2>1. CASE a < i
    <3>1. a \in DOMAIN t /\ from(a) = a
      BY <1>1, <1>2, <2>1
    <3> QED
      BY <3>1
  <2>2. CASE a > i
    <3>1. a - 1 \in DOMAIN t /\ from(a - 1) = a
      BY <1>1, <1>2, <2>2
    <3> QED
      BY <3>1
  <2> QED
    BY <1>1, <2>1, <2>2
<1> HIDE DEF from
<1>6. Distinct(t)
  BY <1>1, <1>3, <1>4 DEF Distinct
<1>7. ToSet(t) = ToSet(s) \ {s[i]}
  <2>1. /\ \A v : v \in ToSet(t) <=> \E j \in DOMAIN t : t[j] = v
        /\ \A v : v \in ToSet(s) <=> \E a \in 1 .. Len(s) : s[a] = v
    BY <1>1 DEF ToSet
  <2>2. ASSUME NEW v \in ToSet(t) PROVE v \in ToSet(s) /\ v # s[i]
    <3>1. PICK j \in DOMAIN t : t[j] = v
      BY <2>1, <2>2
    <3>2. from(j) \in 1 .. Len(s) /\ from(j) # i /\ v = s[from(j)]
      BY <1>3, <3>1
    <3>3. s[from(j)] # s[i]
      BY <1>1, <3>2 DEF Distinct
    <3> QED
      BY <2>1, <3>2, <3>3
  <2>3. ASSUME NEW v \in ToSet(s), v # s[i] PROVE v \in ToSet(t)
    <3>1. PICK a \in 1 .. Len(s) : s[a] = v
      BY <2>1, <2>3
    <3>2. a # i
      BY <2>3, <3>1
    <3>3. PICK j \in DOMAIN t : from(j) = a
      BY <1>5, <3>1, <3>2
    <3>4. t[j] = v
      BY <1>3, <3>1, <3>3
    <3> QED
      BY <2>1, <3>3, <3>4
  <2> QED
    BY <2>2, <2>3
<1> QED
  BY <1>1, <1>6, <1>7 DEF t

(* What pop_back leaves is what removal of the last element leaves. *)
LEMMA FrontSet ==
  ASSUME NEW S, NEW s \in Seq(S), Distinct(s), s # <<>>
  PROVE  /\ Front(s) \in Seq(S) /\ Last(s) \in ToSet(s)
         /\ Distinct(Front(s))
         /\ ToSet(Front(s)) = ToSet(s) \ {Last(s)}
<1>1. Len(s) \in Nat /\ Len(s) # 0 /\ DOMAIN s = 1 .. Len(s)
  BY LenProperties, EmptySeq
<1>2. RemoveAt(s, Len(s)) = Front(s)
  <2>1. SubSeq(s, Len(s) + 1, Len(s)) = <<>>
    BY <1>1, SubSeqEmpty
  <2>2. Front(s) \in Seq(S)
    <3>1. \A j \in 1 .. Len(s) - 1 : s[j] \in S
      BY <1>1, ElementOfSeq
    <3> QED
      BY <1>1, <3>1, SubSeqProperties DEF Front
  <2> QED
    BY <2>1, <2>2, ConcatEmptySeq DEF RemoveAt, Front
<1>3. Len(s) \in 1 .. Len(s) /\ Last(s) = s[Len(s)]
  BY <1>1 DEF Last
<1>4. Last(s) \in ToSet(s)
  BY <1>1, <1>3 DEF ToSet
<1>5. /\ RemoveAt(s, Len(s)) \in Seq(S)
      /\ Distinct(RemoveAt(s, Len(s)))
      /\ ToSet(RemoveAt(s, Len(s))) = ToSet(s) \ {s[Len(s)]}
  BY <1>3, RemoveAtSet
<1> QED
  BY <1>2, <1>3, <1>4, <1>5

-----------------------------------------------------------------------------
(* HashList *)

(* The nodes of a list are allocated, and no node is there twice; if       *)
(* nobody misused the list and it is no copy, its index is its inverse.    *)
Fits(s, index, whose, value) ==
  /\ Distinct(s)
  /\ \A n \in ToSet(s) : value[n] # NoVal
  /\ whose = "own" =>
       /\ \A n \in ToSet(s) : index[value[n]] = n
       /\ \A v \in Vals : index[v] # NoNode => index[v] \in ToSet(s) /\ value[index[v]] = v

(* The types of the lists, the heap and the indices.                       *)
ListTypes ==
  /\ made \subseteq Lists
  /\ lst_ \in [Lists -> Seq(Nodes)]
  /\ val \in [Nodes -> Vals \cup {NoVal}]
  /\ umap_ \in [Lists -> [Vals -> Nodes \cup {NoNode}]]
  /\ trust \in [Lists -> {"own", "copied", "misused"}]

(* A node is in one list. *)
Apart == \A o, p \in Lists : o # p => NodesOf(o) \cap NodesOf(p) = {}

(* The inductive invariant of HashList.                                    *)
ListInv ==
  /\ ListTypes /\ Apart
  /\ \A o \in Lists : Fits(lst_[o], umap_[o], trust[o], val)

(* An empty list has an index without entries.                             *)
LEMMA EmptyFits ==
  ASSUME NEW whose, NEW value
  PROVE  /\ Fits(<<>>, NoIndex, whose, value) /\ ToSet(<<>>) = {}
         /\ <<>> \in Seq(Nodes) /\ NoIndex \in [Vals -> Nodes \cup {NoNode}]
<1>1. DOMAIN <<>> = {}
  OBVIOUS
<1> QED
  BY <1>1 DEF Fits, Distinct, ToSet, NoIndex

(* A step that changes one list, and of the heap what is free or its own. *)
LEMMA OneListChanges ==
  ASSUME ListInv, NEW o \in Lists, NEW s \in Seq(Nodes),
         NEW index \in [Vals -> Nodes \cup {NoNode}],
         NEW whose \in {"own", "copied", "misused"},
         Becomes(o, s, index, whose),
         made' \subseteq Lists, val' \in [Nodes -> Vals \cup {NoVal}],
         ToSet(s) \subseteq NodesOf(o) \cup Free,
         \A n \in Nodes \ (NodesOf(o) \cup Free) : val'[n] = val[n],
         Fits(s, index, whose, val')
  PROVE  ListInv'
<1>1. ListTypes /\ Apart
  BY DEF ListInv
<1>2. /\ lst_'[o] = s /\ umap_'[o] = index /\ trust'[o] = whose
      /\ \A p \in Lists \ {o} : lst_'[p] = lst_[p] /\ umap_'[p] = umap_[p] /\ trust'[p] = trust[p]
  BY <1>1 DEF Becomes, ListTypes
<1>3. ListTypes'
  BY <1>1 DEF Becomes, ListTypes
<1>4. ASSUME NEW p \in Lists \ {o}, NEW n \in ToSet(lst_[p])
      PROVE  n \in Nodes /\ n \notin NodesOf(o) \cup Free
  <2>1. lst_[p] \in Seq(Nodes) /\ Fits(lst_[p], umap_[p], trust[p], val)
    BY <1>1 DEF ListTypes, ListInv
  <2>2. n \in Nodes
    BY <1>4, <2>1, LenProperties, ElementOfSeq DEF ToSet
  <2> QED
    BY <1>1, <1>4, <2>1, <2>2 DEF Apart, NodesOf, Fits, Free
<1>5. Apart'
  <2>1. \A p \in Lists \ {o} : ToSet(s) \cap ToSet(lst_[p]) = {}
    BY <1>4
  <2> QED
    BY <1>1, <1>2, <2>1 DEF Apart, NodesOf
<1>6. ASSUME NEW p \in Lists PROVE Fits(lst_'[p], umap_'[p], trust'[p], val')
  <2>1. CASE p = o
    BY <1>2, <2>1
  <2>2. CASE p # o
    <3>1. \A n \in ToSet(lst_[p]) : val'[n] = val[n]
      BY <1>4, <2>2
    <3>2. Fits(lst_[p], umap_[p], trust[p], val)
      BY DEF ListInv
    <3>3. Fits(lst_[p], umap_[p], trust[p], val')
      BY <3>1, <3>2 DEF Fits
    <3> QED
      BY <1>2, <2>2, <3>3
  <2> QED
    BY <2>1, <2>2
<1> QED
  BY <1>3, <1>5, <1>6 DEF ListInv

(* The nodes of a list, and what the heap is when some are released. *)
LEMMA NodesFacts ==
  ASSUME ListInv, NEW o \in Lists
  PROVE  /\ lst_[o] \in Seq(Nodes) /\ Distinct(lst_[o]) /\ NodesOf(o) \subseteq Nodes
         /\ umap_[o] \in [Vals -> Nodes \cup {NoNode}]
         /\ trust[o] \in {"own", "copied", "misused"}
         /\ Fits(lst_[o], umap_[o], trust[o], val)
         /\ \A n \in NodesOf(o) : val[n] \in Vals
         /\ NodesOf(o) \cap Free = {}
         /\ \A ns : /\ Released(ns) \in [Nodes -> Vals \cup {NoVal}]
                    /\ \A n \in Nodes \ ns : Released(ns)[n] = val[n]
<1>1. ListTypes /\ Fits(lst_[o], umap_[o], trust[o], val)
  BY DEF ListInv
<1>2. lst_[o] \in Seq(Nodes)
  BY <1>1 DEF ListTypes
<1>3. NodesOf(o) \subseteq Nodes
  BY <1>2, LenProperties, ElementOfSeq DEF NodesOf, ToSet
<1>4. \A n \in NodesOf(o) : val[n] \in Vals
  BY <1>1, <1>3 DEF ListTypes, Fits, NodesOf
<1>5. NodesOf(o) \cap Free = {}
  BY <1>1 DEF Fits, NodesOf, Free
<1>6. \A ns : /\ Released(ns) \in [Nodes -> Vals \cup {NoVal}]
              /\ \A n \in Nodes \ ns : Released(ns)[n] = val[n]
  BY <1>1 DEF Released, ListTypes
<1>7. umap_[o] \in [Vals -> Nodes \cup {NoNode}] /\ trust[o] \in {"own", "copied", "misused"}
  BY <1>1 DEF ListTypes
<1> QED
  BY <1>1, <1>2, <1>3, <1>4, <1>5, <1>6, <1>7 DEF Fits

(* A list that becomes empty. *)
LEMMA EmptiedKeeps ==
  ASSUME ListInv, NEW o \in Lists, Becomes(o, <<>>, NoIndex, "own"), made' \subseteq Lists,
         val' = val \/ val' = Released(NodesOf(o))
  PROVE  ListInv'
<1>1. val' \in [Nodes -> Vals \cup {NoVal}] /\ \A n \in Nodes \ (NodesOf(o) \cup Free) : val'[n] = val[n]
  BY NodesFacts DEF ListInv, ListTypes
<1> QED
  BY <1>1, EmptyFits, OneListChanges

(* push_back and insert: a value that the index has not. *)
LEMMA AddKeeps ==
  ASSUME ListInv, NEW o \in Lists, NEW i \in 1 .. Len(lst_[o]) + 1, NEW v \in Vals, AddAt(o, i, v)
  PROVE  ListInv'
<1> USE HashListAssumption
<1>1. PICK n \in Free :
        /\ val' = [val EXCEPT ![n] = v]
        /\ Becomes(o, InsertAt(lst_[o], i, n), [umap_[o] EXCEPT ![v] = n], trust[o])
  BY DEF AddAt
<1>2. umap_[o][v] = NoNode /\ made' = made
  BY DEF AddAt, MayAdd
<1> DEFINE s == InsertAt(lst_[o], i, n)
           index == [umap_[o] EXCEPT ![v] = n]
<1>3. n \in Nodes /\ n \notin NodesOf(o)
  BY NodesFacts DEF Free
<1>4. s \in Seq(Nodes) /\ Distinct(s) /\ ToSet(s) = NodesOf(o) \cup {n}
  BY <1>3, NodesFacts, InsertAtSet DEF NodesOf
<1>5. index \in [Vals -> Nodes \cup {NoNode}]
  BY <1>3, NodesFacts
<1>6. /\ val' \in [Nodes -> Vals \cup {NoVal}]
      /\ \A m \in Nodes : val'[m] = IF m = n THEN v ELSE val[m]
  BY <1>1, <1>3 DEF ListInv, ListTypes
<1>7. Fits(s, index, trust[o], val')
  <2>1. \A m \in ToSet(s) : val'[m] # NoVal
    BY <1>3, <1>4, <1>6, NodesFacts
  <2>2. ASSUME trust[o] = "own"
        PROVE  /\ \A m \in ToSet(s) : index[val'[m]] = m
               /\ \A w \in Vals : index[w] # NoNode => index[w] \in ToSet(s) /\ val'[index[w]] = w
    <3>1. /\ \A m \in NodesOf(o) : umap_[o][val[m]] = m
          /\ \A w \in Vals : umap_[o][w] # NoNode =>
               umap_[o][w] \in NodesOf(o) /\ val[umap_[o][w]] = w
      BY <2>2, NodesFacts DEF Fits, NodesOf
    <3>2. \A w \in Vals : index[w] = IF w = v THEN n ELSE umap_[o][w]
      BY NodesFacts
    <3>3. \A m \in NodesOf(o) : m \in Nodes /\ val[m] \in Vals /\ val[m] # v /\ m # n
      BY <1>2, <1>3, <3>1, NodesFacts
    <3> HIDE DEF s, index
    <3>4. \A m \in ToSet(s) : index[val'[m]] = m
      BY <1>3, <1>4, <1>6, <3>1, <3>2, <3>3
    <3>5. \A w \in Vals : index[w] # NoNode => index[w] \in ToSet(s) /\ val'[index[w]] = w
      BY <1>3, <1>4, <1>6, <3>1, <3>2, <3>3
    <3> QED
      BY <3>4, <3>5
  <2> QED
    BY <1>4, <2>1, <2>2 DEF Fits
<1>8. trust[o] \in {"own", "copied", "misused"} /\ made' \subseteq Lists
  BY <1>2, NodesFacts DEF ListInv, ListTypes
<1>9. /\ ToSet(s) \subseteq NodesOf(o) \cup Free
      /\ \A m \in Nodes \ (NodesOf(o) \cup Free) : val'[m] = val[m]
  BY <1>4, <1>6
<1> HIDE DEF s, index
<1>10. Becomes(o, s, index, trust[o])
  BY <1>1 DEF s, index
<1> QED
  BY <1>4, <1>5, <1>6, <1>7, <1>8, <1>9, <1>10, OneListChanges

(* A list that loses one node, and with it what the index has for it. *)
Loses(o, n, s, index, whose) ==
  /\ n \in NodesOf(o)
  /\ s \in Seq(Nodes) /\ Distinct(s) /\ ToSet(s) = NodesOf(o) \ {n}
  /\ index \in [Vals -> Nodes \cup {NoNode}]
  /\ whose \in {"own", "copied", "misused"}
  /\ whose = "own" =>
       /\ trust[o] = "own"
       /\ \A w \in Vals : index[w] = IF w = val[n] THEN NoNode ELSE umap_[o][w]
  /\ Becomes(o, s, index, whose) /\ val' = Released({n}) /\ made' = made

(* A list from which a node was removed, with the index that lost the      *)
(* value of the node.                                                      *)
LEMMA RemovedKeeps ==
  ASSUME ListInv, NEW o \in Lists, NEW n, NEW s, NEW index, NEW whose,
         Loses(o, n, s, index, whose)
  PROVE  ListInv'
<1> USE HashListAssumption DEF Loses
<1>1. /\ val' \in [Nodes -> Vals \cup {NoVal}]
      /\ \A m \in Nodes \ {n} : val'[m] = val[m]
  BY NodesFacts
<1>2. ToSet(s) \subseteq Nodes \ {n} /\ n \in Nodes
  BY NodesFacts
<1>3. Fits(s, index, whose, val')
  <2>1. \A m \in ToSet(s) : val'[m] # NoVal
    BY <1>1, <1>2, NodesFacts
  <2>2. ASSUME whose = "own"
        PROVE  /\ \A m \in ToSet(s) : index[val'[m]] = m
               /\ \A w \in Vals : index[w] # NoNode => index[w] \in ToSet(s) /\ val'[index[w]] = w
    <3>1. /\ \A m \in NodesOf(o) : umap_[o][val[m]] = m
          /\ \A w \in Vals : umap_[o][w] # NoNode =>
               umap_[o][w] \in NodesOf(o) /\ val[umap_[o][w]] = w
      BY <2>2, NodesFacts DEF Fits, NodesOf
    <3>2. \A w \in Vals : index[w] = IF w = val[n] THEN NoNode ELSE umap_[o][w]
      BY <2>2, NodesFacts
    <3>3. \A m \in ToSet(s) : val'[m] = val[m] /\ val[m] \in Vals /\ val[m] # val[n]
      BY <1>1, <1>2, <3>1, NodesFacts
    <3>4. ASSUME NEW m \in ToSet(s) PROVE index[val'[m]] = m
      <4>1. m \in NodesOf(o) /\ umap_[o][val[m]] = m
        BY <3>1
      <4> QED
        BY <3>2, <3>3, <4>1
    <3>5. ASSUME NEW w \in Vals, index[w] # NoNode
          PROVE  index[w] \in ToSet(s) /\ val'[index[w]] = w
      <4>1. w # val[n] /\ index[w] = umap_[o][w]
        BY <3>2, <3>5
      <4>2. umap_[o][w] \in NodesOf(o) /\ val[umap_[o][w]] = w
        BY <3>1, <3>5, <4>1
      <4>3. umap_[o][w] \in ToSet(s)
        BY <4>1, <4>2
      <4> QED
        BY <3>3, <4>1, <4>2, <4>3
    <3> QED
      BY <3>4, <3>5
  <2> QED
    BY <2>1, <2>2 DEF Fits
<1>4. made' \subseteq Lists
  BY DEF ListInv, ListTypes
<1>5. /\ ToSet(s) \subseteq NodesOf(o) \cup Free
      /\ \A m \in Nodes \ (NodesOf(o) \cup Free) : val'[m] = val[m]
  BY <1>1
<1>6. /\ val' \in [Nodes -> Vals \cup {NoVal}] /\ Becomes(o, s, index, whose)
      /\ s \in Seq(Nodes) /\ index \in [Vals -> Nodes \cup {NoNode}]
      /\ whose \in {"own", "copied", "misused"}
  BY <1>1
<1> QED
  BY ONLY ListInv, o \in Lists, <1>3, <1>4, <1>5, <1>6, OneListChanges

(* pop_back() keeps the invariant: an iterator of a list that misused its  *)
(* index may still name the wrong value.                                   *)
LEMMA PopBackKeeps ==
  ASSUME ListInv, NEW o \in Lists, pop_back(o)
  PROVE  ListInv'
<1> DEFINE index == [umap_[o] EXCEPT ![PoppedKey(o)] = NoNode]
<1>1. /\ lst_[o] # <<>> /\ val' = Released({Last(lst_[o])}) /\ made' = made
      /\ Becomes(o, Front(lst_[o]), index, trust[o])
  BY DEF pop_back
<1>2. /\ Front(lst_[o]) \in Seq(Nodes) /\ Last(lst_[o]) \in NodesOf(o)
      /\ Distinct(Front(lst_[o]))
      /\ ToSet(Front(lst_[o])) = NodesOf(o) \ {Last(lst_[o])}
  BY <1>1, NodesFacts, FrontSet DEF NodesOf
<1>3. \A w \in Vals : index[w] = IF w = val[Last(lst_[o])] THEN NoNode ELSE umap_[o][w]
  BY NodesFacts DEF PoppedKey
<1>4. index \in [Vals -> Nodes \cup {NoNode}] /\ trust[o] \in {"own", "copied", "misused"}
  BY NodesFacts
<1> DEFINE s == Front(lst_[o])
           n == Last(lst_[o])
<1> HIDE DEF index
<1>5. /\ n \in NodesOf(o) /\ s \in Seq(Nodes) /\ Distinct(s) /\ ToSet(s) = NodesOf(o) \ {n}
      /\ \A w \in Vals : index[w] = IF w = val[n] THEN NoNode ELSE umap_[o][w]
      /\ Becomes(o, s, index, trust[o]) /\ val' = Released({n}) /\ made' = made
  BY <1>1, <1>2, <1>3
<1> HIDE DEF s, n
<1>6. Loses(o, n, s, index, trust[o])
  BY <1>4, <1>5 DEF Loses
<1> QED
  BY <1>6, RemovedKeeps

(* erase: the index of an untouched list leads to the node of the value,   *)
(* and if the key that is looked up then is another, the list is misused.  *)
LEMMA EraseKeeps ==
  ASSUME ListInv, NEW o \in Lists, NEW v \in Vals, NEW key \in Vals \cup {NoVal},
         EraseKey(o, v, key)
  PROVE  ListInv'
<1> USE HashListAssumption
<1> DEFINE n == umap_[o][v]
           index == IF key = NoVal THEN umap_[o] ELSE [umap_[o] EXCEPT ![key] = NoNode]
           whose == IF key = v THEN trust[o] ELSE "misused"
<1>1. n # NoNode /\ made' = made
  BY DEF EraseKey
<1>2. CASE n \in NodesOf(o)
  <2>1. PICK i \in DOMAIN lst_[o] :
          lst_[o][i] = n /\ Becomes(o, RemoveAt(lst_[o], i), index, whose)
    BY <1>2 DEF EraseKey
  <2>2. val' = Released({n})
    BY <1>2 DEF EraseKey
  <2>3. i \in 1 .. Len(lst_[o])
    BY NodesFacts, LenProperties
  <2>4. /\ RemoveAt(lst_[o], i) \in Seq(Nodes)
        /\ Distinct(RemoveAt(lst_[o], i))
        /\ ToSet(RemoveAt(lst_[o], i)) = NodesOf(o) \ {n}
    BY <2>1, <2>3, NodesFacts, RemoveAtSet DEF NodesOf
  <2>5. index \in [Vals -> Nodes \cup {NoNode}]
    BY NodesFacts
  <2>6. whose \in {"own", "copied", "misused"}
    BY NodesFacts
  <2>7. ASSUME whose = "own"
        PROVE  /\ trust[o] = "own"
               /\ \A w \in Vals : index[w] = IF w = val[n] THEN NoNode ELSE umap_[o][w]
    <3>1. key = v /\ trust[o] = "own"
      BY <2>7
    <3>2. val[n] = v
      BY <1>1, <3>1, NodesFacts DEF Fits
    <3> QED
      BY <3>1, <3>2, NodesFacts
  <2> DEFINE s == RemoveAt(lst_[o], i)
  <2> HIDE DEF index, whose, n
  <2>8. /\ n \in NodesOf(o) /\ s \in Seq(Nodes) /\ Distinct(s) /\ ToSet(s) = NodesOf(o) \ {n}
        /\ Becomes(o, s, index, whose) /\ val' = Released({n}) /\ made' = made
    BY <1>1, <1>2, <2>1, <2>2, <2>4
  <2> HIDE DEF s
  <2>9. Loses(o, n, s, index, whose)
    BY <2>5, <2>6, <2>7, <2>8 DEF Loses
  <2> QED
    BY <2>9, RemovedKeeps
<1>3. CASE n \notin NodesOf(o)
  <2>1. UNCHANGED <<lst_, umap_, trust, val>>
    BY <1>3 DEF EraseKey
  <2> QED
    BY <1>1, <2>1 DEF ListInv, ListTypes, Apart, NodesOf, Fits
<1> QED
  BY <1>2, <1>3

(* erase() with a reference into the list itself keeps the invariant.      *)
LEMMA EraseItselfKeeps ==
  ASSUME ListInv, NEW o \in Lists, EraseItself(o)
  PROVE  ListInv'
BY EraseKeeps, NodesFacts DEF EraseItself

(* Writing to an element through a reference keeps the invariant, for the  *)
(* index of that list is no longer trusted.                                *)
LEMMA OverwriteKeeps ==
  ASSUME ListInv, NEW o \in Lists, NEW v \in Vals, Overwrite(o, v)
  PROVE  ListInv'
<1> USE HashListAssumption
<1>1. PICK n \in NodesOf(o) : val' = [val EXCEPT ![n] = v]
  BY DEF Overwrite
<1>2. /\ trust' = [trust EXCEPT ![o] = "misused"]
      /\ UNCHANGED <<made, lst_, umap_>>
  BY DEF Overwrite
<1>3. ListTypes
  BY DEF ListInv
<1>4. Becomes(o, lst_[o], umap_[o], "misused")
  BY <1>2, <1>3 DEF Becomes, ListTypes
<1>5. n \in Nodes
  BY NodesFacts
<1>6. /\ val' \in [Nodes -> Vals \cup {NoVal}]
      /\ \A m \in Nodes : val'[m] = IF m = n THEN v ELSE val[m]
  BY <1>1, <1>3, <1>5 DEF ListTypes
<1>7. Fits(lst_[o], umap_[o], "misused", val')
  <2>1. \A m \in ToSet(lst_[o]) : val'[m] # NoVal
    BY <1>6, NodesFacts DEF NodesOf
  <2> QED
    BY <2>1, NodesFacts DEF Fits
<1>8. made' \subseteq Lists
  BY <1>2, <1>3 DEF ListTypes
<1>9. ToSet(lst_[o]) \subseteq NodesOf(o) \cup Free
  BY DEF NodesOf
<1>10. \A m \in Nodes \ (NodesOf(o) \cup Free) : val'[m] = val[m]
  BY <1>6
<1> QED
  BY <1>4, <1>6, <1>7, <1>8, <1>9, <1>10, NodesFacts, OneListChanges

(* A copy has values of its own; it does not fit the index it is given. *)
LEMMA CopyKeeps ==
  ASSUME ListInv, NEW o \in Lists, NEW other \in Lists, o # other, CopyTo(o, other)
  PROVE  ListInv'
<1> USE HashListAssumption
<1> DEFINE whose(nodes) == IF trust[other] # "own" THEN trust[other]
                           ELSE IF nodes = <<>> THEN "own" ELSE "copied"
           copied(nodes) == [n \in Nodes |->
                 IF \E i \in DOMAIN nodes : nodes[i] = n
                   THEN val[lst_[other][CHOOSE i \in DOMAIN nodes : nodes[i] = n]]
                   ELSE Released(NodesOf(o))[n]]
<1>1. PICK nodes \in [DOMAIN lst_[other] -> Free \cup NodesOf(o)] :
        /\ IsInjective(nodes)
        /\ Becomes(o, nodes, umap_[other], whose(nodes))
        /\ val' = copied(nodes)
        /\ made' = made \cup {o}
  BY DEF CopyTo
<1>2. /\ Free \subseteq Nodes /\ NodesOf(o) \subseteq Nodes
      /\ Len(lst_[other]) \in Nat /\ DOMAIN lst_[other] = 1 .. Len(lst_[other])
      /\ \A i \in DOMAIN lst_[other] : lst_[other][i] \in NodesOf(other)
  BY NodesFacts, LenProperties DEF Free, NodesOf, ToSet
<1>3. nodes \in Seq(Nodes) /\ DOMAIN nodes = DOMAIN lst_[other]
  <2>1. nodes \in [1 .. Len(lst_[other]) -> Nodes]
    BY <1>2
  <2> QED
    BY <1>2, <2>1, SeqDef
<1>4. Distinct(nodes) /\ ToSet(nodes) \subseteq NodesOf(o) \cup Free
  BY <1>1, <1>3 DEF IsInjective, Distinct, ToSet
<1>5. umap_[other] \in [Vals -> Nodes \cup {NoNode}] /\ whose(nodes) \in {"own", "copied", "misused"}
  BY NodesFacts
<1>6. \A n \in Nodes : IF n \in ToSet(nodes) THEN val'[n] \in Vals
                       ELSE val'[n] = Released(NodesOf(o))[n]
  <2> SUFFICES ASSUME NEW n \in Nodes
               PROVE  IF n \in ToSet(nodes) THEN val'[n] \in Vals
                      ELSE val'[n] = Released(NodesOf(o))[n]
    OBVIOUS
  <2>1. CASE n \in ToSet(nodes)
    <3> DEFINE place == CHOOSE i \in DOMAIN nodes : nodes[i] = n
    <3>1. \E i \in DOMAIN nodes : nodes[i] = n
      BY <2>1 DEF ToSet
    <3>2. place \in DOMAIN nodes
      BY <3>1
    <3>3. val'[n] = val[lst_[other][place]]
      BY <1>1, <3>1
    <3> HIDE DEF place
    <3>4. lst_[other][place] \in NodesOf(other)
      BY <1>2, <1>3, <3>2
    <3> QED
      BY <2>1, <3>3, <3>4, NodesFacts
  <2>2. CASE n \notin ToSet(nodes)
    BY <1>1, <2>2 DEF ToSet
  <2> QED
    BY <2>1, <2>2
<1>7. val' \in [Nodes -> Vals \cup {NoVal}]
  <2>1. \A n \in Nodes : val'[n] \in Vals \cup {NoVal}
    BY <1>6, NodesFacts
  <2> QED
    BY <1>1, <2>1
<1>8. \A n \in Nodes \ (NodesOf(o) \cup Free) : val'[n] = val[n]
  BY <1>4, <1>6, NodesFacts
<1>9. Fits(nodes, umap_[other], whose(nodes), val')
  <2>1. \A n \in ToSet(nodes) : val'[n] # NoVal
    BY <1>2, <1>4, <1>6
  <2>2. ASSUME whose(nodes) = "own"
        PROVE  ToSet(nodes) = {} /\ \A v \in Vals : umap_[other][v] = NoNode
    <3>1. trust[other] = "own" /\ nodes = <<>>
      BY <2>2
    <3>2. DOMAIN nodes = {}
      BY <3>1
    <3>3. ToSet(nodes) = {} /\ NodesOf(other) = {}
      BY <1>3, <3>2 DEF ToSet, NodesOf
    <3> QED
      BY <3>1, <3>3, NodesFacts DEF Fits, NodesOf
  <2> HIDE DEF whose
  <2> QED
    BY <1>4, <2>1, <2>2 DEF Fits
<1>10. made' \subseteq Lists
  BY <1>1 DEF ListInv, ListTypes
<1> HIDE DEF whose, copied
<1> QED
  BY <1>1, <1>3, <1>4, <1>5, <1>7, <1>8, <1>9, <1>10, OneListChanges

(* A move gives the nodes away with the index, and what o had is freed. *)
LEMMA MoveKeeps ==
  ASSUME ListInv, NEW o \in Lists, NEW other \in Lists, o # other, MoveTo(o, other)
  PROVE  ListInv'
<1> USE HashListAssumption
<1>1. ListTypes /\ Apart
  BY DEF ListInv
<1>2. /\ lst_' = [lst_ EXCEPT ![o] = lst_[other], ![other] = <<>>]
      /\ umap_' = [umap_ EXCEPT ![o] = umap_[other], ![other] = NoIndex]
      /\ trust' = [trust EXCEPT ![o] = trust[other], ![other] = "own"]
      /\ val' = Released(NodesOf(o)) /\ made' = made \cup {o}
  BY DEF MoveTo, LeftBehind
<1>3. <<>> \in Seq(Nodes) /\ ToSet(<<>>) = {} /\ NoIndex \in [Vals -> Nodes \cup {NoNode}]
  BY EmptyFits
<1>4. ListTypes'
  <2>1. val' \in [Nodes -> Vals \cup {NoVal}]
    BY <1>2, NodesFacts
  <2>2. lst_' \in [Lists -> Seq(Nodes)]
    BY <1>1, <1>2, <1>3 DEF ListTypes
  <2>3. /\ umap_' \in [Lists -> [Vals -> Nodes \cup {NoNode}]]
        /\ trust' \in [Lists -> {"own", "copied", "misused"}]
    BY <1>1, <1>2, <1>3 DEF ListTypes
  <2> QED
    BY <1>1, <1>2, <2>1, <2>2, <2>3 DEF ListTypes
<1>5. \A p \in Lists :
        /\ lst_'[p] = IF p = other THEN <<>> ELSE IF p = o THEN lst_[other] ELSE lst_[p]
        /\ umap_'[p] = IF p = other THEN NoIndex ELSE IF p = o THEN umap_[other] ELSE umap_[p]
        /\ trust'[p] = IF p = other THEN "own" ELSE IF p = o THEN trust[other] ELSE trust[p]
  BY <1>1, <1>2 DEF ListTypes
<1>6. Apart'
  BY <1>1, <1>3, <1>5 DEF Apart, NodesOf
<1>7. ASSUME NEW p \in Lists \ {o} PROVE Fits(lst_[p], umap_[p], trust[p], val')
  <2>1. \A n \in ToSet(lst_[p]) : n \in Nodes /\ n \notin NodesOf(o)
    BY <1>1, NodesFacts DEF Apart, NodesOf
  <2>2. \A n \in ToSet(lst_[p]) : val'[n] = val[n]
    BY <1>2, <2>1, NodesFacts
  <2>3. Fits(lst_[p], umap_[p], trust[p], val)
    BY DEF ListInv
  <2> QED
    BY <2>2, <2>3 DEF Fits
<1>8. ASSUME NEW p \in Lists PROVE Fits(lst_'[p], umap_'[p], trust'[p], val')
  BY <1>5, <1>7, EmptyFits
<1> QED
  BY <1>4, <1>6, <1>8 DEF ListInv

(* The invariant of HashList, through every operation.                     *)
LEMMA ListInvInductive == HashListSpec => []ListInv
<1>1. HashListInit => ListInv
  <2> SUFFICES ASSUME HashListInit PROVE ListInv
    OBVIOUS
  <2>1. <<>> \in Seq(Nodes) /\ ToSet(<<>>) = {} /\ NoIndex \in [Vals -> Nodes \cup {NoNode}]
    BY EmptyFits
  <2>2. ListTypes
    BY <2>1 DEF HashListInit, ListTypes, NoIndex
  <2>3. Apart
    BY <2>1 DEF HashListInit, Apart, NodesOf
  <2>4. ASSUME NEW o \in Lists PROVE Fits(lst_[o], umap_[o], trust[o], val)
    <3>1. lst_[o] = <<>> /\ umap_[o] = NoIndex
      BY DEF HashListInit, NoIndex
    <3> QED
      BY <3>1, EmptyFits
  <2> QED
    BY <2>2, <2>3, <2>4 DEF ListInv
<1>2. ListInv /\ [HashListNext]_hashListVars => ListInv'
  <2>1. ASSUME ListInv, UNCHANGED hashListVars PROVE ListInv'
    BY <2>1 DEF hashListVars, ListInv, ListTypes, Apart, NodesOf, Fits
  <2> SUFFICES ASSUME ListInv, HashListNext PROVE ListInv'
    BY <2>1
  <2>2. made \subseteq Lists
    BY DEF ListInv, ListTypes
  <2>3. ASSUME NEW o \in Lists, Construct(o) PROVE ListInv'
    <3>1. Becomes(o, <<>>, NoIndex, "own") /\ made' \subseteq Lists /\ val' = val
      BY <2>2, <2>3 DEF Construct
    <3> QED
      BY <3>1, EmptiedKeeps
  <2>4. ASSUME NEW o \in Lists, clear(o) \/ Destroy(o) PROVE ListInv'
    <3>1. /\ Becomes(o, <<>>, NoIndex, "own") /\ made' \subseteq Lists
          /\ val' = Released(NodesOf(o))
      BY <2>2, <2>4 DEF clear, Destroy
    <3> QED
      BY <3>1, EmptiedKeeps
  <2>5. ASSUME NEW o \in Lists, NEW v \in Vals, push_back(o, v) \/ insert(o, v) PROVE ListInv'
    <3>1. Len(lst_[o]) + 1 \in 1 .. Len(lst_[o]) + 1
      BY NodesFacts, LenProperties
    <3>2. PICK i \in 1 .. Len(lst_[o]) + 1 : AddAt(o, i, v)
      BY <2>5, <3>1 DEF push_back, insert
    <3> QED
      BY <3>2, AddKeeps
  <2>6. ASSUME NEW o \in Lists, NEW v \in Vals, erase(o, v) PROVE ListInv'
    BY <2>6, EraseKeeps DEF erase
  <2>7. ASSUME NEW o \in Lists, NEW other \in Lists, CopyOrMove(o, other) PROVE ListInv'
    BY <2>7, CopyKeeps, MoveKeeps DEF CopyOrMove
  <2> QED
    BY <2>2, <2>3, <2>4, <2>5, <2>6, <2>7, PopBackKeeps, EraseItselfKeeps, OverwriteKeeps
    DEF HashListNext
<1> QED
  BY <1>1, <1>2, PTL DEF HashListSpec

(* The index of a list that nobody misused and that is no copy has the     *)
(* values of the list and no others, each with its node, and a node is in  *)
(* one list: for any lists and values, whatever is copied and moved.       *)
THEOREM IndexIsRight == HashListSpec => []IndexAgrees
<1>1. ListInv => IndexAgrees
  <2> SUFFICES ASSUME ListInv, NEW o \in Lists
               PROVE  /\ trust[o] = "own" =>
                           /\ {v \in Vals : umap_[o][v] # NoNode} = {val[n] : n \in NodesOf(o)}
                           /\ \A i \in DOMAIN lst_[o] : umap_[o][val[lst_[o][i]]] = lst_[o][i]
                      /\ \A i, j \in DOMAIN lst_[o] : lst_[o][i] = lst_[o][j] => i = j
                      /\ \A p \in Lists \ {o} : NodesOf(o) \cap NodesOf(p) = {}
    BY DEF IndexAgrees
  <2>1. ASSUME trust[o] = "own"
        PROVE  /\ {v \in Vals : umap_[o][v] # NoNode} = {val[n] : n \in NodesOf(o)}
               /\ \A i \in DOMAIN lst_[o] : umap_[o][val[lst_[o][i]]] = lst_[o][i]
    <3>1. /\ \A n \in NodesOf(o) : umap_[o][val[n]] = n
          /\ \A v \in Vals : umap_[o][v] # NoNode =>
               umap_[o][v] \in NodesOf(o) /\ val[umap_[o][v]] = v
      BY <2>1, NodesFacts DEF Fits, NodesOf
    <3>2. \A n \in NodesOf(o) : val[n] \in Vals /\ n # NoNode
      BY HashListAssumption, NodesFacts
    <3>3. \A i \in DOMAIN lst_[o] : lst_[o][i] \in NodesOf(o)
      BY DEF NodesOf, ToSet
    <3> QED
      BY <3>1, <3>2, <3>3
  <2> QED
    BY <2>1, NodesFacts DEF Distinct, ListInv, Apart
<1> QED
  BY <1>1, ListInvInductive, PTL

-----------------------------------------------------------------------------
(* ConfigMap *)

(* The maps that have the entry x.                                         *)
Holders(x) == {m \in Maps : x \in Held(m)}

(* Whether a ConfigEntry has x to delete.                                  *)
InSlot(x) == \E s \in Slots : deletion_[s] = x

(* The types of the maps, the entries and the objects.                     *)
ConfigTypes ==
  /\ built \subseteq Maps
  /\ entries_ \in [Maps -> [Keys -> Objects \cup {NoObject}]]
  /\ uses \in [Objects -> Nat]
  /\ data_ \in [Slots -> Objects \cup {NoObject}]
  /\ deletion_ \in [Slots -> Objects \cup {NoObject}]
  /\ created \subseteq Objects
  /\ deletions \in [Objects -> Nat]
  /\ unowned \subseteq Objects

(* A map has an object under one key; a slot has no other's function, and  *)
(* none without an object.                                                 *)
OneKey ==
  \A m \in Maps : \A k, l \in Keys :
    entries_[m][k] = entries_[m][l] /\ entries_[m][k] # NoObject => k = l

(* A moved-from slot deletes nothing, and two slots never delete the same  *)
(* object.                                                                 *)
OneSlot ==
  \A s \in Slots :
    /\ Vacant(s) => deletion_[s] = NoObject
    /\ \A t \in Slots : deletion_[s] = deletion_[t] /\ deletion_[s] # NoObject => s = t

(* The pointers to an entry are those of the maps that have it, and an     *)
(* object is with maps, with one slot, lost, or was deleted once.          *)
ObjectInv(x) ==
  /\ IsFiniteSet(Holders(x)) /\ uses[x] = Cardinality(Holders(x))
  /\ x \notin created => Holders(x) = {} /\ ~InSlot(x) /\ x \notin unowned
  /\ InSlot(x) => Holders(x) = {}
  /\ x \in unowned => Holders(x) = {} /\ ~InSlot(x)
  /\ deletions[x] = IF x \in created /\ Holders(x) = {} /\ ~InSlot(x) /\ x \notin unowned
                    THEN 1 ELSE 0

(* The inductive invariant of ConfigMap and ConfigEntry.                   *)
ConfigInv ==
  /\ ConfigTypes /\ OneKey /\ OneSlot
  /\ \A x \in Objects : ObjectInv(x)

(* A set that gains or loses one element, or neither. *)
LEMMA OneElement ==
  ASSUME NEW S, NEW T, NEW m, IsFiniteSet(S), \A p : p # m => (p \in T <=> p \in S)
  PROVE  /\ IsFiniteSet(T)
         /\ Cardinality(T) = Cardinality(S) + Count(m, T) - Count(m, S)
<1>1. Cardinality(S) \in Nat
  BY FS_CardinalityType
<1>2. CASE m \in T /\ m \notin S
  <2>1. T = S \cup {m}
    BY <1>2
  <2> QED
    BY <1>1, <1>2, <2>1, FS_AddElement DEF Count
<1>3. CASE m \notin T /\ m \in S
  <2>1. T = S \ {m}
    BY <1>3
  <2> QED
    BY <1>1, <1>3, <2>1, FS_RemoveElement DEF Count
<1>4. CASE m \in T <=> m \in S
  <2>1. T = S
    BY <1>4
  <2> QED
    BY <1>1, <2>1 DEF Count
<1> QED
  BY <1>2, <1>3, <1>4

(* Which maps hold an object, by their entries. *)
LEMMA HeldByKey ==
  ASSUME ConfigTypes, NEW m \in Maps, NEW x \in Objects
  PROVE  /\ x \in Held(m) <=> \E k \in Keys : entries_[m][k] = x
         /\ m \in Holders(x) <=> x \in Held(m)
BY ConfigAssumption DEF ConfigTypes, Held, Holders

(* A step of the maps, for an object it neither makes nor gives to a slot. *)
LEMMA SharesKeep ==
  ASSUME ConfigInv, NEW x \in Objects, NEW taken, NEW dropped, Shares(taken, dropped),
         x \in taken \cup dropped => Holders(x) # {},
         Holders(x) = {} => Holders(x)' = {},
         IsFiniteSet(Holders(x)'),
         Cardinality(Holders(x)') = Cardinality(Holders(x)) + Count(x, taken) - Count(x, dropped),
         UNCHANGED <<created, deletion_, unowned>>
  PROVE  ObjectInv(x)'
<1> USE ConfigAssumption
<1>1. ObjectInv(x) /\ ConfigTypes
  BY DEF ConfigInv
<1>2. /\ uses'[x] = uses[x] + Count(x, taken) - Count(x, dropped)
      /\ deletions'[x] = deletions[x] + IF x \in dropped /\ uses'[x] = 0 THEN 1 ELSE 0
  BY DEF Shares
<1>3. uses'[x] = Cardinality(Holders(x)')
  BY <1>1, <1>2 DEF ObjectInv
<1>4. uses'[x] = 0 <=> Holders(x)' = {}
  BY <1>3, FS_EmptySet
<1>5. InSlot(x)' <=> InSlot(x)
  BY DEF InSlot
<1>6. Holders(x)' # {} => Holders(x) # {}
  OBVIOUS
<1>7. CASE x \in dropped
  <2>1. /\ Holders(x) # {} /\ ~InSlot(x) /\ x \notin unowned /\ x \in created
        /\ deletions[x] = 0
    BY <1>1, <1>7 DEF ObjectInv
  <2> QED
    BY <1>2, <1>3, <1>4, <1>5, <1>7, <2>1 DEF ObjectInv
<1>8. CASE x \notin dropped
  <2>1. deletions'[x] = deletions[x]
    BY <1>1, <1>2, <1>8 DEF ConfigTypes
  <2>2. Holders(x) = {} <=> Holders(x)' = {}
    <3>1. Count(x, taken) \in Nat /\ Count(x, dropped) = 0
      BY <1>8 DEF Count
    <3>2. Holders(x)' = {} => Cardinality(Holders(x)) = 0
      BY <1>1, <1>3, <1>4, <3>1, FS_CardinalityType DEF ObjectInv
    <3> QED
      BY <1>1, <3>2, FS_EmptySet DEF ObjectInv
  <2> QED
    BY <1>1, <1>3, <1>5, <2>1, <2>2 DEF ObjectInv
<1> QED
  BY <1>7, <1>8

(* The counts stay natural numbers.                                        *)
LEMMA SharesTypes ==
  ASSUME ConfigTypes, NEW taken, NEW dropped, Shares(taken, dropped),
         \A x \in Objects : ObjectInv(x)'
  PROVE  uses' \in [Objects -> Nat] /\ deletions' \in [Objects -> Nat]
<1>1. \A x \in Objects : uses'[x] \in Nat
  BY FS_CardinalityType DEF ObjectInv
<1>2. \A x \in Objects : deletions'[x] \in Nat
  BY DEF ObjectInv
<1>3. DOMAIN uses' = Objects /\ DOMAIN deletions' = Objects
  BY DEF Shares
<1>4. /\ uses' = [x \in Objects |-> uses'[x]]
      /\ deletions' = [x \in Objects |-> deletions'[x]]
  BY <1>3 DEF Shares
<1> QED
  BY <1>1, <1>2, <1>4

(* Steps of the maps that make no object. *)
LEMMA MapsKeep ==
  ASSUME ConfigInv, NEW taken, NEW dropped, Shares(taken, dropped),
         built' \subseteq Maps, entries_' \in [Maps -> [Keys -> Objects \cup {NoObject}]],
         UNCHANGED <<data_, deletion_, created, unowned>>,
         OneKey', \A x \in Objects : ObjectInv(x)'
  PROVE  ConfigInv'
<1>1. ConfigTypes /\ OneSlot
  BY DEF ConfigInv
<1>2. uses' \in [Objects -> Nat] /\ deletions' \in [Objects -> Nat]
  BY <1>1, SharesTypes
<1>3. ConfigTypes'
  BY <1>1, <1>2 DEF ConfigTypes
<1>4. OneSlot'
  BY <1>1 DEF OneSlot, Vacant
<1> QED
  BY <1>3, <1>4 DEF ConfigInv

(* rm_entry() keeps the invariant.                                         *)
LEMMA RmEntryKeeps ==
  ASSUME ConfigInv, NEW m \in Maps, NEW k \in Keys, rm_entry(m, k)
  PROVE  ConfigInv'
<1> USE ConfigAssumption
<1> DEFINE gone == entries_[m][k]
<1>1. /\ gone # NoObject /\ Shares({}, {gone})
      /\ entries_' = [entries_ EXCEPT ![m][k] = NoObject]
      /\ UNCHANGED <<built, data_, deletion_, created, unowned>>
  BY DEF rm_entry, has
<1>2. ConfigTypes /\ OneKey
  BY DEF ConfigInv
<1>3. /\ entries_' \in [Maps -> [Keys -> Objects \cup {NoObject}]]
      /\ \A p \in Maps, l \in Keys :
           entries_'[p][l] = IF p = m /\ l = k THEN NoObject ELSE entries_[p][l]
  BY <1>1, <1>2 DEF ConfigTypes
<1>4. OneKey'
  BY <1>2, <1>3 DEF OneKey
<1>5. ASSUME NEW x \in Objects PROVE ObjectInv(x)'
  <2>1. \A p \in Maps : p \in Holders(x)' <=> (p \in Holders(x) /\ ~(p = m /\ x = gone))
    <3>1. ASSUME NEW p \in Maps
          PROVE  /\ p \in Holders(x)' <=> \E l \in Keys : entries_'[p][l] = x
                 /\ p \in Holders(x) <=> \E l \in Keys : entries_[p][l] = x
      <4>1. p \in Holders(x) <=> \E l \in Keys : entries_[p][l] = x
        BY <1>2, HeldByKey
      <4>2. p \in Holders(x)' <=> \E l \in Keys : entries_'[p][l] = x
        BY <1>3 DEF Holders, Held
      <4> QED
        BY <4>1, <4>2
    <3> HIDE DEF gone
    <3>2. gone = entries_[m][k]
      BY DEF gone
    <3>3. ASSUME NEW p \in Maps, p \in Holders(x)' PROVE p \in Holders(x) /\ ~(p = m /\ x = gone)
      BY <1>2, <1>3, <3>1, <3>2, <3>3 DEF OneKey
    <3>4. ASSUME NEW p \in Maps, p \in Holders(x), ~(p = m /\ x = gone) PROVE p \in Holders(x)'
      BY <1>2, <1>3, <3>1, <3>2, <3>4
    <3> QED
      BY <3>3, <3>4
  <2>2. x = gone <=> x = gone /\ m \in Holders(x)
    BY <1>1, <1>2, HeldByKey
  <2>3. IsFiniteSet(Holders(x))
    BY DEF ConfigInv, ObjectInv
  <2>4. /\ IsFiniteSet(Holders(x)')
        /\ Cardinality(Holders(x)') =
             Cardinality(Holders(x)) + Count(m, Holders(x)') - Count(m, Holders(x))
    <3>1. \A p : p # m => (p \in Holders(x)' <=> p \in Holders(x))
      BY <2>1 DEF Holders
    <3> QED
      BY <2>3, <3>1, OneElement
  <2>5. Count(m, Holders(x)') - Count(m, Holders(x)) = Count(x, {}) - Count(x, {gone})
    BY <2>1, <2>2 DEF Count
  <2>6. Cardinality(Holders(x)') = Cardinality(Holders(x)) + Count(x, {}) - Count(x, {gone})
    BY <2>3, <2>4, <2>5, FS_CardinalityType DEF Count
  <2>7. x \in {} \cup {gone} => Holders(x) # {}
    BY <2>2
  <2>8. Holders(x) = {} => Holders(x)' = {}
    BY <2>1 DEF Holders
  <2> HIDE DEF gone
  <2> QED
    BY <1>1, <2>4, <2>6, <2>7, <2>8, SharesKeep
<1>6. built' \subseteq Maps
  BY <1>1, <1>2 DEF ConfigTypes
<1> HIDE DEF gone
<1> QED
  BY <1>1, <1>3, <1>4, <1>5, <1>6, MapsKeep

(* The maps that hold an object after a step, by the entries then. *)
LEMMA HeldByKeyAfter ==
  ASSUME entries_' \in [Maps -> [Keys -> Objects \cup {NoObject}]],
         NEW m \in Maps, NEW x \in Objects
  PROVE  /\ x \in Held(m)' <=> \E k \in Keys : entries_'[m][k] = x
         /\ m \in Holders(x)' <=> x \in Held(m)'
BY ConfigAssumption DEF Held, Holders

(* The assignment of a map to another keeps the invariant.                 *)
LEMMA CopyMapKeeps ==
  ASSUME ConfigInv, NEW m \in Maps, NEW other \in Maps, CopyMap(m, other)
  PROVE  ConfigInv'
<1> USE ConfigAssumption
<1>1. /\ m # other /\ Shares(Held(other), Held(m))
      /\ entries_' = [entries_ EXCEPT ![m] = entries_[other]]
      /\ UNCHANGED <<data_, deletion_, created, unowned>>
  BY DEF CopyMap, TakenBy
<1>2. ConfigTypes /\ OneKey
  BY DEF ConfigInv
<1>3. /\ entries_' \in [Maps -> [Keys -> Objects \cup {NoObject}]]
      /\ \A p \in Maps : entries_'[p] = IF p = m THEN entries_[other] ELSE entries_[p]
  BY <1>1, <1>2 DEF ConfigTypes
<1>4. OneKey'
  BY <1>2, <1>3 DEF OneKey
<1>5. ASSUME NEW x \in Objects PROVE ObjectInv(x)'
  <2>1. /\ m \in Holders(x)' <=> x \in Held(other)
        /\ m \in Holders(x) <=> x \in Held(m)
        /\ \A p \in Maps \ {m} : p \in Holders(x)' <=> p \in Holders(x)
    BY <1>2, <1>3, HeldByKey, HeldByKeyAfter
  <2>2. IsFiniteSet(Holders(x))
    BY DEF ConfigInv, ObjectInv
  <2>3. /\ IsFiniteSet(Holders(x)')
        /\ Cardinality(Holders(x)') =
             Cardinality(Holders(x)) + Count(m, Holders(x)') - Count(m, Holders(x))
    <3>1. \A p : p # m => (p \in Holders(x)' <=> p \in Holders(x))
      BY <2>1 DEF Holders
    <3> QED
      BY <2>2, <3>1, OneElement
  <2>4. Count(m, Holders(x)') = Count(x, Held(other)) /\ Count(m, Holders(x)) = Count(x, Held(m))
    BY <2>1 DEF Count
  <2>5. Cardinality(Holders(x)') =
          Cardinality(Holders(x)) + Count(x, Held(other)) - Count(x, Held(m))
    BY <2>3, <2>4
  <2>6. x \in Held(other) \cup Held(m) => Holders(x) # {}
    BY DEF Holders
  <2>7. Holders(x) = {} => Holders(x)' = {}
    BY <2>1, <2>6 DEF Holders
  <2> QED
    BY <1>1, <2>3, <2>5, <2>6, <2>7, SharesKeep
<1>6. built' \subseteq Maps
  BY <1>2 DEF CopyMap, ConfigTypes
<1> QED
  BY <1>1, <1>3, <1>4, <1>5, <1>6, MapsKeep

(* Moving a map into another keeps the invariant.                          *)
LEMMA MoveMapKeeps ==
  ASSUME ConfigInv, NEW m \in Maps, NEW other \in Maps, MoveMap(m, other)
  PROVE  ConfigInv'
<1> USE ConfigAssumption
<1>1. /\ m # other /\ Shares({}, Held(m))
      /\ entries_' = [entries_ EXCEPT ![m] = entries_[other], ![other] = NoEntries]
      /\ UNCHANGED <<data_, deletion_, created, unowned>>
  BY DEF MoveMap
<1>2. ConfigTypes /\ OneKey
  BY DEF ConfigInv
<1>3. /\ entries_' \in [Maps -> [Keys -> Objects \cup {NoObject}]]
      /\ \A p \in Maps : entries_'[p] = IF p = other THEN NoEntries
                                        ELSE IF p = m THEN entries_[other] ELSE entries_[p]
  BY <1>1, <1>2 DEF ConfigTypes, NoEntries
<1>4. OneKey'
  BY <1>2, <1>3 DEF OneKey, NoEntries
<1>5. ASSUME NEW x \in Objects PROVE ObjectInv(x)'
  <2>1. /\ m \in Holders(x)' <=> other \in Holders(x)
        /\ other \notin Holders(x)'
        /\ m \in Holders(x) <=> x \in Held(m)
        /\ \A p \in Maps \ {m, other} : p \in Holders(x)' <=> p \in Holders(x)
    BY <1>1, <1>2, <1>3, HeldByKey, HeldByKeyAfter DEF NoEntries
  <2>2. IsFiniteSet(Holders(x)) /\ Cardinality(Holders(x)) \in Nat
    BY FS_CardinalityType DEF ConfigInv, ObjectInv
  <2> DEFINE rest == Holders(x) \ {other}
  <2>3. IsFiniteSet(rest) /\ Cardinality(rest) = Cardinality(Holders(x)) - Count(other, Holders(x))
    BY <2>2, FS_RemoveElement DEF Count
  <2>4. /\ IsFiniteSet(Holders(x)')
        /\ Cardinality(Holders(x)') = Cardinality(rest) + Count(m, Holders(x)') - Count(m, rest)
    <3>1. \A p : p # m => (p \in Holders(x)' <=> p \in rest)
      BY <2>1 DEF Holders
    <3> QED
      BY <2>3, <3>1, OneElement
  <2>5. /\ Count(m, Holders(x)') = Count(other, Holders(x))
        /\ Count(m, rest) = Count(x, Held(m)) /\ Count(x, {}) = 0
        /\ Count(other, Holders(x)) \in Nat /\ Count(x, Held(m)) \in Nat
    BY <1>1, <2>1 DEF Count
  <2>6. Cardinality(Holders(x)') = Cardinality(Holders(x)) + Count(x, {}) - Count(x, Held(m))
    BY <2>2, <2>3, <2>4, <2>5
  <2>7. x \in {} \cup Held(m) => Holders(x) # {}
    BY DEF Holders
  <2>8. Holders(x) = {} => Holders(x)' = {}
    BY <2>1 DEF Holders
  <2> QED
    BY <1>1, <2>4, <2>6, <2>7, <2>8, SharesKeep
<1>6. built' \subseteq Maps
  BY <1>2 DEF MoveMap, ConfigTypes
<1> QED
  BY <1>1, <1>3, <1>4, <1>5, <1>6, MapsKeep

(* The destructor of a map keeps the invariant.                            *)
LEMMA DestroyMapKeeps ==
  ASSUME ConfigInv, NEW m \in Maps, DestroyMap(m)
  PROVE  ConfigInv'
<1> USE ConfigAssumption
<1>1. /\ Shares({}, Held(m))
      /\ entries_' = [entries_ EXCEPT ![m] = NoEntries]
      /\ UNCHANGED <<data_, deletion_, created, unowned>>
  BY DEF DestroyMap
<1>2. ConfigTypes /\ OneKey
  BY DEF ConfigInv
<1>3. /\ entries_' \in [Maps -> [Keys -> Objects \cup {NoObject}]]
      /\ \A p \in Maps : entries_'[p] = IF p = m THEN NoEntries ELSE entries_[p]
  BY <1>1, <1>2 DEF ConfigTypes, NoEntries
<1>4. OneKey'
  BY <1>2, <1>3 DEF OneKey, NoEntries
<1>5. ASSUME NEW x \in Objects PROVE ObjectInv(x)'
  <2>1. /\ m \notin Holders(x)'
        /\ m \in Holders(x) <=> x \in Held(m)
        /\ \A p \in Maps \ {m} : p \in Holders(x)' <=> p \in Holders(x)
    BY <1>2, <1>3, HeldByKey, HeldByKeyAfter DEF NoEntries
  <2>2. IsFiniteSet(Holders(x)) /\ Cardinality(Holders(x)) \in Nat
    BY FS_CardinalityType DEF ConfigInv, ObjectInv
  <2>3. /\ IsFiniteSet(Holders(x)')
        /\ Cardinality(Holders(x)') =
             Cardinality(Holders(x)) + Count(m, Holders(x)') - Count(m, Holders(x))
    <3>1. \A p : p # m => (p \in Holders(x)' <=> p \in Holders(x))
      BY <2>1 DEF Holders
    <3> QED
      BY <2>2, <3>1, OneElement
  <2>4. /\ Count(m, Holders(x)') = Count(x, {}) /\ Count(m, Holders(x)) = Count(x, Held(m))
    BY <2>1 DEF Count
  <2>5. Cardinality(Holders(x)') = Cardinality(Holders(x)) + Count(x, {}) - Count(x, Held(m))
    BY <2>3, <2>4
  <2>6. x \in {} \cup Held(m) => Holders(x) # {}
    BY DEF Holders
  <2>7. Holders(x) = {} => Holders(x)' = {}
    BY <2>1 DEF Holders
  <2> QED
    BY <1>1, <2>3, <2>5, <2>6, <2>7, SharesKeep
<1>6. built' \subseteq Maps
  BY <1>2 DEF DestroyMap, ConfigTypes
<1> QED
  BY <1>1, <1>3, <1>4, <1>5, <1>6, MapsKeep

(* An object that a step is not about. *)
LEMMA OtherObjects ==
  ASSUME NEW x \in Objects, ObjectInv(x),
         uses'[x] = uses[x], deletions'[x] = deletions[x], Holders(x)' = Holders(x),
         InSlot(x)' <=> InSlot(x), x \in created' <=> x \in created,
         x \in unowned' <=> x \in unowned
  PROVE  ObjectInv(x)'
BY DEF ObjectInv

(* Making a map keeps the invariant.                                       *)
LEMMA NewMapKeeps ==
  ASSUME ConfigInv, NEW m \in Maps, NewMap(m)
  PROVE  ConfigInv'
<1>1. /\ built' = built \cup {m}
      /\ UNCHANGED <<entries_, uses, data_, deletion_, created, deletions, unowned>>
  BY DEF NewMap
<1>2. ASSUME NEW x \in Objects PROVE ObjectInv(x)'
  BY <1>1, OtherObjects DEF ConfigInv, Holders, Held, InSlot
<1>3. ConfigTypes' /\ OneKey' /\ OneSlot'
  BY <1>1 DEF ConfigInv, ConfigTypes, OneKey, OneSlot, Vacant
<1> QED
  BY <1>2, <1>3 DEF ConfigInv

(* A new object: the map has it, or it is lost, or deleted again.          *)
LEMMA AddEntryKeeps ==
  ASSUME ConfigInv, NEW m \in Maps, NEW k \in Keys, add_entry(m, k)
  PROVE  ConfigInv'
<1> USE ConfigAssumption
<1>1. ConfigTypes /\ OneKey /\ OneSlot
  BY DEF ConfigInv
<1>2. entries_[m][k] = NoObject /\ UNCHANGED <<built, data_, deletion_>>
  BY DEF add_entry, has
<1>3. PICK new \in Objects \ created :
        /\ created' = created \cup {new}
        /\ \/ /\ entries_' = [entries_ EXCEPT ![m][k] = new]
              /\ Shares({new}, {})
              /\ UNCHANGED unowned
           \/ unowned' = unowned \cup {new} /\ UNCHANGED <<entries_, uses, deletions>>
           \/ Deletes({new}) /\ UNCHANGED <<entries_, uses, unowned>>
  BY DEF add_entry
<1>4. /\ Holders(new) = {} /\ ~InSlot(new) /\ new \notin unowned
      /\ deletions[new] = 0 /\ uses[new] = 0
  BY FS_EmptySet DEF ConfigInv, ObjectInv
<1>5. OneSlot' /\ \A x \in Objects : InSlot(x)' <=> InSlot(x)
  BY <1>1, <1>2 DEF OneSlot, InSlot, Vacant
<1>6. CASE /\ entries_' = [entries_ EXCEPT ![m][k] = new]
           /\ Shares({new}, {})
           /\ UNCHANGED unowned
  <2>1. /\ entries_' \in [Maps -> [Keys -> Objects \cup {NoObject}]]
        /\ \A p \in Maps, l \in Keys :
             entries_'[p][l] = IF p = m /\ l = k THEN new ELSE entries_[p][l]
    BY <1>1, <1>6 DEF ConfigTypes
  <2>2. \A p \in Maps, l \in Keys : entries_[p][l] # new
    BY <1>1, <1>4, HeldByKey
  <2>3. OneKey'
    BY <1>1, <2>1, <2>2 DEF OneKey
  <2>4. \A x \in Objects : /\ uses'[x] = uses[x] + Count(x, {new})
                           /\ deletions'[x] = deletions[x]
    BY <1>1, <1>6 DEF Shares, Count, ConfigTypes
  <2>5. ASSUME NEW x \in Objects PROVE ObjectInv(x)'
    <3>1. ObjectInv(x)
      BY DEF ConfigInv
    <3>2. CASE x # new
      <4>1. ASSUME NEW p \in Maps PROVE p \in Holders(x)' <=> p \in Holders(x)
        <5>1. /\ p \in Holders(x)' <=> \E l \in Keys : entries_'[p][l] = x
              /\ p \in Holders(x) <=> \E l \in Keys : entries_[p][l] = x
          BY <1>1, <2>1, HeldByKey, HeldByKeyAfter
        <5> QED
          BY <1>2, <2>1, <3>2, <5>1
      <4>2. Holders(x)' = Holders(x)
        BY <4>1 DEF Holders
      <4>3. uses'[x] = uses[x]
        BY <1>1, <2>4, <3>2 DEF Count, ConfigTypes
      <4> QED
        BY <1>3, <1>5, <1>6, <2>4, <3>1, <3>2, <4>2, <4>3, OtherObjects
    <3>3. CASE x = new
      <4>1. ASSUME NEW p \in Maps PROVE p \in Holders(new)' <=> p = m
        <5>1. p \in Holders(new)' <=> \E l \in Keys : entries_'[p][l] = new
          BY <2>1, HeldByKeyAfter
        <5> QED
          BY <2>1, <2>2, <5>1
      <4>2. Holders(new)' = {m}
        BY <4>1 DEF Holders
      <4>3. IsFiniteSet(Holders(new)') /\ Cardinality(Holders(new)') = 1
        BY <4>2, FS_Singleton
      <4>4. uses'[new] = 1
        BY <1>4, <2>4 DEF Count
      <4> QED
        BY <1>3, <1>4, <1>5, <1>6, <2>4, <3>3, <4>2, <4>3, <4>4 DEF ObjectInv
    <3> QED
      BY <3>2, <3>3
  <2>6. uses' \in [Objects -> Nat] /\ deletions' \in [Objects -> Nat]
    BY <1>1, <1>6, <2>5, SharesTypes
  <2>7. ConfigTypes'
    BY <1>1, <1>2, <1>3, <1>6, <2>1, <2>6 DEF ConfigTypes
  <2> QED
    BY <1>5, <2>3, <2>5, <2>7 DEF ConfigInv
<1>7. CASE unowned' = unowned \cup {new} /\ UNCHANGED <<entries_, uses, deletions>>
  <2>1. \A x \in Objects : Holders(x)' = Holders(x)
    BY <1>7 DEF Holders, Held
  <2>2. ASSUME NEW x \in Objects PROVE ObjectInv(x)'
    <3>1. ObjectInv(x)
      BY DEF ConfigInv
    <3>2. CASE x # new
      BY <1>3, <1>5, <1>7, <2>1, <3>1, <3>2, OtherObjects
    <3>3. CASE x = new
      BY <1>3, <1>4, <1>5, <1>7, <2>1, <3>1, <3>3 DEF ObjectInv
    <3> QED
      BY <3>2, <3>3
  <2>3. ConfigTypes' /\ OneKey'
    BY <1>1, <1>2, <1>3, <1>7 DEF ConfigTypes, OneKey
  <2> QED
    BY <1>5, <2>2, <2>3 DEF ConfigInv
<1>8. CASE Deletes({new}) /\ UNCHANGED <<entries_, uses, unowned>>
  <2>1. \A x \in Objects : Holders(x)' = Holders(x)
    BY <1>8 DEF Holders, Held
  <2>2. /\ deletions' \in [Objects -> Nat]
        /\ \A x \in Objects : deletions'[x] = deletions[x] + IF x = new THEN 1 ELSE 0
    BY <1>1, <1>8 DEF Deletes, Count, ConfigTypes
  <2>3. ASSUME NEW x \in Objects PROVE ObjectInv(x)'
    <3>1. ObjectInv(x)
      BY DEF ConfigInv
    <3>2. CASE x # new
      <4>1. deletions'[x] = deletions[x]
        BY <1>1, <2>2, <3>2 DEF ConfigTypes
      <4> QED
        BY <1>3, <1>5, <1>8, <2>1, <3>1, <3>2, <4>1, OtherObjects
    <3>3. CASE x = new
      BY <1>3, <1>4, <1>5, <1>8, <2>1, <2>2, <3>1, <3>3 DEF ObjectInv
    <3> QED
      BY <3>2, <3>3
  <2>4. ConfigTypes' /\ OneKey'
    BY <1>1, <1>2, <1>3, <1>8, <2>2 DEF ConfigTypes, OneKey
  <2> QED
    BY <1>5, <2>3, <2>4 DEF ConfigInv
<1> QED
  BY <1>3, <1>6, <1>7, <1>8

(* Steps of the slots: the maps keep what they have. *)
LEMMA NewEntryKeeps ==
  ASSUME ConfigInv, NEW s \in Slots, NewEntry(s)
  PROVE  ConfigInv'
<1> USE ConfigAssumption
<1>1. ConfigTypes /\ OneKey /\ OneSlot
  BY DEF ConfigInv
<1>2. PICK new \in Objects \ created, deletes \in BOOLEAN :
        /\ created' = created \cup {new}
        /\ data_' = [data_ EXCEPT ![s] = new]
        /\ deletion_' = [deletion_ EXCEPT ![s] = IF deletes THEN new ELSE NoObject]
        /\ unowned' = IF deletes THEN unowned ELSE unowned \cup {new}
  BY DEF NewEntry
<1>3. UNCHANGED <<built, entries_, uses, deletions>> /\ deletion_[s] = NoObject
  BY <1>1 DEF NewEntry, OneSlot
<1>4. Holders(new) = {} /\ ~InSlot(new) /\ new \notin unowned
  BY DEF ConfigInv, ObjectInv
<1>5. \A x \in Objects : Holders(x)' = Holders(x)
  BY <1>3 DEF Holders, Held
<1>6. /\ data_' \in [Slots -> Objects \cup {NoObject}]
      /\ deletion_' \in [Slots -> Objects \cup {NoObject}]
      /\ \A t \in Slots :
           /\ data_'[t] = IF t = s THEN new ELSE data_[t]
           /\ deletion_'[t] = IF t = s THEN (IF deletes THEN new ELSE NoObject) ELSE deletion_[t]
  BY <1>1, <1>2 DEF ConfigTypes
<1>7. ConfigTypes'
  BY <1>1, <1>2, <1>3, <1>6 DEF ConfigTypes
<1>8. OneKey'
  BY <1>1, <1>3 DEF OneKey
<1>9. OneSlot'
  <2>1. \A t \in Slots : deletion_[t] # new
    BY <1>4 DEF InSlot
  <2> QED
    BY <1>1, <1>6, <2>1 DEF OneSlot, Vacant
<1>10. ASSUME NEW x \in Objects PROVE ObjectInv(x)'
  <2>1. ObjectInv(x)
    BY DEF ConfigInv
  <2>2. CASE x # new
    <3>1. InSlot(x)' <=> InSlot(x)
      BY <1>3, <1>6, <2>2 DEF InSlot
    <3> QED
      BY <1>2, <1>3, <1>5, <2>1, <2>2, <3>1, OtherObjects
  <2>3. CASE x = new
    <3>1. InSlot(new)' <=> deletes
      BY <1>4, <1>6 DEF InSlot
    <3> QED
      BY <1>2, <1>3, <1>4, <1>5, <2>1, <2>3, <3>1 DEF ObjectInv
  <2> QED
    BY <2>2, <2>3
<1> QED
  BY <1>7, <1>8, <1>9, <1>10 DEF ConfigInv

(* Moving a ConfigEntry into another keeps the invariant.                  *)
LEMMA MoveEntryKeeps ==
  ASSUME ConfigInv, NEW s \in Slots, NEW t \in Slots, MoveEntry(s, t)
  PROVE  ConfigInv'
<1> USE ConfigAssumption
<1>1. ConfigTypes /\ OneKey /\ OneSlot
  BY DEF ConfigInv
<1>2. /\ s # t /\ data_[t] # NoObject
      /\ data_' = [data_ EXCEPT ![s] = data_[t]]
      /\ deletion_' = [deletion_ EXCEPT ![s] = deletion_[t], ![t] = NoObject]
      /\ unowned' = unowned \cup ({deletion_[s]} \ {NoObject})
      /\ UNCHANGED <<built, entries_, uses, created, deletions>>
  BY DEF MoveEntry, DeletionLeft, Vacant
<1>3. \A x \in Objects : Holders(x)' = Holders(x)
  BY <1>2 DEF Holders, Held
<1>4. /\ data_' \in [Slots -> Objects \cup {NoObject}]
      /\ deletion_' \in [Slots -> Objects \cup {NoObject}]
      /\ \A u \in Slots :
           /\ data_'[u] = IF u = s THEN data_[t] ELSE data_[u]
           /\ deletion_'[u] = IF u = t THEN NoObject
                              ELSE IF u = s THEN deletion_[t] ELSE deletion_[u]
  BY <1>1, <1>2 DEF ConfigTypes
<1>5. unowned' \subseteq Objects
  BY <1>1, <1>2 DEF ConfigTypes
<1>6. ConfigTypes'
  BY <1>1, <1>2, <1>4, <1>5 DEF ConfigTypes
<1>7. OneKey'
  BY <1>1, <1>2 DEF OneKey
<1>8. OneSlot'
  BY <1>1, <1>2, <1>4 DEF OneSlot, Vacant
<1>9. ASSUME NEW x \in Objects PROVE ObjectInv(x)'
  <2>1. ObjectInv(x)
    BY DEF ConfigInv
  <2>2. CASE x # deletion_[s]
    <3>1. InSlot(x)' <=> InSlot(x)
      <4>1. ASSUME InSlot(x) PROVE InSlot(x)'
        <5>1. PICK u \in Slots : deletion_[u] = x
          BY <4>1 DEF InSlot
        <5>2. CASE u = t
          BY <1>2, <1>4, <5>1, <5>2 DEF InSlot
        <5>3. CASE u # t
          BY <1>4, <2>2, <5>1, <5>3 DEF InSlot
        <5> QED
          BY <5>2, <5>3
      <4>2. ASSUME InSlot(x)' PROVE InSlot(x)
        BY <1>4, <4>2 DEF InSlot
      <4> QED
        BY <4>1, <4>2
    <3> QED
      BY <1>2, <1>3, <2>1, <2>2, <3>1, OtherObjects
  <2>3. CASE x = deletion_[s]
    <3>1. InSlot(x) /\ x \in created /\ Holders(x) = {} /\ x \notin unowned
      BY <2>1, <2>3 DEF InSlot, ObjectInv
    <3>2. ~InSlot(x)'
      <4>1. \A u \in Slots : deletion_[u] = x => u = s
        BY <1>1, <2>3 DEF OneSlot
      <4> QED
        BY <1>2, <1>4, <4>1 DEF InSlot
    <3>3. x \in unowned'
      BY <1>2, <2>3
    <3> QED
      BY <1>2, <1>3, <2>1, <3>1, <3>2, <3>3 DEF ObjectInv
  <2> QED
    BY <2>2, <2>3
<1> QED
  BY <1>6, <1>7, <1>8, <1>9 DEF ConfigInv

(* The destructor of a ConfigEntry keeps the invariant.                    *)
LEMMA DestroyEntryKeeps ==
  ASSUME ConfigInv, NEW s \in Slots, DestroyEntry(s)
  PROVE  ConfigInv'
<1> USE ConfigAssumption
<1>1. ConfigTypes /\ OneKey /\ OneSlot
  BY DEF ConfigInv
<1>2. /\ Deletes({deletion_[s]})
      /\ data_' = [data_ EXCEPT ![s] = NoObject]
      /\ deletion_' = [deletion_ EXCEPT ![s] = NoObject]
      /\ UNCHANGED <<built, entries_, uses, created, unowned>>
  BY DEF DestroyEntry
<1>3. \A x \in Objects : Holders(x)' = Holders(x)
  BY <1>2 DEF Holders, Held
<1>4. /\ data_' \in [Slots -> Objects \cup {NoObject}]
      /\ deletion_' \in [Slots -> Objects \cup {NoObject}]
      /\ \A u \in Slots :
           /\ data_'[u] = IF u = s THEN NoObject ELSE data_[u]
           /\ deletion_'[u] = IF u = s THEN NoObject ELSE deletion_[u]
  BY <1>1, <1>2 DEF ConfigTypes
<1>5. /\ deletions' \in [Objects -> Nat]
      /\ \A x \in Objects : deletions'[x] = deletions[x] + IF x = deletion_[s] THEN 1 ELSE 0
  BY <1>1, <1>2 DEF Deletes, Count, ConfigTypes
<1>6. ConfigTypes'
  BY <1>1, <1>2, <1>4, <1>5 DEF ConfigTypes
<1>7. OneKey'
  BY <1>1, <1>2 DEF OneKey
<1>8. OneSlot'
  BY <1>1, <1>4 DEF OneSlot, Vacant
<1>9. ASSUME NEW x \in Objects PROVE ObjectInv(x)'
  <2>1. ObjectInv(x)
    BY DEF ConfigInv
  <2>2. CASE x # deletion_[s]
    <3>1. InSlot(x)' <=> InSlot(x)
      BY <1>4, <2>2 DEF InSlot
    <3>2. deletions'[x] = deletions[x]
      BY <1>1, <1>5, <2>2 DEF ConfigTypes
    <3> QED
      BY <1>2, <1>3, <2>1, <3>1, <3>2, OtherObjects
  <2>3. CASE x = deletion_[s]
    <3>1. InSlot(x) /\ x \in created /\ Holders(x) = {} /\ x \notin unowned /\ deletions[x] = 0
      BY <2>1, <2>3 DEF InSlot, ObjectInv
    <3>2. ~InSlot(x)'
      <4>1. \A u \in Slots : deletion_[u] = x => u = s
        BY <1>1, <2>3 DEF OneSlot
      <4> QED
        BY <1>4, <4>1 DEF InSlot
    <3>3. deletions'[x] = 1
      BY <1>5, <2>3, <3>1
    <3> QED
      BY <1>2, <1>3, <2>1, <3>1, <3>2, <3>3 DEF ObjectInv
  <2> QED
    BY <2>2, <2>3
<1> QED
  BY <1>6, <1>7, <1>8, <1>9 DEF ConfigInv

(* The invariant of ConfigMap and ConfigEntry, through every operation.    *)
LEMMA ConfigInvInductive == ConfigSpec => []ConfigInv
<1>1. ConfigInit => ConfigInv
  <2> SUFFICES ASSUME ConfigInit PROVE ConfigInv
    OBVIOUS
  <2>1. ConfigTypes /\ OneKey /\ OneSlot
    BY DEF ConfigInit, ConfigTypes, OneKey, OneSlot, NoEntries
  <2>2. ASSUME NEW x \in Objects PROVE ObjectInv(x)
    <3>1. Holders(x) = {} /\ ~InSlot(x)
      BY ConfigAssumption DEF ConfigInit, Holders, Held, InSlot, NoEntries
    <3> QED
      BY <3>1, FS_EmptySet DEF ConfigInit, ObjectInv
  <2> QED
    BY <2>1, <2>2 DEF ConfigInv
<1>2. ConfigInv /\ [ConfigNext]_configVars => ConfigInv'
  <2>1. ASSUME ConfigInv, UNCHANGED configVars PROVE ConfigInv'
    <3>1. UNCHANGED <<built, entries_, uses, data_, deletion_, created, deletions, unowned>>
      BY <2>1 DEF configVars
    <3>2. ASSUME NEW x \in Objects PROVE ObjectInv(x)'
      BY <2>1, <3>1, OtherObjects DEF ConfigInv, Holders, Held, InSlot
    <3>3. ConfigTypes' /\ OneKey' /\ OneSlot'
      BY <2>1, <3>1 DEF ConfigInv, ConfigTypes, OneKey, OneSlot, Vacant
    <3> QED
      BY <3>2, <3>3 DEF ConfigInv
  <2> QED
    BY <2>1, NewMapKeeps, DestroyMapKeeps, AddEntryKeeps, RmEntryKeeps, CopyMapKeeps,
       MoveMapKeeps, NewEntryKeeps, DestroyEntryKeeps, MoveEntryKeeps DEF ConfigNext
<1> QED
  BY <1>1, <1>2, PTL DEF ConfigSpec

(* What an entry owns is deleted once, when the last map or slot that owns *)
(* it lets go, and not before, however many maps share it: reference       *)
(* counts are the number of maps, and no object has two kinds of owner.    *)
THEOREM EntriesAreDeletedOnce == ConfigSpec => []DeletedOnce
<1>1. ConfigInv => DeletedOnce
  <2> SUFFICES ASSUME ConfigInv, NEW x \in created
               PROVE  deletions[x] = IF x \in Owned \cup unowned THEN 0 ELSE 1
    BY DEF DeletedOnce
  <2>1. x \in Objects /\ ObjectInv(x)
    BY DEF ConfigInv, ConfigTypes
  <2>2. x \in Owned <=> Holders(x) # {} \/ InSlot(x)
    <3>1. x \in Owned <=> x \in UNION {Held(m) : m \in Maps} \/ InSlot(x)
      BY DEF Owned, InSlot
    <3>2. x \in UNION {Held(m) : m \in Maps} <=> \E m \in Maps : x \in Held(m)
      OBVIOUS
    <3>3. Holders(x) # {} <=> \E m \in Maps : x \in Held(m)
      BY DEF Holders
    <3> QED
      BY <3>1, <3>2, <3>3
  <2> QED
    BY <2>1, <2>2 DEF ObjectInv
<1> QED
  BY <1>1, ConfigInvInductive, PTL

-----------------------------------------------------------------------------
(* FlagSet *)

(* What store() has done with the first i words, for every i.              *)
Stored(after, map, done, words) ==
  after = [i \in 0 .. Len(words) |->
            IF i = 0 THEN [map |-> map, ok |-> TRUE] ELSE Takes(after[i - 1], done, words[i])]

(* The recursive function of Store exists.                                 *)
LEMMA StoreIsDefined ==
  ASSUME NEW map, NEW done, NEW words, Len(words) \in Nat
  PROVE  \E after : Stored(after, map, done, words)
<1> DEFINE Upto(f, n) ==
             f = [i \in 0 .. n |->
                   IF i = 0 THEN [map |-> map, ok |-> TRUE] ELSE Takes(f[i - 1], done, words[i])]
           S == {n \in Nat : \E f : Upto(f, n)}
<1>1. 0 \in S
  <2>1. Upto([i \in 0 .. 0 |-> [map |-> map, ok |-> TRUE]], 0)
    OBVIOUS
  <2> QED
    BY <2>1
<1>2. \A n \in 0 .. Len(words) - 1 : n \in S => n + 1 \in S
  <2> SUFFICES ASSUME NEW n \in 0 .. Len(words) - 1, NEW f, Upto(f, n)
               PROVE  \E g : Upto(g, n + 1)
    OBVIOUS
  <2> DEFINE g == [i \in 0 .. n + 1 |->
                    IF i = n + 1 THEN Takes(f[n], done, words[i]) ELSE f[i]]
  <2>1. \A i \in 0 .. n : g[i] = f[i]
    OBVIOUS
  <2>2. \A i \in 0 .. n + 1 :
          g[i] = IF i = 0 THEN [map |-> map, ok |-> TRUE] ELSE Takes(g[i - 1], done, words[i])
    <3> SUFFICES ASSUME NEW i \in 0 .. n + 1
                 PROVE  g[i] = IF i = 0 THEN [map |-> map, ok |-> TRUE]
                               ELSE Takes(g[i - 1], done, words[i])
      OBVIOUS
    <3>1. CASE i = n + 1
      <4>1. g[i] = Takes(f[n], done, words[i]) /\ i - 1 = n /\ i # 0
        BY <3>1
      <4>2. g[i - 1] = f[n]
        BY <2>1, <4>1
      <4> QED
        BY <4>1, <4>2
    <3>2. CASE i \in 0 .. n
      <4>1. f[i] = IF i = 0 THEN [map |-> map, ok |-> TRUE] ELSE Takes(f[i - 1], done, words[i])
        BY <3>2
      <4>2. i # 0 => i - 1 \in 0 .. n
        BY <3>2
      <4> HIDE DEF Upto, g
      <4> QED
        BY <2>1, <3>2, <4>1, <4>2
    <3> QED
      BY <3>1, <3>2
  <2>3. g = [i \in 0 .. n + 1 |-> g[i]]
    OBVIOUS
  <2> HIDE DEF g
  <2>4. Upto(g, n + 1)
    BY <2>2, <2>3
  <2> QED
    BY <2>4
<1> HIDE DEF S
<1>3. Len(words) \in S
  <2>1. 0 .. Len(words) \subseteq S
    BY <1>1, <1>2, UpTo
  <2> QED
    BY <2>1
<1> QED
  BY <1>3 DEF S, Stored

(* What the map can hold.                                                  *)
MapValues == Values \cup {"", Default, Unset}

(* What one word of the command line does to the map.                      *)
Took(before, taken, done, word) ==
  /\ taken \in [map : [Names -> MapValues], ok : BOOLEAN]
  /\ taken.ok => before.ok
  /\ \A o \in Names : o # word[1] \/ o \in done => taken.map[o] = before.map[o]
  /\ taken.ok /\ word[1] \notin done =>
       /\ before.map[word[1]] \in {Unset, Default}
       /\ taken.map[word[1]] = word[2]
       /\ word[2] # Bad

(* One word: an accepted one is written, unless its option is finished.    *)
LEMMA TakesOne ==
  ASSUME NEW before, NEW done, NEW word \in Words,
         before \in [map : [Names -> MapValues], ok : BOOLEAN]
  PROVE  Took(before, Takes(before, done, word), done, word)
<1> DEFINE name == word[1]
           value == word[2]
           old == before.map[name]
           taken == Takes(before, done, word)
<1> SUFFICES Took(before, taken, done, word)
  OBVIOUS
<1>1. name \in Names /\ value \in Values \cup {Bad, ""}
  <2>1. CASE word \in Options \X (Values \cup {Bad})
    BY <2>1 DEF Names
  <2>2. CASE word = <<"help", "">>
    BY <2>2 DEF Names
  <2> QED
    BY <2>1, <2>2 DEF Words
<1>2. old \in MapValues
  BY <1>1
<1>3. CASE ~before.ok \/ name \in done
  <2>1. taken = before
    BY <1>3 DEF Takes
  <2> QED
    BY <1>3, <2>1 DEF Took
<1>4. CASE before.ok /\ name \notin done /\ Refuses(before.map, word)
  <2> DEFINE rest == IF old = Default THEN Unset ELSE old
  <2>1. taken = [map |-> [before.map EXCEPT ![name] = rest], ok |-> FALSE]
    BY <1>4 DEF Takes
  <2>2. rest \in MapValues
    BY <1>2 DEF MapValues
  <2> HIDE DEF taken, rest
  <2> QED
    BY <1>1, <1>4, <2>1, <2>2 DEF Took
<1>5. CASE before.ok /\ name \notin done /\ ~Refuses(before.map, word)
  <2>1. taken = [map |-> [before.map EXCEPT ![name] = value], ok |-> TRUE]
    BY <1>5 DEF Takes
  <2>2. value # Bad /\ old \in {Unset, Default}
    BY <1>5 DEF Refuses
  <2>3. value \in MapValues
    BY <1>1, <2>2 DEF MapValues
  <2> HIDE DEF taken
  <2> QED
    BY <1>1, <1>5, <2>1, <2>2, <2>3 DEF Took
<1> QED
  BY <1>3, <1>4, <1>5

(* The first i words, all of them taken or one of them refused.            *)
Taken(after, map, done, words, i) ==
  /\ after[i] \in [map : [Names -> MapValues], ok : BOOLEAN]
  /\ \A o \in Names : o \in done => after[i].map[o] = map[o]
  /\ after[i].ok =>
       /\ \A o \in Names : (\A k \in 1 .. i : words[k][1] # o) => after[i].map[o] = map[o]
       /\ \A k \in 1 .. i : words[k][1] \notin done =>
            after[i].map[words[k][1]] = words[k][2] /\ words[k][2] # Bad

(* A word is a name and a value; "help" takes none.                        *)
LEMMA WordTypes ==
  ASSUME NEW word \in Words
  PROVE  /\ word[1] \in Names
         /\ word[1] = "help" => word[2] = ""
         /\ word[1] # "help" /\ word[2] # Bad => word[2] \in Values
<1>1. CASE word \in Options \X (Values \cup {Bad})
  <2>1. word[1] \in Options /\ word[2] \in Values \cup {Bad}
    BY <1>1
  <2> QED
    BY <2>1, FlagAssumption DEF Names
<1>2. CASE word = <<"help", "">>
  BY <1>2 DEF Names
<1> QED
  BY <1>1, <1>2 DEF Words

(* The loop of store(), by induction over the words.                       *)
LEMMA StoreTakes ==
  ASSUME NEW map \in [Names -> MapValues], NEW done, NEW words \in Seq(Words),
         NEW after, Stored(after, map, done, words)
  PROVE  Taken(after, map, done, words, Len(words))
<1> DEFINE S == {i \in 0 .. Len(words) : Taken(after, map, done, words, i)}
<1>1. 0 \in S
  <2>1. after[0] = [map |-> map, ok |-> TRUE]
    BY DEF Stored
  <2>2. Taken(after, map, done, words, 0)
    BY <2>1 DEF Taken
  <2> QED
    BY <2>2
<1>2. ASSUME NEW i \in 0 .. Len(words) - 1, Taken(after, map, done, words, i)
      PROVE  Taken(after, map, done, words, i + 1)
  <2> DEFINE before == after[i]
             taken == after[i + 1]
             word == words[i + 1]
  <2>1. taken = Takes(before, done, word)
    <3>1. i + 1 \in 0 .. Len(words) /\ i + 1 # 0 /\ (i + 1) - 1 = i
      OBVIOUS
    <3> QED
      BY <3>1 DEF Stored
  <2>2. \A k \in 1 .. i + 1 : words[k] \in Words
    OBVIOUS
  <2>3. Took(before, taken, done, word)
    BY <1>2, <2>1, <2>2, TakesOne DEF Taken
  <2>4. taken \in [map : [Names -> MapValues], ok : BOOLEAN]
    BY <2>3 DEF Took
  <2>5. \A o \in Names : o \in done => taken.map[o] = map[o]
    BY <1>2, <2>3 DEF Took, Taken
  <2>6. ASSUME taken.ok, NEW o \in Names, \A k \in 1 .. i + 1 : words[k][1] # o
        PROVE  taken.map[o] = map[o]
    <3>1. o # word[1] /\ \A k \in 1 .. i : words[k][1] # o
      <4>1. i + 1 \in 1 .. i + 1 /\ 1 .. i \subseteq 1 .. i + 1
        OBVIOUS
      <4> QED
        BY <2>6, <4>1
    <3> QED
      BY <1>2, <2>3, <2>6, <3>1 DEF Took, Taken
  <2>7. ASSUME taken.ok, NEW k \in 1 .. i + 1, words[k][1] \notin done
        PROVE  taken.map[words[k][1]] = words[k][2] /\ words[k][2] # Bad
    <3>1. CASE k = i + 1
      BY <2>3, <2>7, <3>1 DEF Took
    <3>2. CASE k \in 1 .. i
      <4>1. before.map[words[k][1]] = words[k][2] /\ words[k][2] # Bad
        BY <1>2, <2>3, <2>7, <3>2 DEF Took, Taken
      <4>2. word \in Words /\ words[k] \in Words /\ words[k][1] \in Names
        <5>1. word \in Words /\ words[k] \in Words
          BY <2>2
        <5> QED
          BY <5>1, WordTypes
      <4>3. CASE words[k][1] # word[1]
        BY <2>3, <4>1, <4>2, <4>3 DEF Took
      <4>4. CASE words[k][1] = word[1]
        <5>1. words[k][2] \in {Unset, Default} /\ taken.map[words[k][1]] = word[2]
          BY <2>3, <2>7, <4>1, <4>4 DEF Took
        <5>2. words[k][1] = "help"
          BY <4>1, <4>2, <5>1, WordTypes, FlagAssumption
        <5>3. words[k][2] = word[2]
          BY <4>2, <4>4, <5>2, WordTypes
        <5> QED
          BY <4>1, <5>1, <5>3
      <4> QED
        BY <4>3, <4>4
    <3> QED
      BY <3>1, <3>2
  <2> QED
    BY <2>4, <2>5, <2>6, <2>7 DEF Taken
<1>3. 0 .. Len(words) \subseteq S
  <2>1. Len(words) \in Nat /\ \A i \in 0 .. Len(words) - 1 : i \in S => i + 1 \in S
    BY <1>2
  <2> HIDE DEF S
  <2> QED
    BY <1>1, <2>1, UpTo
<1>4. Len(words) \in 0 .. Len(words)
  OBVIOUS
<1> QED
  BY <1>3, <1>4

(* What store() makes of a line.                                           *)
Stores(stored, flags, map, done, words) ==
  /\ stored.map \in [Names -> MapValues]
  /\ stored.ok \in BOOLEAN
  /\ \A o \in Names : o \in done /\ map[o] # Unset => stored.map[o] = map[o]
  /\ stored.ok =>
       /\ \A k \in 1 .. Len(words) : words[k][1] \notin done =>
            stored.map[words[k][1]] = words[k][2] /\ words[k][2] # Unset
       /\ \A o \in Names : (\A k \in 1 .. Len(words) : words[k][1] # o) /\ map[o] = Unset =>
            stored.map[o] = IF o \in Defaulted /\ Contains(flags, o) THEN Default ELSE Unset

(* store() as a whole: what was given, the defaults, and nothing else.     *)
LEMMA StoreResult ==
  ASSUME NEW flags, NEW map \in [Names -> MapValues], NEW done, NEW words \in Seq(Words)
  PROVE  Stores(Store(flags, map, done, words), flags, map, done, words)
<1> DEFINE after == CHOOSE f : Stored(f, map, done, words)
           taken == after[Len(words)]
           Lacks(o) == taken.ok /\ taken.map[o] = Unset /\ o \in Defaulted /\ Contains(flags, o)
           full == [o \in Names |-> IF Lacks(o) THEN Default ELSE taken.map[o]]
           stored == Store(flags, map, done, words)
<1>1. Stored(after, map, done, words)
  <2>1. Len(words) \in Nat
    OBVIOUS
  <2>2. \E f : Stored(f, map, done, words)
    BY <2>1, StoreIsDefined
  <2> QED
    BY <2>2, Zenon
<1>2. stored = [taken EXCEPT !.map = full]
  BY DEF Store, Stored
<1>3. Taken(after, map, done, words, Len(words))
  BY <1>1, StoreTakes
<1> SUFFICES Stores(stored, flags, map, done, words)
  OBVIOUS
<1>4. taken \in [map : [Names -> MapValues], ok : BOOLEAN]
  BY <1>3 DEF Taken
<1> HIDE DEF stored, taken
<1>5. stored.map = full /\ stored.ok = taken.ok
  BY <1>2, <1>4
<1>6. full \in [Names -> MapValues]
  BY <1>4 DEF MapValues
<1>7. \A o \in Names : o \in done => taken.map[o] = map[o]
  BY <1>3 DEF Taken, taken
<1>8. taken.ok => \A o \in Names : (\A k \in 1 .. Len(words) : words[k][1] # o) => taken.map[o] = map[o]
  BY <1>3 DEF Taken, taken
<1>9. ASSUME taken.ok, NEW k \in 1 .. Len(words), words[k][1] \notin done
      PROVE  full[words[k][1]] = words[k][2] /\ words[k][2] # Unset
  <2>1. taken.map[words[k][1]] = words[k][2] /\ words[k][2] # Bad
    BY <1>3, <1>9 DEF Taken, taken
  <2>2. words[k] \in Words
    OBVIOUS
  <2>3. words[k][1] \in Names /\ words[k][2] # Unset
    BY <2>1, <2>2, WordTypes, FlagAssumption
  <2> QED
    BY <2>1, <2>3
<1>10. \A o \in Names : o \in done /\ map[o] # Unset => full[o] = map[o]
  BY <1>7
<1>11. ASSUME taken.ok, NEW o \in Names, \A k \in 1 .. Len(words) : words[k][1] # o, map[o] = Unset
       PROVE  full[o] = IF o \in Defaulted /\ Contains(flags, o) THEN Default ELSE Unset
  BY <1>8, <1>11
<1> QED
  BY <1>4, <1>5, <1>6, <1>9, <1>10, <1>11 DEF Stores

(* What parse() does: it writes the variables only of a line it accepts,   *)
(* which does not ask for help.                                            *)
Parses(parsed, stored, flags, done, words) ==
  /\ parsed.map \in [Names -> MapValues]
  /\ parsed.final \subseteq done \cup Names
  /\ "help" \in parsed.final => parsed.map["help"] # Unset
  /\ parsed.result # "parsed" => ~parsed.written
  /\ parsed.result = "parsed" =>
       /\ Recognized(flags, words) /\ stored.ok
       /\ parsed.map = stored.map /\ parsed.written
       /\ \A o \in Required : Contains(flags, o) => stored.map[o] # Unset
       /\ \A k \in 1 .. Len(words) : words[k][1] # "help"

(* parse() after store(): it writes to the variables only when nothing     *)
(* failed.                                                                 *)
LEMMA ParseResult ==
  ASSUME NEW flags, NEW map \in [Names -> MapValues], NEW done, NEW words \in Seq(Words),
         "help" \in done => map["help"] # Unset
  PROVE  Parses(Parse(flags, map, done, words), Store(flags, map, done, words), flags, done, words)
<1> DEFINE parsed == Parse(flags, map, done, words)
           stored == Store(flags, map, done, words)
           finished == done \cup {words[i][1] : i \in DOMAIN words}
           Gives(m, d, written, answer) == [map |-> m, final |-> d, written |-> written, result |-> answer]
<1> SUFFICES Parses(parsed, stored, flags, done, words)
  OBVIOUS
<1>1. Stores(stored, flags, map, done, words)
  BY StoreResult
<1>2. DOMAIN words = 1 .. Len(words) /\ \A k \in 1 .. Len(words) : words[k] \in Words
  OBVIOUS
<1>3. finished \subseteq done \cup Names /\ "help" \in Names
  BY <1>2, WordTypes DEF Names
<1>4. parsed = IF ~Recognized(flags, words) THEN Gives(map, done, FALSE, "refused")
               ELSE IF ~stored.ok THEN Gives(stored.map, done, FALSE, "refused")
               ELSE IF stored.map["help"] # Unset THEN Gives(stored.map, finished, FALSE, "helped")
               ELSE Gives(stored.map, finished, Notifies(flags, stored.map),
                          IF Missing(flags, stored.map) = {} THEN "parsed" ELSE "refused")
  BY DEF Parse
<1>5. "help" \in done => stored.map["help"] # Unset
  BY <1>1, <1>3 DEF Stores
<1>6. stored.ok /\ stored.map["help"] = Unset =>
        "help" \notin done /\ \A k \in 1 .. Len(words) : words[k][1] # "help"
  <2> SUFFICES ASSUME stored.ok, stored.map["help"] = Unset,
                      NEW k \in 1 .. Len(words), words[k][1] = "help"
               PROVE  FALSE
    BY <1>5
  <2> QED
    BY <1>1, <1>5 DEF Stores
<1> HIDE DEF parsed, stored
<1>7. CASE ~Recognized(flags, words)
  <2>1. parsed = Gives(map, done, FALSE, "refused")
    BY <1>4, <1>7
  <2> QED
    BY <2>1 DEF Parses
<1>8. CASE Recognized(flags, words) /\ ~stored.ok
  <2>1. parsed = Gives(stored.map, done, FALSE, "refused")
    BY <1>4, <1>8
  <2> QED
    BY <1>1, <1>5, <2>1 DEF Parses, Stores
<1>9. CASE Recognized(flags, words) /\ stored.ok /\ stored.map["help"] # Unset
  <2>1. parsed = Gives(stored.map, finished, FALSE, "helped")
    BY <1>4, <1>9
  <2> HIDE DEF finished
  <2> QED
    BY <1>1, <1>3, <1>9, <2>1 DEF Parses, Stores
<1>10. CASE Recognized(flags, words) /\ stored.ok /\ stored.map["help"] = Unset
  <2>1. parsed = Gives(stored.map, finished, Notifies(flags, stored.map),
                       IF Missing(flags, stored.map) = {} THEN "parsed" ELSE "refused")
    BY <1>4, <1>10
  <2>2. "help" \notin finished
    BY <1>2, <1>6, <1>10
  <2> HIDE DEF finished
  <2>3. /\ parsed.map = stored.map /\ parsed.final = finished
        /\ parsed.written = Notifies(flags, stored.map)
        /\ parsed.result = "parsed" <=> Missing(flags, stored.map) = {}
    BY <2>1
  <2>4. parsed.result # "parsed" => ~parsed.written
    BY <2>3 DEF Notifies
  <2>5. parsed.result = "parsed" =>
          parsed.written /\ \A o \in Required : Contains(flags, o) => stored.map[o] # Unset
    BY <2>3 DEF Notifies, Missing
  <2>6. \A k \in 1 .. Len(words) : words[k][1] # "help"
    BY <1>6, <1>10
  <2> QED
    BY <1>1, <1>3, <1>10, <2>2, <2>3, <2>4, <2>5, <2>6 DEF Parses, Stores
<1> QED
  BY <1>1, <1>7, <1>8, <1>9, <1>10

(* The map has its type, and remembers that help was asked for.            *)
FlagInv ==
  /\ flags_ \in Seq(Names)
  /\ vars \in [Names -> MapValues]
  /\ final \subseteq Names
  /\ variables \in [Options -> MapValues]
  /\ "help" \in final => vars["help"] # Unset

(* Nothing was parsed at first.                                            *)
LEMMA FlagInitHolds == FlagInit => FlagInv
BY DEF FlagInit, FlagInv, NoVars, MapValues

(* What a call of parse() says of its results.                             *)
ParseDoes(flags, done, words, stored, parsed) ==
  /\ fresh' => Stores(stored, flags, NoVars, {}, words) /\ done = {}
  /\ Parses(parsed, stored, flags, done, words)
  /\ result' = parsed.result
  /\ variables' = [o \in Options |->
       IF parsed.written /\ parsed.map[o] # Unset THEN parsed.map[o] ELSE variables[o]]

(* A call of parse() keeps the invariant and does what it says.            *)
LEMMA ParseStep ==
  ASSUME FlagInv, parse
  PROVE  /\ FlagInv'
         /\ line' \in Seq(Words)
         /\ \E done, stored, parsed :
              ParseDoes(Append(flags_, "help"), done, line', stored, parsed)
<1> DEFINE flags == Append(flags_, "help")
           words == line'
           map == IF fresh' THEN NoVars ELSE vars
           done == IF fresh' THEN {} ELSE final
           stored == Store(flags, map, done, words)
           parsed == Parse(flags, map, done, words)
<1>1. /\ flags_' = flags /\ words \in BoundedSeq(Words, MaxLine) /\ fresh' \in BOOLEAN
      /\ vars' = IF fresh' THEN vars ELSE parsed.map
      /\ final' = IF fresh' THEN final ELSE parsed.final
      /\ result' = parsed.result
      /\ variables' = [o \in Options |->
           IF parsed.written /\ parsed.map[o] # Unset THEN parsed.map[o] ELSE variables[o]]
  BY DEF parse
<1>2. words \in Seq(Words)
  <2>1. PICK m \in 0 .. MaxLine : words \in [1 .. m -> Words]
    BY <1>1 DEF BoundedSeq, SeqOf
  <2>2. MaxLine \in Nat
    BY FlagAssumption
  <2>3. m \in Nat
    BY <2>2
  <2> QED
    BY <2>1, <2>3
<1>3. /\ map \in [Names -> MapValues] /\ done \subseteq Names
      /\ "help" \in done => map["help"] # Unset
  BY DEF FlagInv, NoVars, MapValues
<1>4. Stores(stored, flags, map, done, words)
  BY <1>2, <1>3, StoreResult
<1>5. Parses(parsed, stored, flags, done, words)
  BY <1>2, <1>3, ParseResult
<1> HIDE DEF stored, parsed
<1>6. ParseDoes(flags, done, words, stored, parsed)
  BY <1>1, <1>4, <1>5 DEF ParseDoes
<1>7. FlagInv'
  <2>1. flags_' \in Seq(Names)
    BY <1>1 DEF FlagInv, Names
  <2>2. /\ vars' \in [Names -> MapValues] /\ final' \subseteq Names
        /\ "help" \in final' => vars'["help"] # Unset
    BY <1>1, <1>3, <1>5 DEF FlagInv, Parses
  <2>3. variables' \in [Options -> MapValues]
    <3>1. \A o \in Options : parsed.map[o] \in MapValues /\ variables[o] \in MapValues
      BY <1>5 DEF FlagInv, Parses, Names
    <3> QED
      BY <1>1, <3>1
  <2> QED
    BY <2>1, <2>2, <2>3 DEF FlagInv
<1> QED
  BY <1>2, <1>6, <1>7

(* Every step keeps the invariant.                                         *)
LEMMA FlagStepHolds == FlagInv /\ [FlagNext]_flagVars => FlagInv'
<1> SUFFICES ASSUME FlagInv, [FlagNext]_flagVars PROVE FlagInv'
  OBVIOUS
<1>1. CASE parse
  BY <1>1, ParseStep
<1>2. ASSUME NEW o \in Options, AddOption(o) PROVE FlagInv'
  BY <1>2 DEF AddOption, FlagInv, Names
<1>3. CASE UNCHANGED flagVars
  BY <1>3 DEF flagVars, FlagInv
<1> QED
  BY <1>1, <1>2, <1>3 DEF FlagNext

(* A line that is refused, or asks for help, changes no variable, and one  *)
(* that is accepted, into a new map, says what all of them are.            *)
ParsesAllOrNothing ==
  /\ result' # "parsed" => variables' = variables
  /\ result' = "parsed" => ~\E i \in DOMAIN line' : line'[i][1] = "help"
  /\ result' = "parsed" /\ fresh' =>
       \A o \in Options :
         LET on_line == IF Contains(flags_, o) THEN Given(line', o) ELSE Unset
         IN  /\ variables'[o] = IF on_line = Unset THEN variables[o] ELSE on_line
             /\ o \in Required /\ Contains(flags_, o) => on_line # Unset

(* One call of parse() from a state of the invariant is all or nothing.    *)
LEMMA ParseIsAtomic == FlagInv /\ parse => ParsesAllOrNothing
<1> SUFFICES ASSUME FlagInv, parse PROVE ParsesAllOrNothing
  OBVIOUS
<1> DEFINE flags == Append(flags_, "help")
           words == line'
<1>1. words \in Seq(Words)
  BY ParseStep
<1>2. PICK done, stored, parsed : ParseDoes(flags, done, words, stored, parsed)
  BY ParseStep
<1>3. result' # "parsed" => variables' = variables
  <2>1. result' # "parsed" => ~parsed.written
    BY <1>2 DEF ParseDoes, Parses
  <2>2. variables = [o \in Options |-> variables[o]]
    BY DEF FlagInv
  <2> QED
    BY <1>2, <2>1, <2>2 DEF ParseDoes
<1>4. DOMAIN words = 1 .. Len(words)
  BY <1>1
<1>5. result' = "parsed" => ~\E i \in DOMAIN words : words[i][1] = "help"
  BY <1>2, <1>4 DEF ParseDoes, Parses
<1>6. ASSUME result' = "parsed", fresh', NEW o \in Options
      PROVE  LET on_line == IF Contains(flags_, o) THEN Given(words, o) ELSE Unset
             IN  /\ variables'[o] = IF on_line = Unset THEN variables[o] ELSE on_line
                 /\ o \in Required /\ Contains(flags_, o) => on_line # Unset
  <2> DEFINE on_line == IF Contains(flags_, o) THEN Given(words, o) ELSE Unset
  <2>1. /\ Recognized(flags, words) /\ stored.ok /\ parsed.map = stored.map /\ parsed.written
        /\ o \in Required /\ Contains(flags, o) => stored.map[o] # Unset
        /\ Stores(stored, flags, NoVars, {}, words)
    BY <1>2, <1>6 DEF ParseDoes, Parses
  <2>2. variables'[o] = IF stored.map[o] # Unset THEN stored.map[o] ELSE variables[o]
    BY <1>2, <2>1 DEF ParseDoes
  <2>3. Contains(flags, o) <=> Contains(flags_, o)
    <3>1. o # "help"
      BY FlagAssumption
    <3> QED
      BY <3>1 DEF FlagInv, Contains
  <2>4. o \in Names /\ NoVars[o] = Unset
    BY DEF NoVars, Names
  <2>5. stored.map[o] = on_line
    <3>1. CASE \E i \in DOMAIN words : words[i][1] = o
      <4> DEFINE i == CHOOSE i \in DOMAIN words : words[i][1] = o
      <4>1. i \in DOMAIN words /\ words[i][1] = o
        BY <3>1
      <4>2. Given(words, o) = words[i][2]
        BY <3>1 DEF Given
      <4> HIDE DEF i
      <4>3. stored.map[o] = words[i][2]
        BY <1>4, <2>1, <4>1 DEF Stores
      <4>4. Contains(flags, o)
        <5>1. Once(flags, o)
          BY <2>1, <4>1 DEF Recognized
        <5>2. DOMAIN flags = 1 .. Len(flags)
          BY DEF FlagInv
        <5> QED
          BY <5>1, <5>2 DEF Once, Contains
      <4> QED
        BY <2>3, <4>2, <4>3, <4>4
    <3>2. CASE ~\E i \in DOMAIN words : words[i][1] = o
      <4>1. stored.map[o] = IF o \in Defaulted /\ Contains(flags, o) THEN Default ELSE Unset
        BY <1>4, <2>1, <2>4, <3>2 DEF Stores
      <4>2. Given(words, o) = IF o \in Defaulted THEN Default ELSE Unset
        BY <3>2 DEF Given
      <4> QED
        BY <2>3, <4>1, <4>2
    <3> QED
      BY <3>1, <3>2
  <2> HIDE DEF on_line
  <2>6. /\ variables'[o] = IF on_line = Unset THEN variables[o] ELSE on_line
        /\ o \in Required /\ Contains(flags_, o) => on_line # Unset
    BY <2>1, <2>2, <2>3, <2>5
  <2> QED
    BY <2>6 DEF on_line
<1> QED
  BY <1>3, <1>5, <1>6 DEF ParsesAllOrNothing

(* A parse is all or nothing, whatever options and lines there are and     *)
(* whatever was parsed before.                                             *)
THEOREM ParseAllOrNothing == FlagSpec => ParseIsAllOrNothing
<1>1. FlagInv /\ [FlagNext]_flagVars => (parses' # parses => ParsesAllOrNothing)
  <2> SUFFICES ASSUME FlagInv, [FlagNext]_flagVars, parses' # parses
               PROVE  ParsesAllOrNothing
    OBVIOUS
  <2>1. parse
    BY DEF FlagNext, AddOption, flagVars
  <2> QED
    BY <2>1, ParseIsAtomic
<1>2. FlagSpec => []FlagInv
  BY FlagInitHolds, FlagStepHolds, PTL DEF FlagSpec
<1>3. [][parses' # parses => ParsesAllOrNothing]_flagVars => ParseIsAllOrNothing
  BY DEF ParseIsAllOrNothing, ParsesAllOrNothing
<1> QED
  BY <1>1, <1>2, <1>3, PTL DEF FlagSpec
-----------------------------------------------------------------------------
(* Arithmetic *)

(* The numbers to divide by.                                               *)
Pos == Nat \ {0}

(* Division with remainder.                                                *)
LEMMA DivMod ==
  ASSUME NEW a \in Nat, NEW b \in Pos
  PROVE  /\ a \div b \in Nat /\ a % b \in 0 .. b - 1
         /\ a = b * (a \div b) + (a % b)
BY DEF Pos

(* Products of natural numbers.                                            *)
LEMMA MulPos ==
  ASSUME NEW a \in Nat, NEW b \in Nat
  PROVE  /\ a * b \in Nat /\ a * b = b * a
         /\ a \in Pos /\ b \in Pos => a * b \in Pos
BY Z3 DEF Pos

(* Multiplication is monotonic.                                            *)
LEMMA MulMono ==
  ASSUME NEW a \in Nat, NEW b \in Nat, NEW c \in Nat, a <= b
  PROVE  c * a <= c * b
BY Z3

(* Multiplication by a positive number is strictly so.                     *)
LEMMA MulMonoStrict ==
  ASSUME NEW a \in Nat, NEW b \in Nat, NEW c \in Pos, a < b
  PROVE  c * a < c * b /\ c * a + c <= c * b
<1>1. a + 1 <= b
  OBVIOUS
<1>2. c * (a + 1) <= c * b
  BY <1>1, MulMono DEF Pos
<1>3. c * (a + 1) = c * a + c
  BY Z3 DEF Pos
<1> QED
  BY <1>2, <1>3 DEF Pos

(* A positive factor cancels.                                              *)
LEMMA MulCancel ==
  ASSUME NEW a \in Nat, NEW b \in Nat, NEW c \in Pos
  PROVE  /\ c * a = c * b => a = b
         /\ c * a <= c * b => a <= b
<1>1. a < b => c * a < c * b
  BY MulMonoStrict
<1>2. b < a => c * b < c * a
  BY MulMonoStrict
<1>3. c * a \in Nat /\ c * b \in Nat
  BY MulPos DEF Pos
<1> QED
  BY <1>1, <1>2, <1>3

(* Quotient and remainder are unique.                                      *)
LEMMA DivUnique ==
  ASSUME NEW b \in Pos, NEW q \in Nat, NEW r \in 0 .. b - 1
  PROVE  (b * q + r) \div b = q /\ (b * q + r) % b = r
BY DEF Pos

(* A remainder scales with its numbers.                                    *)
LEMMA ModScale ==
  ASSUME NEW a \in Nat, NEW b \in Pos, NEW k \in Pos
  PROVE  (k * a) % (k * b) = k * (a % b)
<1> DEFINE q == a \div b
           r == a % b
<1>1. q \in Nat /\ r \in 0 .. b - 1 /\ a = b * q + r
  BY DivMod
<1>2. k * b \in Pos
  BY MulPos DEF Pos
<1> HIDE DEF q, r
<1>3. k * r < k * b
  BY <1>1, MulMonoStrict DEF Pos
<1>4. k * a = (k * b) * q + k * r
  BY <1>1, Z3 DEF Pos
<1>5. k * r \in 0 .. k * b - 1
  BY <1>1, <1>3, MulPos DEF Pos
<1>6. ((k * b) * q + k * r) % (k * b) = k * r
  BY <1>1, <1>2, <1>5, DivUnique
<1> QED
  BY <1>4, <1>6 DEF r

-----------------------------------------------------------------------------
(* gcd *)

(* Euclid's algorithm for second arguments up to n, a recursion that       *)
(* surely ends.                                                            *)
GcdUpTo(f, n) ==
  f = [p \in Nat \X (0 .. n) |-> IF p[2] = 0 THEN p[1] ELSE f[<<p[2], p[1] % p[2]>>]]

(* It exists for every n, by induction.                                    *)
LEMMA GcdUpToExists == \A n \in Nat : \E f : GcdUpTo(f, n)
<1> DEFINE S == {n \in Nat : \E f : GcdUpTo(f, n)}
<1>1. 0 \in S
  <2> DEFINE f == [p \in Nat \X (0 .. 0) |-> p[1]]
  <2>1. \A p \in Nat \X (0 .. 0) :
          f[p] = IF p[2] = 0 THEN p[1] ELSE f[<<p[2], p[1] % p[2]>>]
    OBVIOUS
  <2>2. f = [p \in Nat \X (0 .. 0) |-> f[p]]
    OBVIOUS
  <2> HIDE DEF f
  <2>3. GcdUpTo(f, 0)
    BY <2>1, <2>2 DEF GcdUpTo
  <2> QED
    BY <2>3
<1>2. ASSUME NEW n \in Nat, NEW f, GcdUpTo(f, n)
      PROVE  \E g : GcdUpTo(g, n + 1)
  <2> DEFINE D == Nat \X (0 .. n + 1)
             g == [p \in D |-> IF p[2] = n + 1 THEN f[<<n + 1, p[1] % (n + 1)>>] ELSE f[p]]
             Eq(p) == IF p[2] = 0 THEN p[1] ELSE g[<<p[2], p[1] % p[2]>>]
  <2>1. \A p \in Nat \X (0 .. n) : g[p] = f[p]
    OBVIOUS
  <2>2. ASSUME NEW p \in D PROVE g[p] = Eq(p)
    <3>1. p[1] \in Nat /\ p[2] \in 0 .. n + 1 /\ p = <<p[1], p[2]>>
      OBVIOUS
    <3>2. p[2] # 0 => <<p[2], p[1] % p[2]>> \in Nat \X (0 .. n)
      <4> SUFFICES ASSUME p[2] # 0 PROVE p[1] % p[2] \in 0 .. n /\ p[2] \in Nat
        OBVIOUS
      <4>1. p[1] % p[2] \in 0 .. p[2] - 1
        <5>1. p[1] \in Nat /\ p[2] \in Pos
          BY <3>1 DEF Pos
        <5> QED
          BY <5>1, DivMod
      <4> QED
        BY <3>1, <4>1
    <3>3. CASE p[2] = n + 1
      <4>1. g[p] = f[<<n + 1, p[1] % (n + 1)>>]
        BY <3>3
      <4> QED
        BY <2>1, <3>2, <3>3, <4>1
    <3>4. CASE p[2] \in 0 .. n
      <4>1. p \in Nat \X (0 .. n)
        BY <3>1, <3>4
      <4>2. g[p] = f[p] /\ f[p] = IF p[2] = 0 THEN p[1] ELSE f[<<p[2], p[1] % p[2]>>]
        BY <1>2, <2>1, <4>1 DEF GcdUpTo
      <4> HIDE DEF g
      <4> QED
        BY <2>1, <3>2, <4>2
    <3> QED
      BY <3>1, <3>3, <3>4
  <2>3. g = [p \in D |-> g[p]]
    OBVIOUS
  <2> HIDE DEF g
  <2>4. GcdUpTo(g, n + 1)
    BY <2>2, <2>3 DEF GcdUpTo
  <2> QED
    BY <2>4
<1>3. \A n \in Nat : 0 .. n \subseteq S
  <2> SUFFICES ASSUME NEW n \in Nat PROVE 0 .. n \subseteq S
    OBVIOUS
  <2>1. \A i \in 0 .. n - 1 : i \in S => i + 1 \in S
    BY <1>2
  <2> HIDE DEF S
  <2> QED
    BY <1>1, <2>1, UpTo
<1> QED
  BY <1>3

(* Two of them agree where both are defined.                               *)
LEMMA GcdUpToAgree ==
  ASSUME NEW n \in Nat, NEW m \in Nat, NEW f, NEW g, GcdUpTo(f, n), GcdUpTo(g, m), n <= m
  PROVE  \A a \in Nat, b \in 0 .. n : f[<<a, b>>] = g[<<a, b>>]
<1> DEFINE S == {b \in Nat : b <= n => \A a \in Nat : f[<<a, b>>] = g[<<a, b>>]}
<1>1. ASSUME NEW b \in Nat, \A c \in 0 .. b - 1 : c \in S
      PROVE  b \in S
  <2> SUFFICES ASSUME b <= n, NEW a \in Nat PROVE f[<<a, b>>] = g[<<a, b>>]
    OBVIOUS
  <2>1. /\ f[<<a, b>>] = IF b = 0 THEN a ELSE f[<<b, a % b>>]
        /\ g[<<a, b>>] = IF b = 0 THEN a ELSE g[<<b, a % b>>]
    BY DEF GcdUpTo
  <2>2. CASE b = 0
    BY <2>1, <2>2
  <2>3. CASE b # 0
    <3>1. a % b \in 0 .. b - 1
      BY <2>3, DivMod DEF Pos
    <3>2. a % b \in S /\ a % b <= n
      BY <1>1, <3>1
    <3> QED
      BY <2>1, <2>3, <3>2
  <2> QED
    BY <2>2, <2>3
<1>2. Nat \subseteq S
  <2> HIDE DEF S
  <2> QED
    BY <1>1, AllNumbers
<1> QED
  BY <1>2

(* Euclid's algorithm ends: gcd is a function that satisfies its equation. *)
LEMMA GcdEquation ==
  \A a, b \in Nat : gcd[<<a, b>>] = IF b = 0 THEN a ELSE gcd[<<b, a % b>>]
<1> DEFINE Upto(n) == CHOOSE f : GcdUpTo(f, n)
           G == [p \in Nat \X Nat |-> Upto(p[2])[p]]
           Is(f) == f = [p \in Nat \X Nat |-> IF p[2] = 0 THEN p[1] ELSE f[<<p[2], p[1] % p[2]>>]]
<1>1. ASSUME NEW n \in Nat PROVE GcdUpTo(Upto(n), n)
  <2>1. \E f : GcdUpTo(f, n)
    BY GcdUpToExists
  <2> QED
    BY <2>1, Zenon
<1> HIDE DEF Upto
<1>2. ASSUME NEW a \in Nat, NEW b \in Nat
      PROVE  G[<<a, b>>] = IF b = 0 THEN a ELSE G[<<b, a % b>>]
  <2>1. G[<<a, b>>] = Upto(b)[<<a, b>>]
    OBVIOUS
  <2>2. Upto(b)[<<a, b>>] = IF b = 0 THEN a ELSE Upto(b)[<<b, a % b>>]
    <3>1. PICK h : h = Upto(b)
      OBVIOUS
    <3>2. GcdUpTo(h, b)
      BY <1>1, <3>1
    <3>3. h[<<a, b>>] = IF b = 0 THEN a ELSE h[<<b, a % b>>]
      BY <3>2 DEF GcdUpTo
    <3> QED
      BY <3>1, <3>3
  <2>3. CASE b # 0
    <3>1. a % b \in 0 .. b - 1
      BY <2>3, DivMod DEF Pos
    <3>2. a % b \in Nat /\ a % b \in 0 .. a % b /\ a % b <= b
      BY <3>1
    <3>3. G[<<b, a % b>>] = Upto(a % b)[<<b, a % b>>]
      BY <3>2
    <3>4. Upto(a % b)[<<b, a % b>>] = Upto(b)[<<b, a % b>>]
      BY <1>1, <3>2, GcdUpToAgree
    <3> QED
      BY <2>1, <2>2, <2>3, <3>3, <3>4
  <2> QED
    BY <2>1, <2>2, <2>3
<1>3. Is(G)
  <2>1. G = [p \in Nat \X Nat |-> G[p]]
    OBVIOUS
  <2>2. ASSUME NEW p \in Nat \X Nat
        PROVE  G[p] = IF p[2] = 0 THEN p[1] ELSE G[<<p[2], p[1] % p[2]>>]
    <3>1. p[1] \in Nat /\ p[2] \in Nat /\ p = <<p[1], p[2]>>
      OBVIOUS
    <3> HIDE DEF G
    <3> QED
      BY <1>2, <3>1
  <2> HIDE DEF G
  <2> QED
    BY <2>1, <2>2
<1>4. Is(gcd)
  <2>1. gcd = CHOOSE f : Is(f)
    BY DEF gcd
  <2>2. \E f : Is(f)
    BY <1>3
  <2> HIDE DEF Is
  <2> QED
    BY <2>1, <2>2, Zenon
<1> QED
  BY <1>4

(* gcd divides both of its arguments, and scales with them.                *)
LEMMA GcdDivides ==
  \A b \in Nat : \A a \in Nat :
    /\ gcd[<<a, b>>] \in Nat
    /\ a # 0 \/ b # 0 => gcd[<<a, b>>] # 0
    /\ \E q \in Nat : a = gcd[<<a, b>>] * q
    /\ \E q \in Nat : b = gcd[<<a, b>>] * q
<1> DEFINE Fact(a, b) ==
             /\ gcd[<<a, b>>] \in Nat
             /\ a # 0 \/ b # 0 => gcd[<<a, b>>] # 0
             /\ \E q \in Nat : a = gcd[<<a, b>>] * q
             /\ \E q \in Nat : b = gcd[<<a, b>>] * q
           S == {b \in Nat : \A a \in Nat : Fact(a, b)}
<1>1. ASSUME NEW b \in Nat, \A c \in 0 .. b - 1 : c \in S
      PROVE  b \in S
  <2> SUFFICES ASSUME NEW a \in Nat PROVE Fact(a, b)
    OBVIOUS
  <2> DEFINE g == gcd[<<a, b>>]
  <2>1. CASE b = 0
    <3>1. g = a
      BY <2>1, GcdEquation
    <3>2. a = a * 1 /\ b = a * 0
      BY <2>1
    <3> QED
      BY <2>1, <3>1, <3>2
  <2>2. CASE b # 0
    <3> DEFINE c == a % b
               d == a \div b
    <3>1. g = gcd[<<b, c>>]
      BY <2>2, GcdEquation
    <3>2. c \in 0 .. b - 1 /\ d \in Nat /\ a = b * d + c
      BY <2>2, DivMod DEF Pos
    <3>3. Fact(b, c)
      BY <1>1, <3>2
    <3>4. PICK q \in Nat, r \in Nat : b = g * q /\ c = g * r
      BY <3>1, <3>3
    <3>5. g \in Nat /\ g # 0
      BY <2>2, <3>1, <3>3
    <3> HIDE DEF g, c, d
    <3>6. q * d \in Nat
      BY <3>2, MulPos
    <3>7. a = g * (q * d + r)
      BY <3>2, <3>4, <3>5, Z3
    <3> QED
      BY <3>4, <3>5, <3>6, <3>7 DEF g
  <2> QED
    BY <2>1, <2>2
<1>2. Nat \subseteq S
  <2> HIDE DEF S
  <2> QED
    BY <1>1, AllNumbers
<1> QED
  BY <1>2

(* gcd scales with its arguments.                                          *)
LEMMA GcdScales ==
  ASSUME NEW k \in Pos
  PROVE  \A b \in Nat : \A a \in Nat : gcd[<<k * a, k * b>>] = k * gcd[<<a, b>>]
<1> DEFINE S == {b \in Nat : \A a \in Nat : gcd[<<k * a, k * b>>] = k * gcd[<<a, b>>]}
<1>1. ASSUME NEW b \in Nat, \A c \in 0 .. b - 1 : c \in S
      PROVE  b \in S
  <2> SUFFICES ASSUME NEW a \in Nat PROVE gcd[<<k * a, k * b>>] = k * gcd[<<a, b>>]
    OBVIOUS
  <2>1. k * a \in Nat /\ k * b \in Nat /\ (b # 0 => k * b # 0)
    BY MulPos DEF Pos
  <2>2. CASE b = 0
    <3>1. k * b = 0
      BY <2>2 DEF Pos
    <3> QED
      BY <2>1, <2>2, <3>1, GcdEquation
  <2>3. CASE b # 0
    <3>1. gcd[<<k * a, k * b>>] = gcd[<<k * b, (k * a) % (k * b)>>]
      BY <2>1, <2>3, GcdEquation
    <3>2. (k * a) % (k * b) = k * (a % b)
      BY <2>3, ModScale DEF Pos
    <3>3. a % b \in 0 .. b - 1
      BY <2>3, DivMod DEF Pos
    <3>4. gcd[<<k * b, k * (a % b)>>] = k * gcd[<<b, a % b>>]
      BY <1>1, <3>3
    <3>5. gcd[<<a, b>>] = gcd[<<b, a % b>>]
      BY <2>3, GcdEquation
    <3> QED
      BY <3>1, <3>2, <3>4, <3>5
  <2> QED
    BY <2>2, <2>3
<1>2. Nat \subseteq S
  <2> HIDE DEF S
  <2> QED
    BY <1>1, AllNumbers
<1> QED
  BY <1>2

-----------------------------------------------------------------------------
(* Exact numbers in lowest terms *)

(* Numerators and denominators.                                            *)
Rationals == [a : Nat, b : Pos]

(* A number over its lowest terms is a common factor.                      *)
LEMMA LowestTerms ==
  ASSUME NEW a \in Nat, NEW b \in Pos
  PROVE  /\ Lowest(a, b) \in Rationals
         /\ \E g \in Pos : a = g * Lowest(a, b).a /\ b = g * Lowest(a, b).b
<1> DEFINE g == gcd[<<a, b>>]
<1>1. b \in Nat /\ b # 0
  BY DEF Pos
<1>2. g \in Pos /\ (\E q \in Nat : a = g * q) /\ (\E r \in Nat : b = g * r)
  BY <1>1, GcdDivides DEF Pos
<1>3. PICK q \in Nat, r \in Nat : a = g * q /\ b = g * r
  BY <1>1, GcdDivides
<1> HIDE DEF g
<1>4. r # 0
  BY <1>1, <1>2, <1>3 DEF Pos
<1>5. a \div g = q /\ b \div g = r
  <2>1. 0 \in 0 .. g - 1
    BY <1>2 DEF Pos
  <2>2. (g * q + 0) \div g = q /\ (g * r + 0) \div g = r
    BY <1>2, <2>1, DivUnique
  <2>3. g * q + 0 = a /\ g * r + 0 = b
    BY <1>1, <1>3
  <2> QED
    BY <2>2, <2>3
<1>6. Lowest(a, b) = [a |-> q, b |-> r]
  BY <1>5 DEF Lowest, g
<1>7. Lowest(a, b).a = q /\ Lowest(a, b).b = r /\ Lowest(a, b) \in Rationals
  BY <1>4, <1>6 DEF Rationals, Pos
<1> QED
  BY <1>2, <1>3, <1>7

(* A common factor does not matter.                                        *)
LEMMA LowestScales ==
  ASSUME NEW a \in Nat, NEW b \in Pos, NEW k \in Pos
  PROVE  Lowest(k * a, k * b) = Lowest(a, b)
<1> DEFINE g == gcd[<<a, b>>]
<1>1. gcd[<<k * a, k * b>>] = k * g
  BY GcdScales DEF Pos
<1>2. g \in Pos
  BY GcdDivides DEF Pos
<1>3. PICK q \in Nat, r \in Nat : a = g * q /\ b = g * r
  BY GcdDivides DEF Pos
<1> HIDE DEF g
<1>4. k * g \in Pos
  BY <1>2, MulPos DEF Pos
<1>5. \A x \in Nat, h \in Pos : (h * x) \div h = x
  <2> SUFFICES ASSUME NEW x \in Nat, NEW h \in Pos PROVE (h * x) \div h = x
    OBVIOUS
  <2>1. 0 \in 0 .. h - 1 /\ h * x \in Nat
    BY MulPos DEF Pos
  <2>2. (h * x + 0) \div h = x
    BY <2>1, DivUnique
  <2> QED
    BY <2>1, <2>2
<1>6. k * a = (k * g) * q /\ k * b = (k * g) * r
  BY <1>2, <1>3, Z3 DEF Pos
<1>7. a \div g = q /\ b \div g = r
  BY <1>2, <1>3, <1>5
<1>8. (k * a) \div (k * g) = q /\ (k * b) \div (k * g) = r
  BY <1>4, <1>5, <1>6
<1> QED
  BY <1>1, <1>7, <1>8 DEF Lowest, g

(* The product of two numbers, whatever terms they were given in.          *)
LEMMA MultLowest ==
  ASSUME NEW a \in Nat, NEW b \in Pos, NEW c \in Nat, NEW d \in Pos
  PROVE  Mult(Lowest(a, b), Lowest(c, d)) = Lowest(a * c, b * d)
<1> DEFINE p == Lowest(a, b)
           q == Lowest(c, d)
<1>1. p \in Rationals /\ q \in Rationals
  BY LowestTerms
<1>2. PICK g \in Pos : a = g * p.a /\ b = g * p.b
  BY LowestTerms
<1>3. PICK h \in Pos : c = h * q.a /\ d = h * q.b
  BY LowestTerms
<1>4. Mult(p, q) = Lowest(p.a * q.a, p.b * q.b)
  BY DEF Mult
<1> HIDE DEF p, q
<1>5. /\ g * h \in Pos /\ p.a * q.a \in Nat /\ p.b * q.b \in Pos
  BY <1>1, MulPos DEF Rationals, Pos
<1>6. /\ a * c = (g * h) * (p.a * q.a)
      /\ b * d = (g * h) * (p.b * q.b)
  <2>1. p.a \in Nat /\ q.a \in Nat /\ p.b \in Nat /\ q.b \in Nat /\ g \in Nat /\ h \in Nat
    BY <1>1 DEF Rationals, Pos
  <2> QED
    BY <1>2, <1>3, <2>1, Z3
<1>7. Lowest((g * h) * (p.a * q.a), (g * h) * (p.b * q.b)) = Lowest(p.a * q.a, p.b * q.b)
  BY <1>5, LowestScales
<1> QED
  BY <1>4, <1>6, <1>7 DEF p, q

(* A number divided by d, whatever terms it was given in.                  *)
LEMMA LowestOver ==
  ASSUME NEW a \in Nat, NEW b \in Pos, NEW d \in Pos
  PROVE  Lowest(Lowest(a, b).a, Lowest(a, b).b * d) = Lowest(a, b * d)
<1> DEFINE p == Lowest(a, b)
<1>1. PICK g \in Pos : a = g * p.a /\ b = g * p.b
  BY LowestTerms
<1>2. p.a \in Nat /\ p.b \in Pos
  BY LowestTerms DEF Rationals
<1> HIDE DEF p
<1>3. p.b * d \in Pos
  BY <1>2, MulPos DEF Pos
<1>4. b * d = g * (p.b * d)
  BY <1>1, <1>2, Z3 DEF Pos
<1>5. Lowest(g * p.a, g * (p.b * d)) = Lowest(p.a, p.b * d)
  BY <1>2, <1>3, LowestScales
<1> QED
  BY <1>1, <1>4, <1>5 DEF p

(* What a number is at most, whatever terms it was given in.               *)
LEMMA LowestAtMost ==
  ASSUME NEW a \in Nat, NEW b \in Pos, NEW d \in Nat
  PROVE  Lowest(a, b).a <= d * Lowest(a, b).b <=> a <= d * b
<1> DEFINE p == Lowest(a, b)
<1>1. PICK g \in Pos : a = g * p.a /\ b = g * p.b
  BY LowestTerms
<1>2. p.a \in Nat /\ p.b \in Pos
  BY LowestTerms DEF Rationals
<1> HIDE DEF p
<1>3. d * p.b \in Nat
  BY <1>2, MulPos DEF Pos
<1>4. d * b = g * (d * p.b)
  BY <1>1, <1>2, Z3 DEF Pos
<1>5. g * p.a <= g * (d * p.b) <=> p.a <= d * p.b
  BY <1>2, <1>3, MulCancel, MulMono DEF Pos
<1> QED
  BY <1>1, <1>4, <1>5 DEF p

(* 1 less a number, whatever terms it was given in.                        *)
LEMMA LessLowest ==
  ASSUME NEW a \in Nat, NEW b \in Pos, a <= b
  PROVE  Less(Lowest(a, b)) = Lowest(b - a, b)
<1> DEFINE p == Lowest(a, b)
<1>1. PICK g \in Pos : a = g * p.a /\ b = g * p.b
  BY LowestTerms
<1>2. p.a \in Nat /\ p.b \in Pos
  BY LowestTerms DEF Rationals
<1>3. p.a <= 1 * p.b
  BY LowestAtMost DEF Pos
<1>4. Less(p) = Lowest(p.b - p.a, p.b)
  BY DEF Less
<1> HIDE DEF p
<1>5. p.b - p.a \in Nat
  BY <1>2, <1>3 DEF Pos
<1>6. b - a = g * (p.b - p.a)
  BY <1>1, <1>2, Z3 DEF Pos
<1>7. Lowest(g * (p.b - p.a), g * p.b) = Lowest(p.b - p.a, p.b)
  BY <1>2, <1>5, LowestScales
<1> QED
  BY <1>1, <1>4, <1>6, <1>7 DEF p

(* A whole number is in lowest terms.                                      *)
LEMMA LowestOne == \A p \in Rationals : p.b = 1 => Lowest(p.a, 1) = [a |-> p.a, b |-> 1]
<1> SUFFICES ASSUME NEW a \in Nat PROVE Lowest(a, 1) = [a |-> a, b |-> 1]
  BY DEF Rationals
<1>1. a % 1 = 0 /\ a \div 1 = a /\ 1 \div 1 = 1
  OBVIOUS
<1>2. gcd[<<a, 1>>] = gcd[<<1, a % 1>>]
  <2>1. 1 \in Nat /\ 1 # 0
    OBVIOUS
  <2> QED
    BY <2>1, GcdEquation
<1>3. gcd[<<1, 0>>] = 1
  <2>1. 1 \in Nat /\ 0 \in Nat
    OBVIOUS
  <2> QED
    BY <2>1, GcdEquation
<1> QED
  BY <1>1, <1>2, <1>3 DEF Lowest

(* The numbers in lowest terms.                                            *)
Numbers == {Lowest(a, b) : a \in Nat, b \in Pos}

(* A number in lowest terms stays as it is.                                *)
LEMMA NumberTerms ==
  ASSUME NEW p \in Numbers
  PROVE  p \in Rationals /\ p = Lowest(p.a, p.b)
<1>1. PICK a \in Nat, b \in Pos : p = Lowest(a, b)
  BY DEF Numbers
<1>2. p \in Rationals
  BY <1>1, LowestTerms
<1>3. PICK g \in Pos : a = g * p.a /\ b = g * p.b
  BY <1>1, LowestTerms
<1>4. Lowest(g * p.a, g * p.b) = Lowest(p.a, p.b)
  BY <1>2, LowestScales DEF Rationals
<1> QED
  BY <1>1, <1>2, <1>3, <1>4

(* Multiplication of numbers commutes, also with a third one.              *)
LEMMA MultSwap ==
  ASSUME NEW p \in Numbers, NEW x \in Numbers, NEW y \in Numbers
  PROVE  /\ Mult(p, x) \in Numbers
         /\ Mult(p, Mult(x, y)) = Mult(x, Mult(p, y))
         /\ Mult(p, x) = Mult(x, p)
         /\ Mult(Mult(p, x), y) = Mult(y, Mult(p, x))
<1>1. PICK a \in Nat, b \in Pos : p = Lowest(a, b)
  BY DEF Numbers
<1>2. PICK c \in Nat, d \in Pos : x = Lowest(c, d)
  BY DEF Numbers
<1>3. PICK e \in Nat, f \in Pos : y = Lowest(e, f)
  BY DEF Numbers
<1>4. \A m, n \in Nat : m * n \in Nat /\ m * n = n * m /\ (m \in Pos /\ n \in Pos => m * n \in Pos)
  BY MulPos
<1>5. b \in Nat /\ d \in Nat /\ f \in Nat
  BY DEF Pos
<1>6. Mult(p, x) = Lowest(a * c, b * d) /\ Mult(x, y) = Lowest(c * e, d * f) /\ Mult(p, y) = Lowest(a * e, b * f)
      /\ Mult(x, p) = Lowest(c * a, d * b)
  BY <1>1, <1>2, <1>3, MultLowest
<1>7. /\ Mult(p, Mult(x, y)) = Lowest(a * (c * e), b * (d * f))
      /\ Mult(x, Mult(p, y)) = Lowest(c * (a * e), d * (b * f))
      /\ Mult(Mult(p, x), y) = Lowest((a * c) * e, (b * d) * f)
      /\ Mult(y, Mult(p, x)) = Lowest(e * (a * c), f * (b * d))
  <2>1. /\ c * e \in Nat /\ d * f \in Pos /\ a * e \in Nat /\ b * f \in Pos /\ a * c \in Nat /\ b * d \in Pos
    BY <1>4, <1>5
  <2> QED
    BY <1>1, <1>2, <1>3, <1>6, <2>1, MultLowest
<1>8. /\ a * (c * e) = c * (a * e) /\ b * (d * f) = d * (b * f)
      /\ (a * c) * e = e * (a * c) /\ (b * d) * f = f * (b * d)
      /\ a * c = c * a /\ b * d = d * b
  BY <1>5, Z3
<1>9. Mult(p, x) \in Numbers
  <2>1. a * c \in Nat /\ b * d \in Pos
    BY <1>4, <1>5
  <2> QED
    BY <1>6, <2>1 DEF Numbers
<1> QED
  BY <1>6, <1>7, <1>8, <1>9

(* One is neutral.                                                         *)
LEMMA MultOne ==
  /\ Whole(1) \in Numbers
  /\ \A p \in Numbers : Mult(p, Whole(1)) = p
<1>1. Whole(1) = Lowest(1, 1)
  <2>1. [a |-> 1, b |-> 1] \in Rationals
    BY DEF Rationals, Pos
  <2> QED
    BY <2>1, LowestOne DEF Whole
<1>2. Whole(1) \in Numbers
  BY <1>1 DEF Numbers, Pos
<1>3. ASSUME NEW p \in Numbers PROVE Mult(p, Whole(1)) = p
  <2>1. PICK a \in Nat, b \in Pos : p = Lowest(a, b)
    BY DEF Numbers
  <2>2. Mult(p, Whole(1)) = Lowest(a * 1, b * 1)
    BY <1>1, <2>1, MultLowest DEF Pos
  <2>3. a * 1 = a /\ b * 1 = b
    BY DEF Pos
  <2> QED
    BY <2>1, <2>2, <2>3
<1> QED
  BY <1>2, <1>3

-----------------------------------------------------------------------------
(* Powers of numbers *)

(* The recursive function of ToThe.                                        *)
PowersUpTo(f, p, n) ==
  f = [i \in 0 .. n |-> IF i = 0 THEN Whole(1) ELSE Mult(p, f[i - 1])]

(* The recursive function of ToThe exists for every n, by induction.       *)
LEMMA PowersExist == \A p : \A n \in Nat : \E f : PowersUpTo(f, p, n)
<1> SUFFICES ASSUME NEW p PROVE \A n \in Nat : \E f : PowersUpTo(f, p, n)
  OBVIOUS
<1> DEFINE S == {n \in Nat : \E f : PowersUpTo(f, p, n)}
<1>1. 0 \in S
  <2> DEFINE f == [i \in 0 .. 0 |-> Whole(1)]
  <2>1. f = [i \in 0 .. 0 |-> IF i = 0 THEN Whole(1) ELSE Mult(p, f[i - 1])]
    OBVIOUS
  <2> HIDE DEF f
  <2>2. PowersUpTo(f, p, 0)
    BY <2>1 DEF PowersUpTo
  <2> QED
    BY <2>2
<1>2. ASSUME NEW n \in Nat, NEW f, PowersUpTo(f, p, n)
      PROVE  \E g : PowersUpTo(g, p, n + 1)
  <2> DEFINE g == [i \in 0 .. n + 1 |-> IF i = n + 1 THEN Mult(p, f[n]) ELSE f[i]]
  <2>1. \A i \in 0 .. n : g[i] = f[i]
    OBVIOUS
  <2>2. ASSUME NEW i \in 0 .. n + 1
        PROVE  g[i] = IF i = 0 THEN Whole(1) ELSE Mult(p, g[i - 1])
    <3>1. CASE i = n + 1
      <4>1. g[i] = Mult(p, f[n]) /\ i - 1 = n /\ i # 0
        BY <3>1
      <4>2. g[i - 1] = f[n]
        BY <2>1, <4>1
      <4> QED
        BY <4>1, <4>2
    <3>2. CASE i \in 0 .. n
      <4>1. f[i] = IF i = 0 THEN Whole(1) ELSE Mult(p, f[i - 1])
        BY <1>2, <3>2 DEF PowersUpTo
      <4>2. i # 0 => i - 1 \in 0 .. n
        BY <3>2
      <4> HIDE DEF g
      <4> QED
        BY <2>1, <3>2, <4>1, <4>2
    <3> QED
      BY <3>1, <3>2
  <2>3. g = [i \in 0 .. n + 1 |-> g[i]]
    OBVIOUS
  <2> HIDE DEF g
  <2>4. PowersUpTo(g, p, n + 1)
    BY <2>2, <2>3 DEF PowersUpTo
  <2> QED
    BY <2>4
<1>3. ASSUME NEW n \in Nat PROVE n \in S
  <2>1. \A i \in 0 .. n - 1 : i \in S => i + 1 \in S
    BY <1>2
  <2> HIDE DEF S
  <2>2. 0 .. n \subseteq S
    BY <1>1, <2>1, UpTo
  <2> QED
    BY <2>2
<1> QED
  BY <1>3

(* Two of them agree where both are defined.                               *)
LEMMA PowersAgree ==
  ASSUME NEW p, NEW n \in Nat, NEW f, NEW g, PowersUpTo(f, p, n), PowersUpTo(g, p, n + 1)
  PROVE  f[n] = g[n]
<1> DEFINE S == {i \in 0 .. n : f[i] = g[i]}
<1>1. 0 \in S
  BY DEF PowersUpTo
<1>2. ASSUME NEW i \in 0 .. n - 1, f[i] = g[i] PROVE f[i + 1] = g[i + 1]
  <2>1. i + 1 \in 0 .. n /\ i + 1 \in 0 .. n + 1 /\ i + 1 # 0 /\ (i + 1) - 1 = i
    OBVIOUS
  <2>2. f[i + 1] = Mult(p, f[i])
    BY <2>1 DEF PowersUpTo
  <2>3. g[i + 1] = Mult(p, g[i])
    BY <2>1 DEF PowersUpTo
  <2> QED
    BY <1>2, <2>2, <2>3
<1>3. 0 .. n \subseteq S
  <2>1. \A i \in 0 .. n - 1 : i \in S => i + 1 \in S
    BY <1>2
  <2> HIDE DEF S
  <2> QED
    BY <1>1, <2>1, UpTo
<1> QED
  BY <1>3

(* ToThe satisfies its recursion.                                          *)
LEMMA ToTheSteps ==
  ASSUME NEW p, NEW n \in Nat
  PROVE  ToThe(p, 0) = Whole(1) /\ ToThe(p, n + 1) = Mult(p, ToThe(p, n))
<1> DEFINE power(m) == CHOOSE f : PowersUpTo(f, p, m)
<1>1. ASSUME NEW m \in Nat PROVE ToThe(p, m) = power(m)[m] /\ PowersUpTo(power(m), p, m)
  <2>1. \E f : PowersUpTo(f, p, m)
    BY PowersExist
  <2>2. PowersUpTo(power(m), p, m)
    BY <2>1, Zenon
  <2>3. ToThe(p, m) = power(m)[m]
    BY DEF ToThe, PowersUpTo
  <2> QED
    BY <2>2, <2>3
<1> HIDE DEF power
<1>2. ToThe(p, 0) = Whole(1)
  <2>1. PICK f : f = power(0)
    OBVIOUS
  <2>2. PowersUpTo(f, p, 0) /\ ToThe(p, 0) = f[0]
    BY <1>1, <2>1
  <2> QED
    BY <2>2 DEF PowersUpTo
<1>3. ToThe(p, n + 1) = Mult(p, ToThe(p, n))
  <2>1. PICK f, g : f = power(n) /\ g = power(n + 1)
    OBVIOUS
  <2>2. /\ PowersUpTo(f, p, n) /\ ToThe(p, n) = f[n]
        /\ PowersUpTo(g, p, n + 1) /\ ToThe(p, n + 1) = g[n + 1]
    BY <1>1, <2>1
  <2>3. f[n] = g[n]
    BY <2>2, PowersAgree
  <2>4. n + 1 \in 0 .. n + 1 /\ n + 1 # 0 /\ (n + 1) - 1 = n
    OBVIOUS
  <2>5. g[n + 1] = Mult(p, g[n])
    BY <2>2, <2>4 DEF PowersUpTo
  <2> QED
    BY <2>2, <2>3, <2>5
<1> QED
  BY <1>2, <1>3

(* A power of a number is one.                                             *)
LEMMA ToTheIsNumber == \A p \in Numbers : \A n \in Nat : ToThe(p, n) \in Numbers
<1> SUFFICES ASSUME NEW p \in Numbers PROVE \A n \in Nat : ToThe(p, n) \in Numbers
  OBVIOUS
<1> DEFINE S == {n \in Nat : ToThe(p, n) \in Numbers}
<1>1. 0 \in S
  BY ToTheSteps, MultOne
<1>2. \A n \in Nat : n \in S => n + 1 \in S
  BY ToTheSteps, MultSwap
<1>3. ASSUME NEW n \in Nat PROVE n \in S
  <2> HIDE DEF S
  <2>1. 0 .. n \subseteq S
    BY <1>1, <1>2, UpTo
  <2> QED
    BY <2>1
<1> QED
  BY <1>3

(* The product of two powers is the power of the sum.                      *)
LEMMA ToTheSum ==
  ASSUME NEW p \in Numbers, NEW m \in Nat
  PROVE  \A n \in Nat : ToThe(p, m + n) = Mult(ToThe(p, m), ToThe(p, n))
<1> DEFINE S == {n \in Nat : ToThe(p, m + n) = Mult(ToThe(p, m), ToThe(p, n))}
<1>1. 0 \in S
  <2>1. m + 0 = m /\ ToThe(p, m) \in Numbers /\ ToThe(p, 0) = Whole(1)
    BY ToTheSteps, ToTheIsNumber
  <2> QED
    BY <2>1, MultOne
<1>2. ASSUME NEW n \in Nat, n \in S PROVE n + 1 \in S
  <2>1. m + (n + 1) = (m + n) + 1 /\ m + n \in Nat
    OBVIOUS
  <2>2. ToThe(p, m + (n + 1)) = Mult(p, ToThe(p, m + n))
    BY <2>1, ToTheSteps
  <2>3. ToThe(p, m + n) = Mult(ToThe(p, m), ToThe(p, n))
    BY <1>2
  <2>4. ToThe(p, m) \in Numbers /\ ToThe(p, n) \in Numbers
    BY ToTheIsNumber
  <2>5. Mult(p, Mult(ToThe(p, m), ToThe(p, n))) = Mult(ToThe(p, m), Mult(p, ToThe(p, n)))
    BY <2>4, MultSwap
  <2>6. Mult(p, ToThe(p, n)) = ToThe(p, n + 1)
    BY ToTheSteps
  <2> QED
    BY <2>2, <2>3, <2>5, <2>6
<1>3. ASSUME NEW n \in Nat PROVE n \in S
  <2>1. \A i \in 0 .. n - 1 : i \in S => i + 1 \in S
    BY <1>2
  <2> HIDE DEF S
  <2>2. 0 .. n \subseteq S
    BY <1>1, <2>1, UpTo
  <2> QED
    BY <2>2
<1> QED
  BY <1>3

-----------------------------------------------------------------------------
(* Fractions *)

(* A fraction in which nothing was cut is exact as far as it goes.         *)
Fitting(f) ==
  /\ f \in [num : Rationals, denom : Pos, cut : {FALSE}, failed : {FALSE}]
  /\ f.num.a <= f.denom * f.num.b

(* A fraction on whose way a product of denominators was cut.              *)
HasCut(f) == \E n, d : \E x \in BOOLEAN : f = [num |-> n, denom |-> d, cut |-> TRUE, failed |-> x]

(* What a fraction may be: a failed one has been cut before.               *)
Sound(f) == Fitting(f) \/ HasCut(f)

(* A proper numerator and denominator make a fraction that is exact.       *)
LEMMA FractionFits ==
  ASSUME NEW num \in Rationals, NEW denom \in Pos, num.a <= denom * num.b
  PROVE  LET f == FractionOf(num, denom, FALSE, FALSE)
         IN  Fitting(f) /\ f.num = num /\ f.denom = denom
<1> DEFINE f == FractionOf(num, denom, FALSE, FALSE)
<1>1. num.a \in Nat /\ denom * num.b \in Nat
  BY MulPos DEF Rationals, Pos
<1>2. ~(num.a > denom * num.b)
  BY <1>1
<1>3. f = [num |-> num, denom |-> denom, cut |-> FALSE, failed |-> FALSE]
  BY <1>2 DEF FractionOf
<1> HIDE DEF f
<1>4. Fitting(f) /\ f.num = num /\ f.denom = denom
  BY <1>3 DEF Fitting
<1> QED
  BY <1>4 DEF f

(* What was cut stays so.                                                  *)
LEMMA FractionCut ==
  ASSUME NEW num, NEW denom, NEW failed \in BOOLEAN
  PROVE  HasCut(FractionOf(num, denom, TRUE, failed))
<1>1. (failed \/ num.a > denom * num.b) \in BOOLEAN
  OBVIOUS
<1> QED
  BY <1>1 DEF FractionOf, HasCut

(* The value of an exact fraction is a number up to 1.                     *)
LEMMA ValueIsNumber ==
  ASSUME NEW f, Fitting(f)
  PROVE  /\ f.num.b * f.denom \in Pos
         /\ Value(f) \in Numbers
         /\ Value(f) = Lowest(f.num.a, f.num.b * f.denom)
         /\ Value(f).a <= Value(f).b
<1>1. /\ f.num.a \in Nat /\ f.num.b \in Pos /\ f.denom \in Pos
      /\ f.num.a <= f.denom * f.num.b
  BY DEF Fitting, Rationals
<1>2. f.num.b * f.denom \in Pos /\ f.num.b * f.denom = f.denom * f.num.b
  BY <1>1, MulPos DEF Pos
<1>3. Value(f) = Lowest(f.num.a, f.num.b * f.denom)
  BY DEF Value
<1>4. Value(f) \in Rationals
  BY <1>1, <1>2, <1>3, LowestTerms
<1>5. f.num.a <= 1 * (f.num.b * f.denom)
  BY <1>1, <1>2 DEF Pos
<1>6. Value(f).a <= 1 * Value(f).b
  BY <1>1, <1>2, <1>3, <1>5, LowestAtMost DEF Pos
<1>7. Value(f).a <= Value(f).b
  BY <1>4, <1>6 DEF Rationals, Pos
<1> QED
  BY <1>1, <1>2, <1>3, <1>7 DEF Numbers

(* a / b times c / d as a numerator c * a / b over d. *)
LEMMA ProductValue ==
  ASSUME NEW p \in Rationals, NEW q \in Rationals, NEW d \in Pos, NEW e \in Pos
  PROVE  LET num == Mult(p, q)
         IN  /\ num \in Rationals
             /\ Lowest(num.a, num.b * (d * e)) = Mult(Lowest(p.a, p.b * d), Lowest(q.a, q.b * e))
             /\ p.a <= d * p.b /\ q.a <= e * q.b => num.a <= (d * e) * num.b
<1> DEFINE num == Mult(p, q)
<1>1. p.a \in Nat /\ p.b \in Pos /\ q.a \in Nat /\ q.b \in Pos
  BY DEF Rationals
<1>2. /\ p.a * q.a \in Nat /\ p.b * q.b \in Pos /\ d * e \in Pos
      /\ p.b * d \in Pos /\ q.b * e \in Pos
      /\ d * p.b \in Nat /\ e * q.b \in Nat /\ (d * e) * (p.b * q.b) \in Nat
  BY <1>1, MulPos DEF Pos
<1>3. num = Lowest(p.a * q.a, p.b * q.b)
  BY DEF Mult
<1>4. num \in Rationals
  BY <1>2, <1>3, LowestTerms
<1>5. Lowest(num.a, num.b * (d * e)) = Lowest(p.a * q.a, (p.b * q.b) * (d * e))
  BY <1>2, <1>3, LowestOver
<1>6. Mult(Lowest(p.a, p.b * d), Lowest(q.a, q.b * e)) = Lowest(p.a * q.a, (p.b * d) * (q.b * e))
  <2>1. \A a \in Nat, b \in Pos, c \in Nat, x \in Pos :
          Mult(Lowest(a, b), Lowest(c, x)) = Lowest(a * c, b * x)
    BY MultLowest
  <2>2. PICK b \in Pos : b = p.b * d
    BY <1>2
  <2>3. PICK x \in Pos : x = q.b * e
    BY <1>2
  <2>4. Mult(Lowest(p.a, b), Lowest(q.a, x)) = Lowest(p.a * q.a, b * x)
    BY <1>1, <2>1
  <2> QED
    BY <2>2, <2>3, <2>4
<1>7. (p.b * d) * (q.b * e) = (p.b * q.b) * (d * e)
  BY <1>1, Z3 DEF Pos
<1>8. ASSUME p.a <= d * p.b, q.a <= e * q.b PROVE num.a <= (d * e) * num.b
  <2>1. q.a * p.a <= q.a * (d * p.b)
    BY <1>1, <1>2, <1>8, MulMono
  <2>2. (d * p.b) * q.a <= (d * p.b) * (e * q.b)
    BY <1>1, <1>2, <1>8, MulMono
  <2>3. /\ q.a * p.a = p.a * q.a /\ q.a * (d * p.b) = (d * p.b) * q.a
        /\ (d * p.b) * (e * q.b) = (d * e) * (p.b * q.b)
    BY <1>1, Z3 DEF Pos
  <2>4. (d * p.b) * q.a \in Nat
    BY <1>1, <1>2, MulPos
  <2>5. p.a * q.a <= (d * e) * (p.b * q.b)
    BY <1>2, <2>1, <2>2, <2>3, <2>4
  <2> QED
    BY <1>2, <1>3, <2>5, LowestAtMost DEF Pos
<1> HIDE DEF num
<1>9. /\ num \in Rationals
      /\ Lowest(num.a, num.b * (d * e)) = Mult(Lowest(p.a, p.b * d), Lowest(q.a, q.b * e))
      /\ p.a <= d * p.b /\ q.a <= e * q.b => num.a <= (d * e) * num.b
  BY <1>4, <1>5, <1>6, <1>7, <1>8
<1> QED
  BY <1>9 DEF num

(* The product of fractions: exact unless something was cut.               *)
LEMMA ProductSound ==
  ASSUME NEW l, NEW r, Sound(l), Sound(r), ~r.failed \/ r = l
  PROVE  /\ Sound(Product(l, r))
         /\ Fitting(Product(l, r)) =>
              Fitting(l) /\ Fitting(r) /\ Value(Product(l, r)) = Mult(Value(l), Value(r))
<1> DEFINE failed == l.failed \/ r.failed
           cut == l.cut \/ r.cut
           wide == l.denom * r.denom
           proj_num == Mult(l.num, r.num)
           out == Product(l, r)
<1>1. \A f : HasCut(f) => ~Fitting(f)
  BY DEF HasCut, Fitting
<1>2. out = IF failed THEN [l EXCEPT !.failed = TRUE]
            ELSE IF proj_num.a > NumLimit * proj_num.b \/ ~mul_is_safe(l.denom, r.denom)
              THEN FractionOf(Mult(UnsafeNum(l), r.num), r.denom, cut, failed)
            ELSE FractionOf(proj_num, wide % 2^DenomBits, cut \/ wide >= 2^DenomBits, failed)
  BY DEF Product
<1> SUFFICES /\ Sound(out)
             /\ Fitting(out) => Fitting(l) /\ Fitting(r) /\ Value(out) = Mult(Value(l), Value(r))
  OBVIOUS
<1>3. CASE failed
  <2>1. out = [l EXCEPT !.failed = TRUE]
    BY <1>2, <1>3
  <2>2. HasCut(l)
    BY <1>3 DEF Sound, Fitting
  <2>3. PICK n, d, x : x \in BOOLEAN /\ l = [num |-> n, denom |-> d, cut |-> TRUE, failed |-> x]
    BY <2>2 DEF HasCut
  <2>4. [l EXCEPT !.failed = TRUE] = [num |-> n, denom |-> d, cut |-> TRUE, failed |-> TRUE]
    <3>1. \A c, y : l = [num |-> n, denom |-> d, cut |-> c, failed |-> x] =>
                   [l EXCEPT !.failed = y] = [num |-> n, denom |-> d, cut |-> c, failed |-> y]
      OBVIOUS
    <3> QED
      BY <2>3, <3>1, Zenon
  <2> HIDE DEF out
  <2>5. HasCut(out)
    BY <2>1, <2>4 DEF HasCut
  <2> QED
    BY <1>1, <2>5 DEF Sound
<1>4. CASE ~failed /\ (HasCut(l) \/ HasCut(r))
  <2>1. cut = TRUE /\ failed = FALSE
    <3>1. l.cut \in BOOLEAN /\ r.cut \in BOOLEAN /\ l.failed \in BOOLEAN /\ r.failed \in BOOLEAN
      <4>1. \A f : Fitting(f) => f.cut \in BOOLEAN /\ f.failed \in BOOLEAN
        BY DEF Fitting
      <4>2. \A f : HasCut(f) => f.cut \in BOOLEAN /\ f.failed \in BOOLEAN
        BY DEF HasCut
      <4> QED
        BY <4>1, <4>2 DEF Sound
    <3>2. l.cut = TRUE \/ r.cut = TRUE
      BY <1>4 DEF HasCut
    <3> QED
      BY <1>4, <3>1, <3>2
  <2>2. (cut \/ wide >= 2^DenomBits) = TRUE
    BY <2>1
  <2>3. HasCut(out)
    <3> HIDE DEF cut, failed, wide, proj_num, out
    <3>1. ~failed
      BY <2>1
    <3> QED
      BY <1>2, <2>1, <2>2, <3>1, FractionCut
  <2> HIDE DEF out
  <2> QED
    BY <1>1, <2>3 DEF Sound
<1>5. CASE Fitting(l) /\ Fitting(r)
  <2>1. /\ cut = FALSE /\ failed = FALSE
        /\ l.num \in Rationals /\ r.num \in Rationals /\ l.denom \in Pos /\ r.denom \in Pos
        /\ l.num.a <= l.denom * l.num.b /\ r.num.a <= r.denom * r.num.b
    BY <1>5 DEF Fitting
  <2>2. /\ Value(l) = Lowest(l.num.a, l.num.b * l.denom) /\ Value(r) = Lowest(r.num.a, r.num.b * r.denom)
        /\ Value(l) \in Numbers /\ Value(r) \in Numbers /\ Value(l).a <= Value(l).b
    BY <1>5, ValueIsNumber
  <2>3. wide \in Pos
    BY <2>1, MulPos DEF Pos
  <2>4. CASE proj_num.a > NumLimit * proj_num.b \/ ~mul_is_safe(l.denom, r.denom)
    <3> DEFINE num == Mult(UnsafeNum(l), r.num)
    <3>1. out = FractionOf(num, r.denom, FALSE, FALSE)
      BY <1>2, <2>1, <2>4
    <3>2. UnsafeNum(l) = Value(l) /\ Value(l) \in Rationals /\ Value(l) = Lowest(Value(l).a, Value(l).b)
      BY <2>2, NumberTerms DEF UnsafeNum
    <3>3. 1 \in Pos /\ Value(l).b * 1 = Value(l).b /\ 1 * Value(l).b = Value(l).b /\ 1 * r.denom = r.denom
      BY <2>1, <3>2 DEF Pos, Rationals
    <3>4. /\ num \in Rationals
          /\ Lowest(num.a, num.b * r.denom) = Mult(Value(l), Value(r))
          /\ num.a <= r.denom * num.b
      <4>1. /\ num \in Rationals
            /\ Lowest(num.a, num.b * (1 * r.denom)) =
                 Mult(Lowest(Value(l).a, Value(l).b * 1), Lowest(r.num.a, r.num.b * r.denom))
            /\ num.a <= (1 * r.denom) * num.b
        BY <2>1, <2>2, <3>2, <3>3, ProductValue
      <4> HIDE DEF num
      <4> QED
        BY <2>2, <3>2, <3>3, <4>1
    <3> HIDE DEF num, out
    <3>5. Fitting(out) /\ out.num = num /\ out.denom = r.denom
      BY <2>1, <3>1, <3>4, FractionFits
    <3>6. Value(out) = Lowest(num.a, num.b * r.denom)
      BY <3>5 DEF Value
    <3> QED
      BY <1>5, <3>4, <3>5, <3>6 DEF Sound
  <2>5. CASE /\ ~(proj_num.a > NumLimit * proj_num.b \/ ~mul_is_safe(l.denom, r.denom))
             /\ wide >= 2^DenomBits
    <3>1. (cut \/ wide >= 2^DenomBits) = TRUE
      BY <2>5
    <3>2. HasCut(out)
      <4> HIDE DEF cut, failed, wide, proj_num, out
      <4> QED
        BY <1>2, <2>1, <2>5, <3>1, FractionCut
    <3> HIDE DEF out
    <3> QED
      BY <1>1, <3>2 DEF Sound
  <2>6. CASE /\ ~(proj_num.a > NumLimit * proj_num.b \/ ~mul_is_safe(l.denom, r.denom))
             /\ ~(wide >= 2^DenomBits)
    <3>1. wide % 2^DenomBits = wide
      <4>1. PICK m \in Nat \ {0} : m = 2^DenomBits
        BY FractionAssumption
      <4>2. wide < m
        BY <2>3, <2>6, <4>1 DEF Pos
      <4>3. wide % m = wide
        BY <2>3, <4>2 DEF Pos
      <4> QED
        BY <4>1, <4>3
    <3>2. (cut \/ wide >= 2^DenomBits) = FALSE
      BY <2>1, <2>6
    <3>3. out = FractionOf(proj_num, wide, FALSE, FALSE)
      <4> HIDE DEF cut, failed, wide, proj_num, out
      <4> QED
        BY <1>2, <2>1, <2>6, <3>1, <3>2
    <3>4. /\ proj_num \in Rationals
          /\ Lowest(proj_num.a, proj_num.b * wide) = Mult(Value(l), Value(r))
          /\ proj_num.a <= wide * proj_num.b
      BY <2>1, <2>2, ProductValue
    <3> HIDE DEF proj_num, wide, out
    <3>5. Fitting(out) /\ out.num = proj_num /\ out.denom = wide
      BY <2>3, <3>3, <3>4, FractionFits
    <3>6. Value(out) = Lowest(proj_num.a, proj_num.b * wide)
      BY <3>5 DEF Value
    <3> QED
      BY <1>5, <3>4, <3>5, <3>6 DEF Sound
  <2> QED
    BY <2>4, <2>5, <2>6
<1> QED
  BY <1>3, <1>4, <1>5 DEF Sound

-----------------------------------------------------------------------------
(* Powers of fractions *)

(* One step of pow().                                                      *)
Squared(half, l, r) ==
  LET out == Product(half, half)
  IN  IF r % 2 = 1 THEN Product(out, l) ELSE out

(* The recursive function of pow(), as it is written there ...             *)
SquaresUpTo(f, l, n) ==
  f = [r \in 0 .. n |->
        CASE r = 0 -> FractionOf(Whole(1), 1, FALSE, FALSE)
          [] r = 1 -> l
          [] OTHER -> LET half == f[r \div 2]
                          out == Product(half, half)
                      IN  IF r % 2 = 1 THEN Product(out, l) ELSE out]

(* ... and one equation for each case.                                     *)
SquareSteps(f, l, n) ==
  /\ f = [r \in 0 .. n |-> f[r]]
  /\ f[0] = FractionOf(Whole(1), 1, FALSE, FALSE)
  /\ 1 <= n => f[1] = l
  /\ \A r \in 2 .. n : f[r] = Squared(f[r \div 2], l, r)

(* The half of r, rounded down, twice and the rest.                        *)
LEMMA Halves == \A r \in Nat : 2 <= r => r \div 2 \in 1 .. r - 1 /\ r % 2 \in {0, 1} /\ r = (r \div 2) + (r \div 2) + (r % 2)
OBVIOUS

(* The two are the same.                                                   *)
LEMMA SquaresByStep ==
  ASSUME NEW f, NEW l, NEW n \in Nat
  PROVE  SquaresUpTo(f, l, n) <=> SquareSteps(f, l, n)
<1> DEFINE step(r) == CASE r = 0 -> FractionOf(Whole(1), 1, FALSE, FALSE)
                        [] r = 1 -> l
                        [] OTHER -> Squared(f[r \div 2], l, r)
<1>1. SquaresUpTo(f, l, n) <=> f = [r \in 0 .. n |-> step(r)]
  BY DEF SquaresUpTo, Squared
<1>2. /\ step(0) = FractionOf(Whole(1), 1, FALSE, FALSE)
      /\ step(1) = l
      /\ \A r \in 2 .. n : step(r) = Squared(f[r \div 2], l, r)
  <2>1. step(0) = FractionOf(Whole(1), 1, FALSE, FALSE)
    <3>1. ~(0 = 1)
      OBVIOUS
    <3> QED
      BY <3>1, Zenon
  <2>2. step(1) = l
    <3>1. ~(1 = 0)
      OBVIOUS
    <3> QED
      BY <3>1, Zenon
  <2>3. ASSUME NEW r \in 2 .. n PROVE step(r) = Squared(f[r \div 2], l, r)
    <3>1. ~(r = 0) /\ ~(r = 1)
      OBVIOUS
    <3> QED
      BY <3>1, Zenon
  <2> QED
    BY <2>1, <2>2, <2>3
<1> HIDE DEF step
<1>3. ASSUME f = [r \in 0 .. n |-> step(r)] PROVE SquareSteps(f, l, n)
  <2>1. \A r \in 0 .. n : f[r] = step(r)
    BY <1>3
  <2>2. f = [r \in 0 .. n |-> f[r]]
    BY <1>3
  <2>3. 0 \in 0 .. n /\ (1 <= n => 1 \in 0 .. n) /\ 2 .. n \subseteq 0 .. n
    OBVIOUS
  <2> QED
    BY <1>2, <2>1, <2>2, <2>3 DEF SquareSteps
<1>4. ASSUME SquareSteps(f, l, n) PROVE f = [r \in 0 .. n |-> step(r)]
  <2>1. ASSUME NEW r \in 0 .. n PROVE f[r] = step(r)
    <3>1. r = 0 \/ (r = 1 /\ 1 <= n) \/ r \in 2 .. n
      OBVIOUS
    <3> QED
      BY <1>2, <1>4, <3>1 DEF SquareSteps
  <2>2. f = [r \in 0 .. n |-> f[r]]
    BY <1>4 DEF SquareSteps
  <2> QED
    BY <2>1, <2>2
<1> QED
  BY <1>1, <1>3, <1>4

(* The recursive function of pow() exists for every n, by induction.       *)
LEMMA SquaresExist == \A l : \A n \in Nat : \E f : SquareSteps(f, l, n)
<1> SUFFICES ASSUME NEW l PROVE \A n \in Nat : \E f : SquareSteps(f, l, n)
  OBVIOUS
<1> DEFINE S == {n \in Nat : \E f : SquareSteps(f, l, n)}
<1>1. 0 \in S
  <2> DEFINE f == [i \in 0 .. 0 |-> FractionOf(Whole(1), 1, FALSE, FALSE)]
  <2>1. f = [i \in 0 .. 0 |-> f[i]] /\ f[0] = FractionOf(Whole(1), 1, FALSE, FALSE)
    OBVIOUS
  <2> HIDE DEF f
  <2>2. ~(1 <= 0) /\ 2 .. 0 = {}
    OBVIOUS
  <2>3. SquareSteps(f, l, 0)
    BY <2>1, <2>2 DEF SquareSteps
  <2> QED
    BY <2>3
<1>2. ASSUME NEW n \in Nat, NEW f, SquareSteps(f, l, n)
      PROVE  \E g : SquareSteps(g, l, n + 1)
  <2> DEFINE last == IF n = 0 THEN l ELSE Squared(f[(n + 1) \div 2], l, n + 1)
             g == [i \in 0 .. n + 1 |-> IF i = n + 1 THEN last ELSE f[i]]
  <2>1. g = [i \in 0 .. n + 1 |-> g[i]] /\ g[n + 1] = last /\ \A i \in 0 .. n : g[i] = f[i]
    OBVIOUS
  <2>2. (n = 0 => last = l) /\ (n # 0 => last = Squared(f[(n + 1) \div 2], l, n + 1))
    OBVIOUS
  <2> HIDE DEF g, last
  <2>3. g[0] = FractionOf(Whole(1), 1, FALSE, FALSE)
    <3>1. 0 \in 0 .. n
      OBVIOUS
    <3>2. g[0] = f[0]
      BY <2>1, <3>1
    <3> QED
      BY <1>2, <3>2 DEF SquareSteps
  <2>4. g[1] = l
    <3>1. CASE n = 0
      <4>1. g[n + 1] = l
        BY <2>1, <2>2, <3>1
      <4> QED
        BY <3>1, <4>1
    <3>2. CASE n # 0
      <4>1. 1 <= n /\ 1 \in 0 .. n
        BY <3>2
      <4>2. g[1] = f[1]
        BY <2>1, <4>1
      <4>3. f[1] = l
        BY <1>2, <4>1 DEF SquareSteps
      <4> QED
        BY <4>2, <4>3
    <3> QED
      BY <3>1, <3>2
  <2>5. ASSUME NEW r \in 2 .. n + 1 PROVE g[r] = Squared(g[r \div 2], l, r)
    <3>1. r \div 2 \in 0 .. n
      <4>1. r \in Nat /\ 2 <= r
        OBVIOUS
      <4>2. r \div 2 \in 1 .. r - 1
        BY <4>1, Halves
      <4> QED
        BY <4>2
    <3>2. g[r \div 2] = f[r \div 2]
      BY <2>1, <3>1
    <3>3. CASE r = n + 1
      <4>1. n # 0
        BY <3>3
      <4>2. g[r] = Squared(f[r \div 2], l, r)
        BY <2>1, <2>2, <3>3, <4>1
      <4> QED
        BY <3>2, <4>2
    <3>4. CASE r \in 2 .. n
      <4>1. r \in 0 .. n
        BY <3>4
      <4>2. g[r] = f[r]
        BY <2>1, <4>1
      <4>3. f[r] = Squared(f[r \div 2], l, r)
        BY <1>2, <3>4 DEF SquareSteps
      <4> QED
        BY <3>2, <4>2, <4>3
    <3> QED
      BY <3>3, <3>4
  <2>6. SquareSteps(g, l, n + 1)
    BY <2>1, <2>3, <2>4, <2>5 DEF SquareSteps
  <2> QED
    BY <2>6
<1>3. ASSUME NEW n \in Nat PROVE n \in S
  <2>1. \A i \in 0 .. n - 1 : i \in S => i + 1 \in S
    BY <1>2
  <2> HIDE DEF S
  <2>2. 0 .. n \subseteq S
    BY <1>1, <2>1, UpTo
  <2> QED
    BY <2>2
<1> QED
  BY <1>3

(* pow() computes by this recursion.                                       *)
LEMMA PowIsSquared ==
  ASSUME NEW l, NEW n \in Nat
  PROVE  \E f : SquareSteps(f, l, n) /\ pow(l, n) = f[n]
<1> DEFINE power == CHOOSE f : SquaresUpTo(f, l, n)
<1>1. \E f : SquaresUpTo(f, l, n)
  BY SquaresExist, SquaresByStep
<1>2. SquaresUpTo(power, l, n)
  BY <1>1, Zenon
<1>3. pow(l, n) = power[n]
  BY DEF pow, SquaresUpTo
<1> HIDE DEF power
<1> QED
  BY <1>2, <1>3, SquaresByStep

(* The number that f, a power of l, should be.                             *)
IsPower(f, l, r) ==
  /\ Sound(f)
  /\ Fitting(f) => (r # 0 => Fitting(l)) /\ Value(f) = ToThe(Value(l), r)

(* The first power.                                                        *)
LEMMA ToTheOne == \A p \in Numbers : ToThe(p, 1) = p
<1> SUFFICES ASSUME NEW p \in Numbers PROVE ToThe(p, 1) = p
  OBVIOUS
<1>1. 0 \in Nat /\ 0 + 1 = 1
  OBVIOUS
<1>2. ToThe(p, 0 + 1) = Mult(p, ToThe(p, 0)) /\ ToThe(p, 0) = Whole(1)
  BY <1>1, ToTheSteps
<1> QED
  BY <1>1, <1>2, MultOne

(* One step of pow(), from the half of the exponent.                       *)
LEMMA SquaredIsPower ==
  ASSUME NEW l, Sound(l), ~l.failed, NEW r \in Nat, 2 <= r,
         NEW half, IsPower(half, l, r \div 2)
  PROVE  IsPower(Squared(half, l, r), l, r)
<1> DEFINE h == r \div 2
           out == Product(half, half)
<1>1. h \in Nat /\ h # 0 /\ r % 2 \in {0, 1} /\ r = (h + h) + (r % 2) /\ h + h \in Nat
  BY Halves
<1>2. Sound(half) /\ (Fitting(half) => Fitting(l) /\ Value(half) = ToThe(Value(l), h))
  BY <1>1 DEF IsPower
<1>3. Squared(half, l, r) = IF r % 2 = 1 THEN Product(out, l) ELSE out
  BY DEF Squared
<1>4. /\ Sound(out)
      /\ Fitting(out) => Fitting(half) /\ Value(out) = Mult(Value(half), Value(half))
  BY <1>2, ProductSound
<1> HIDE DEF out, h
<1>5. Fitting(out) => Fitting(l) /\ Value(out) = ToThe(Value(l), h + h)
  <2> SUFFICES ASSUME Fitting(out) PROVE Fitting(l) /\ Value(out) = ToThe(Value(l), h + h)
    OBVIOUS
  <2>1. Fitting(l) /\ Value(out) = Mult(ToThe(Value(l), h), ToThe(Value(l), h))
    BY <1>2, <1>4
  <2>2. Value(l) \in Numbers
    BY <2>1, ValueIsNumber
  <2>3. ToThe(Value(l), h + h) = Mult(ToThe(Value(l), h), ToThe(Value(l), h))
    BY <1>1, <2>2, ToTheSum
  <2> QED
    BY <2>1, <2>3
<1>6. CASE r % 2 = 0
  <2>1. Squared(half, l, r) = out /\ r = h + h
    BY <1>1, <1>3, <1>6
  <2> QED
    BY <1>4, <1>5, <2>1 DEF IsPower
<1>7. CASE r % 2 = 1
  <2>1. Squared(half, l, r) = Product(out, l) /\ r = (h + h) + 1
    BY <1>1, <1>3, <1>7
  <2>2. /\ Sound(Product(out, l))
        /\ Fitting(Product(out, l)) =>
             Fitting(out) /\ Fitting(l) /\ Value(Product(out, l)) = Mult(Value(out), Value(l))
    BY <1>4, ProductSound
  <2>3. ASSUME Fitting(Product(out, l))
        PROVE  Fitting(l) /\ Value(Product(out, l)) = ToThe(Value(l), r)
    <3>1. /\ Fitting(l) /\ Value(out) = ToThe(Value(l), h + h)
          /\ Value(Product(out, l)) = Mult(ToThe(Value(l), h + h), Value(l))
      BY <1>5, <2>2, <2>3
    <3>2. Value(l) \in Numbers
      BY <3>1, ValueIsNumber
    <3>3. ToThe(Value(l), h + h) \in Numbers
      BY <1>1, <3>2, ToTheIsNumber
    <3>4. Mult(ToThe(Value(l), h + h), Value(l)) = Mult(Value(l), ToThe(Value(l), h + h))
      BY <3>2, <3>3, MultSwap
    <3>5. ToThe(Value(l), (h + h) + 1) = Mult(Value(l), ToThe(Value(l), h + h))
      BY <1>1, ToTheSteps
    <3> QED
      BY <2>1, <3>1, <3>4, <3>5
  <2> QED
    BY <2>1, <2>2, <2>3 DEF IsPower
<1> QED
  BY <1>1, <1>6, <1>7

(* The power with exponent 0.                                              *)
LEMMA OneIsPower == \A l : IsPower(FractionOf(Whole(1), 1, FALSE, FALSE), l, 0)
<1> SUFFICES ASSUME NEW l PROVE IsPower(FractionOf(Whole(1), 1, FALSE, FALSE), l, 0)
  OBVIOUS
<1> DEFINE f == FractionOf(Whole(1), 1, FALSE, FALSE)
<1>1. /\ Whole(1) \in Rationals /\ Whole(1).a = 1 /\ Whole(1).b = 1 /\ 1 \in Pos
      /\ Whole(1).a <= 1 * Whole(1).b
  BY DEF Rationals, Whole, Pos
<1>2. Fitting(f) /\ f.num = Whole(1) /\ f.denom = 1
  BY <1>1, FractionFits
<1> HIDE DEF f
<1>3. Value(f) = Lowest(Whole(1).a, 1)
  <2>1. Value(f) = Lowest(Whole(1).a, 1 * 1)
    BY <1>1, <1>2 DEF Value
  <2> QED
    BY <2>1
<1>4. Value(f) = Whole(1)
  BY <1>1, <1>3, LowestOne DEF Whole
<1>5. ToThe(Value(l), 0) = Whole(1)
  BY ToTheSteps
<1> QED
  BY <1>2, <1>4, <1>5 DEF IsPower, Sound, f

(* pow() is exact unless something was cut, by induction over the          *)
(* exponent.                                                               *)
LEMMA PowSound ==
  ASSUME NEW l, Sound(l), ~l.failed, NEW n \in Nat
  PROVE  IsPower(pow(l, n), l, n)
<1>1. PICK f : SquareSteps(f, l, n) /\ pow(l, n) = f[n]
  BY PowIsSquared
<1> DEFINE S == {r \in Nat : r <= n => IsPower(f[r], l, r)}
<1>2. ASSUME NEW r \in Nat, \A m \in 0 .. r - 1 : m \in S PROVE r \in S
  <2> SUFFICES ASSUME r <= n PROVE IsPower(f[r], l, r)
    OBVIOUS
  <2>1. CASE r = 0
    BY <1>1, <2>1, OneIsPower DEF SquareSteps
  <2>2. CASE r = 1
    <3>1. f[1] = l
      BY <1>1, <2>2 DEF SquareSteps
    <3>2. Fitting(l) => Value(l) = ToThe(Value(l), 1)
      BY ValueIsNumber, ToTheOne
    <3> QED
      BY <2>2, <3>1, <3>2 DEF IsPower
  <2>3. CASE 2 <= r
    <3>1. r \div 2 \in 0 .. r - 1 /\ r \div 2 <= n
      BY <2>3, Halves
    <3>2. IsPower(f[r \div 2], l, r \div 2)
      BY <1>2, <3>1
    <3>3. f[r] = Squared(f[r \div 2], l, r)
      BY <1>1, <2>3 DEF SquareSteps
    <3>4. PICK half : half = f[r \div 2]
      OBVIOUS
    <3>5. IsPower(Squared(half, l, r), l, r)
      BY <2>3, <3>2, <3>4, SquaredIsPower
    <3> QED
      BY <3>3, <3>4, <3>5
  <2> QED
    BY <2>1, <2>2, <2>3
<1>3. n \in S
  <2> HIDE DEF S
  <2> QED
    BY <1>2, AllNumbers
<1> QED
  BY <1>1, <1>3

-----------------------------------------------------------------------------
(* 1 - f *)

(* 1 - f is exact unless something was cut.                                *)
LEMMA ReverseSound ==
  ASSUME NEW f, Sound(f), ~f.failed
  PROVE  /\ Sound(reverse(f))
         /\ Fitting(reverse(f)) => Fitting(f) /\ Value(reverse(f)) = Less(Value(f))
<1> DEFINE num == Lowest(f.denom * f.num.b - f.num.a, f.num.b)
           out == reverse(f)
<1>1. out = FractionOf(num, f.denom, f.cut, f.failed)
  BY DEF reverse
<1>2. \A g : HasCut(g) => ~Fitting(g)
  BY DEF HasCut, Fitting
<1>3. CASE HasCut(f)
  <2>1. f.cut = TRUE /\ f.failed \in BOOLEAN
    BY <1>3 DEF HasCut
  <2> HIDE DEF num, out
  <2>2. HasCut(out)
    BY <1>1, <2>1, FractionCut
  <2> QED
    BY <1>2, <2>2 DEF Sound, out
<1>4. CASE Fitting(f)
  <2>1. /\ f.num.a \in Nat /\ f.num.b \in Pos /\ f.denom \in Pos
        /\ f.num.a <= f.denom * f.num.b /\ f.cut = FALSE /\ f.failed = FALSE
    BY <1>4 DEF Fitting, Rationals
  <2>2. PICK d \in Pos : d = f.denom * f.num.b
    BY <2>1, MulPos DEF Pos
  <2>3. f.num.b * f.denom = d
    BY <2>1, <2>2, MulPos DEF Pos
  <2>4. PICK a \in Nat : a = d - f.num.a /\ a <= d
    BY <2>1, <2>2 DEF Pos
  <2>5. num = Lowest(a, f.num.b)
    BY <2>2, <2>4
  <2>6. num \in Rationals
    BY <2>1, <2>5, LowestTerms
  <2>7. num.a <= f.denom * num.b
    BY <2>1, <2>2, <2>4, <2>5, LowestAtMost DEF Pos
  <2>8. Lowest(num.a, num.b * f.denom) = Lowest(a, d)
    BY <2>1, <2>3, <2>5, LowestOver
  <2>9. Value(f) = Lowest(f.num.a, d)
    BY <2>3 DEF Value
  <2>10. f.num.a <= d
    BY <2>1, <2>2
  <2>11. Less(Value(f)) = Lowest(a, d)
    BY <2>1, <2>4, <2>9, <2>10, LessLowest
  <2> HIDE DEF num, out
  <2>12. out = FractionOf(num, f.denom, FALSE, FALSE)
    BY <1>1, <2>1
  <2>13. Fitting(out) /\ out.num = num /\ out.denom = f.denom
    BY <2>1, <2>6, <2>7, <2>12, FractionFits
  <2>14. Value(out) = Lowest(num.a, num.b * f.denom)
    BY <2>13 DEF Value
  <2>15. Value(out) = Less(Value(f))
    BY <2>8, <2>11, <2>14
  <2> QED
    BY <1>4, <2>13, <2>15 DEF Sound, out
<1> QED
  BY <1>3, <1>4 DEF Sound

-----------------------------------------------------------------------------
(* The calculation *)

(* The inductive invariant: as long as nothing was cut, the fraction is    *)
(* the number.                                                             *)
FractionInv ==
  /\ Sound(frac)
  /\ Fitting(frac) => exact = Value(frac)

(* The fractions a calculation starts from are exact.                      *)
LEMMA ProperFits == \A f \in Proper : Fitting(f) /\ ~f.failed
<1> SUFFICES ASSUME NEW f \in Proper PROVE Fitting(f) /\ ~f.failed
  OBVIOUS
<1>1. PICK m \in Nat \ {0} : m = 2^DenomBits
  BY FractionAssumption
<1>2. PICK d \in 1 .. m - 1 : f \in {FractionOf(Whole(a), d, FALSE, FALSE) : a \in 0 .. d}
  BY <1>1 DEF Proper
<1>3. PICK a \in 0 .. d : f = FractionOf(Whole(a), d, FALSE, FALSE)
  BY <1>2
<1>4. d \in Pos /\ a \in Nat /\ Whole(a) \in Rationals /\ Whole(a).a = a /\ Whole(a).b = 1 /\ d * 1 = d
  BY DEF Pos, Rationals, Whole
<1>5. Whole(a).a <= d * Whole(a).b
  BY <1>4
<1>6. Fitting(f)
  BY <1>3, <1>4, <1>5, FractionFits
<1> QED
  BY <1>6 DEF Fitting

(* Every operation keeps the invariant.                                    *)
LEMMA FractionStep == FractionInv /\ [FractionNext]_fractionVars => FractionInv'
<1> SUFFICES ASSUME FractionInv, [FractionNext]_fractionVars PROVE FractionInv'
  OBVIOUS
<1>1. Sound(frac) /\ (Fitting(frac) => exact = Value(frac))
  BY DEF FractionInv
<1>2. ASSUME NEW f, NEW number, Calculates(f, number), Sound(f), Fitting(f) => number = Value(f)
      PROVE  FractionInv'
  <2>1. frac' = f /\ exact' = number
    BY <1>2 DEF Calculates
  <2>2. Sound(frac') /\ (Fitting(frac') => exact' = Value(frac'))
    BY <1>2, <2>1
  <2> QED
    BY <2>2 DEF FractionInv, Sound, Fitting, HasCut, Value
<1>3. CASE Multiply
  <2>1. PICK r \in Proper : Calculates(Product(frac, r), Mult(exact, Value(r)))
    BY <1>3 DEF Multiply
  <2>2. Sound(r) /\ ~r.failed
    BY ProperFits DEF Sound
  <2>3. /\ Sound(Product(frac, r))
        /\ Fitting(Product(frac, r)) => Mult(exact, Value(r)) = Value(Product(frac, r))
    BY <1>1, <2>2, ProductSound
  <2> QED
    BY <1>2, <2>1, <2>3
<1>4. CASE MultiplyInto
  <2>1. PICK l \in Proper : Calculates(Product(l, frac), Mult(Value(l), exact))
    BY <1>4 DEF MultiplyInto
  <2>2. Sound(l) /\ ~frac.failed
    BY <2>1, ProperFits DEF Sound, Calculates
  <2>3. /\ Sound(Product(l, frac))
        /\ Fitting(Product(l, frac)) => Mult(Value(l), exact) = Value(Product(l, frac))
    BY <1>1, <2>2, ProductSound
  <2> QED
    BY <1>2, <2>1, <2>3
<1>5. CASE Pow
  <2>1. PICK n \in 0 .. MaxPow : Calculates(pow(frac, n), ToThe(exact, n))
    BY <1>5 DEF Pow
  <2>2. n \in Nat
    BY FractionAssumption
  <2>3. ~frac.failed
    BY <2>1 DEF Calculates
  <2>4. IsPower(pow(frac, n), frac, n)
    BY <1>1, <2>2, <2>3, PowSound
  <2>5. Fitting(pow(frac, n)) => ToThe(exact, n) = Value(pow(frac, n))
    <3>1. CASE n = 0
      <4>1. ToThe(exact, 0) = Whole(1) /\ ToThe(Value(frac), 0) = Whole(1)
        BY ToTheSteps
      <4> QED
        BY <2>4, <3>1, <4>1 DEF IsPower
    <3>2. CASE n # 0
      BY <1>1, <2>4, <3>2 DEF IsPower
    <3> QED
      BY <3>1, <3>2
  <2> QED
    BY <1>2, <2>1, <2>4, <2>5 DEF IsPower
<1>6. CASE Complement
  <2>1. Calculates(reverse(frac), Less(exact)) /\ ~frac.failed
    BY <1>6 DEF Complement, Calculates
  <2>2. /\ Sound(reverse(frac))
        /\ Fitting(reverse(frac)) => Less(exact) = Value(reverse(frac))
    BY <1>1, <2>1, ReverseSound
  <2> QED
    BY <1>2, <2>1, <2>2
<1>7. CASE UNCHANGED fractionVars
  BY <1>1, <1>7 DEF fractionVars, FractionInv, Sound, Fitting, HasCut, Value
<1> QED
  BY <1>3, <1>4, <1>5, <1>6, <1>7 DEF FractionNext

(* Products, powers and complements of fractions whose denominators fit    *)
(* are exact, and the assertion numerator <= denominator of the            *)
(* constructor holds in them.                                              *)
THEOREM CalculationsAreExact == FractionSpec => []ProductExact
<1>1. FractionInit => FractionInv
  BY ProperFits DEF FractionInit, FractionInv, Sound
<1>2. FractionInv => ProductExact
  <2>1. \A f : HasCut(f) => f.cut
    BY DEF HasCut
  <2>2. \A f : Fitting(f) => ~f.failed
    BY DEF Fitting
  <2> QED
    BY <2>1, <2>2 DEF FractionInv, ProductExact, Sound
<1> QED
  BY <1>1, <1>2, FractionStep, PTL DEF FractionSpec
-----------------------------------------------------------------------------
(* ScopeGuard                                                             *)

(* Only a live guard holds a function; what nobody was given, nobody ran. *)
GuardHeld ==
  /\ \A g \in Guards : term[g] # Empty => g \in live /\ term[g] \in given
  /\ \A t \in Terms \ given : runs[t] = 0

GuardInv == TypeOK /\ GuardHeld /\ OncePerTerm /\ HeldUntilRun

(* No guard exists yet. *)
LEMMA GuardInitHolds == Init => GuardInv
<1> SUFFICES ASSUME Init PROVE GuardInv
  OBVIOUS
<1> USE GuardAssumption DEF Init
<1>1. TypeOK
  BY DEF TypeOK
<1>2. GuardHeld /\ OncePerTerm /\ HeldUntilRun
  BY DEF GuardHeld, OncePerTerm, HeldUntilRun
<1> QED
  BY <1>1, <1>2 DEF GuardInv

(* Every operation on a guard preserves the invariant. *)
LEMMA GuardStepHolds == GuardInv /\ [Next]_guardVars => GuardInv'
<1> SUFFICES ASSUME GuardInv, [Next]_guardVars
             PROVE  GuardInv'
  OBVIOUS
<1> USE GuardAssumption DEF GuardInv, TypeOK, GuardHeld, OncePerTerm, HeldUntilRun, Ran, RunOld, TakenFrom
<1>1. ASSUME NEW g \in Guards, NEW t \in Terms, ConstructGuard(g, t)
      PROVE  GuardInv'
  BY <1>1 DEF ConstructGuard
<1>2. ASSUME NEW g \in Guards, NEW other \in Guards, MoveConstruct(g, other)
      PROVE  GuardInv'
  BY <1>2 DEF MoveConstruct
<1>3. ASSUME NEW g \in Guards, NEW other \in Guards, MoveAssign(g, other)
      PROVE  GuardInv'
  BY <1>3 DEF MoveAssign
<1>4. ASSUME NEW g \in Guards, NEW other \in Guards, MoveAssignThrows(g, other)
      PROVE  GuardInv'
  BY <1>4 DEF MoveAssignThrows
<1>5. ASSUME NEW g \in Guards, DestroyGuard(g)
      PROVE  GuardInv'
  <2>1. TypeOK'
    <3>1. dead' \in BOOLEAN
      BY <1>5, Zenon DEF DestroyGuard
    <3>2. live' \subseteq Guards /\ given' \subseteq Terms /\ term' \in [Guards -> Terms \cup {Empty}]
      BY <1>5 DEF DestroyGuard
    <3>3. runs' \in [Terms \cup {Empty} -> Nat] /\ runs'[Empty] = 0
      BY <1>5 DEF DestroyGuard
    <3> QED
      BY <3>1, <3>2, <3>3
  <2>2. GuardHeld' /\ OncePerTerm'
    BY <1>5 DEF DestroyGuard
  <2>3. HeldUntilRun'
    BY <1>5 DEF DestroyGuard
  <2> QED
    BY <2>1, <2>2, <2>3
<1>6. CASE UNCHANGED guardVars
  BY <1>6 DEF guardVars
<1> QED
  BY <1>1, <1>2, <1>3, <1>4, <1>5, <1>6 DEF Next

(* The invariant holds in every reachable state. *)
LEMMA GuardInvInductive == Spec => []GuardInv
BY GuardInitHolds, GuardStepHolds, PTL DEF Spec

(* The variables keep their types, and no empty function is ever called.   *)
THEOREM TypeCorrect == Spec => []TypeOK
<1>1. GuardInv => TypeOK
  BY DEF GuardInv
<1> QED
  BY <1>1, GuardInvInductive, PTL

(* A function that does not throw runs at most once, and is held by exactly *)
(* one guard until then, whatever is moved where.                           *)
THEOREM ExactlyOnce == Spec => []RunsExactlyOnce
<1>1. GuardInv => RunsExactlyOnce
  BY DEF GuardInv, RunsExactlyOnce
<1> QED
  BY <1>1, GuardInvInductive, PTL
=============================================================================
