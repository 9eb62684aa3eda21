------------------------------ MODULE HashList ------------------------------
(***************************************************************************)
(* cppkg/estd/hashlist.h: a list without duplicates, and an index that     *)
(* finds the node of a value.  Lists share the nodes of the heap, since    *)
(* the implicit copy of a list copies the iterators of its index as they   *)
(* are: they go on pointing into the list that was copied.                 *)
(*                                                                         *)
(* What a caller can reach that the class does not guard against is        *)
(* followed as far as C++ defines it: a value overwritten through begin()  *)
(* or front(), a value erased by a reference to itself, and lists that     *)
(* were copied.  An erase() through an iterator that is not the list's own *)
(* ends the behaviour as undefined.                                        *)
(***************************************************************************)
EXTENDS Naturals, SequencesExt

CONSTANTS
  Lists,   \* the HashList objects of a program
  Vals,    \* their values
  Nodes,   \* bound: nodes of all lists at a time
  NoNode,  \* umap_ has no entry
  NoVal    \* a node that is not allocated

ASSUME HashListAssumption == NoNode \notin Nodes /\ NoVal \notin Vals

VARIABLES
  made,   \* lists that are constructed and not destroyed
  lst_,   \* of a list: its nodes in order
  val,    \* of a node: its value
  umap_,  \* of a list: the node its index has for a value
  trust,  \* history, of a list: "own", "copied", or "misused" by its caller
  undefined

hashListVars == <<made, lst_, val, umap_, trust, undefined>>

HashListInit ==
  /\ made = {}
  /\ lst_ = [o \in Lists |-> <<>>]
  /\ val = [n \in Nodes |-> NoVal]
  /\ umap_ = [o \in Lists |-> [v \in Vals |-> NoNode]]
  /\ trust = [o \in Lists |-> "own"]
  /\ undefined = FALSE

NodesOf(o) == ToSet(lst_[o])
Free == {n \in Nodes : val[n] = NoVal}
NoIndex == [v \in Vals |-> NoNode]

Released(ns) == [n \in Nodes |-> IF n \in ns THEN NoVal ELSE val[n]]

Becomes(o, nodes, index, whose) ==
  /\ lst_' = [lst_ EXCEPT ![o] = nodes]
  /\ umap_' = [umap_ EXCEPT ![o] = index]
  /\ trust' = [trust EXCEPT ![o] = whose]

-----------------------------------------------------------------------------
(* Construction; the range constructor is this and push_back for each value. *)
Construct(o) ==
  /\ o \notin made
  /\ made' = made \cup {o}
  /\ Becomes(o, <<>>, NoIndex, "own")
  /\ UNCHANGED <<val, undefined>>

(* Seeded fault: a value that the index has is inserted again. *)
FaultMayAdd(o, v) == TRUE
MayAdd(o, v) == umap_[o][v] = NoNode

AddAt(o, i, v) ==
  /\ MayAdd(o, v)
  /\ \E n \in Free :
       /\ val' = [val EXCEPT ![n] = v]
       /\ Becomes(o, InsertAt(lst_[o], i, n), [umap_[o] EXCEPT ![v] = n], trust[o])
  /\ UNCHANGED <<made, undefined>>

(* A value that is there already is found and nothing changes. *)
push_back(o, v) == AddAt(o, Len(lst_[o]) + 1, v)

insert(o, v) == \E i \in 1 .. Len(lst_[o]) + 1 : AddAt(o, i, v)

(* Seeded fault: the node is popped before back() is looked at. *)
FaultPoppedKey(o) ==
  IF Len(lst_[o]) > 1 THEN val[lst_[o][Len(lst_[o]) - 1]] ELSE val[Last(lst_[o])]
PoppedKey(o) == val[Last(lst_[o])]

pop_back(o) ==
  /\ lst_[o] # <<>>
  /\ Becomes(o, Front(lst_[o]), [umap_[o] EXCEPT ![PoppedKey(o)] = NoNode], trust[o])
  /\ val' = Released({Last(lst_[o])})
  /\ UNCHANGED <<made, undefined>>

(* erase(v), where v becomes key when the node is gone. *)
EraseKey(o, v, key) ==
  LET n == umap_[o][v]
  IN  /\ n # NoNode
      /\ IF n \in NodesOf(o)
           THEN /\ \E i \in DOMAIN lst_[o] :
                     /\ lst_[o][i] = n
                     /\ Becomes(o, RemoveAt(lst_[o], i),
                                IF key = NoVal THEN umap_[o] ELSE [umap_[o] EXCEPT ![key] = NoNode],
                                IF key = v THEN trust[o] ELSE "misused")
                /\ val' = Released({n})
                /\ UNCHANGED undefined
           ELSE undefined' = TRUE /\ UNCHANGED <<lst_, umap_, trust, val>>
      /\ UNCHANGED made

erase(o, v) == EraseKey(o, v, v)

(* The argument refers to the element that is erased first: looking it up  *)
(* afterwards reads freed memory, which may say anything.                  *)
EraseItself(o) ==
  \E n \in NodesOf(o), key \in Vals \cup {NoVal} :
    umap_[o][val[n]] = n /\ EraseKey(o, val[n], key)

(* front(), back(), begin() and rbegin() give the values out for writing. *)
Overwrite(o, v) ==
  /\ \E n \in NodesOf(o) : val[n] # v /\ val' = [val EXCEPT ![n] = v]
  /\ trust' = [trust EXCEPT ![o] = "misused"]
  /\ UNCHANGED <<made, lst_, umap_, undefined>>

clear(o) ==
  /\ Becomes(o, <<>>, NoIndex, "own")
  /\ val' = Released(NodesOf(o))
  /\ UNCHANGED <<made, undefined>>

-----------------------------------------------------------------------------
(* The implicit copies, moves and destructor.                              *)

(* A copy has values of its own and the index of the other list; an        *)
(* assignment may use its old nodes again.                                 *)
CopyTo(o, other) ==
  \E nodes \in [DOMAIN lst_[other] -> Free \cup NodesOf(o)] :
    /\ IsInjective(nodes)
    /\ Becomes(o, nodes, umap_[other],
               IF trust[other] # "own" THEN trust[other]
               ELSE IF nodes = <<>> THEN "own" ELSE "copied")
    /\ val' = [n \in Nodes |->
                 IF \E i \in DOMAIN nodes : nodes[i] = n
                   THEN val[lst_[other][CHOOSE i \in DOMAIN nodes : nodes[i] = n]]
                   ELSE Released(NodesOf(o))[n]]
    /\ made' = made \cup {o}
    /\ UNCHANGED undefined

(* Seeded fault: a moved-from list keeps its index. *)
FaultLeftBehind(other) == umap_[other]
LeftBehind(other) == NoIndex

(* Iterators survive a move, and the other list is left empty. *)
MoveTo(o, other) ==
  /\ lst_' = [lst_ EXCEPT ![o] = lst_[other], ![other] = <<>>]
  /\ umap_' = [umap_ EXCEPT ![o] = umap_[other], ![other] = LeftBehind(other)]
  /\ trust' = [trust EXCEPT ![o] = trust[other], ![other] = "own"]
  /\ val' = Released(NodesOf(o))
  /\ made' = made \cup {o}
  /\ UNCHANGED undefined

(* Into a new list, or assigned to one that there is. *)
CopyOrMove(o, other) == o # other /\ (CopyTo(o, other) \/ MoveTo(o, other))

Destroy(o) ==
  /\ made' = made \ {o}
  /\ Becomes(o, <<>>, NoIndex, "own")
  /\ val' = Released(NodesOf(o))
  /\ UNCHANGED undefined

HashListNext ==
  /\ ~undefined
  /\ \/ \E o \in Lists : Construct(o)
     \/ \E o \in made :
          \/ pop_back(o) \/ EraseItself(o) \/ clear(o) \/ Destroy(o)
          \/ \E v \in Vals : push_back(o, v) \/ insert(o, v) \/ erase(o, v) \/ Overwrite(o, v)
     \/ \E o \in Lists, other \in made : CopyOrMove(o, other)

HashListSpec == HashListInit /\ [][HashListNext]_hashListVars

-----------------------------------------------------------------------------
(* Properties. *)

(* The index of a list that nobody misused and that is no copy has the     *)
(* values of the list and no others, each with its own node: whatever was  *)
(* copied from it or moved into it, it has no duplicates, finds every      *)
(* value, and no iterator it gives out is dead.  A node is in one list.    *)
IndexAgrees ==
  ~undefined =>
    \A o \in Lists :
      /\ trust[o] = "own" =>
           /\ {v \in Vals : umap_[o][v] # NoNode} = {val[n] : n \in NodesOf(o)}
           /\ \A i \in DOMAIN lst_[o] : umap_[o][val[lst_[o][i]]] = lst_[o][i]
      /\ \A i, j \in DOMAIN lst_[o] : lst_[o][i] = lst_[o][j] => i = j
      /\ \A p \in Lists \ {o} : NodesOf(o) \cap NodesOf(p) = {}
=============================================================================
