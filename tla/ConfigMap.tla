----------------------------- MODULE ConfigMap ------------------------------
(***************************************************************************)
(* cppkg/estd/config.h: ConfigEntry, a pointer with the function that      *)
(* deletes what it points to, and ConfigMap, which holds entries by key    *)
(* through shared pointers.  Entries move, by hand, and maps copy and move *)
(* as their members do.                                                    *)
(*                                                                         *)
(* External: a shared pointer deletes its entry with the last holder, and  *)
(* a moved-from std::function is empty (libstdc++, libc++).                *)
(***************************************************************************)
EXTENDS Integers, FiniteSets

CONSTANTS
  Maps,      \* the ConfigMap objects of a program
  Keys,
  Objects,   \* bound: what init functions and callers create
  Slots,     \* ConfigEntry values that are in no map
  NoObject

ASSUME ConfigAssumption == NoObject \notin Objects

VARIABLES
  built,     \* maps that are constructed and not destroyed
  entries_,  \* of a map: for a key, the object of its entry
  uses,      \* of an object: the shared pointers to its entry
  data_,     \* of a slot: its object
  deletion_, \* of a slot: its function, by the object it was made for
  created,   \* objects that were created
  deletions, \* history, of an object: how often its function ran
  unowned    \* objects that no function will delete

configVars == <<built, entries_, uses, data_, deletion_, created, deletions, unowned>>

NoEntries == [k \in Keys |-> NoObject]

ConfigInit ==
  /\ built = {}
  /\ entries_ = [m \in Maps |-> NoEntries]
  /\ uses = [x \in Objects |-> 0]
  /\ data_ = [s \in Slots |-> NoObject]
  /\ deletion_ = [s \in Slots |-> NoObject]
  /\ created = {}
  /\ deletions = [x \in Objects |-> 0]
  /\ unowned = {}

has(m, k) == entries_[m][k] # NoObject

Held(m) == {entries_[m][k] : k \in Keys} \ {NoObject}

Count(x, xs) == IF x \in xs THEN 1 ELSE 0

(* Pointers to the entries of taken are made, those to dropped destroyed,  *)
(* and the function of an entry without a pointer runs.                    *)
Shares(taken, dropped) ==
  LET left == [x \in Objects |-> uses[x] + Count(x, taken) - Count(x, dropped)]
  IN  /\ uses' = left
      /\ deletions' = [x \in Objects |->
                         deletions[x] + IF x \in dropped /\ left[x] = 0 THEN 1 ELSE 0]

Deletes(xs) == deletions' = [x \in Objects |-> deletions[x] + Count(x, xs)]

-----------------------------------------------------------------------------
(* ConfigMap *)

NewMap(m) ==
  /\ m \notin built
  /\ built' = built \cup {m}
  /\ UNCHANGED <<entries_, uses, data_, deletion_, created, deletions, unowned>>

(* A key that is there keeps its entry, and init is not called.  It is     *)
(* called before the entry is allocated: a failure of that loses what it   *)
(* created, and a failure to insert the entry deletes it again.            *)
add_entry(m, k) ==
  /\ m \in built
  /\ ~has(m, k)
  /\ \E x \in Objects \ created :
       /\ created' = created \cup {x}
       /\ \/ /\ entries_' = [entries_ EXCEPT ![m][k] = x]
             /\ Shares({x}, {})
             /\ UNCHANGED unowned
          \/ unowned' = unowned \cup {x} /\ UNCHANGED <<entries_, uses, deletions>>
          \/ Deletes({x}) /\ UNCHANGED <<entries_, uses, unowned>>
  /\ UNCHANGED <<built, data_, deletion_>>

rm_entry(m, k) ==
  /\ m \in built
  /\ has(m, k)
  /\ entries_' = [entries_ EXCEPT ![m][k] = NoObject]
  /\ Shares({}, {entries_[m][k]})
  /\ UNCHANGED <<built, data_, deletion_, created, unowned>>

(* Seeded fault: the maps share plain pointers. *)
FaultTakenBy(m, other) == Held(m)
TakenBy(m, other) == Held(other)

(* The implicit copies, into a new map or over an old one. *)
CopyMap(m, other) ==
  /\ m # other /\ other \in built
  /\ built' = built \cup {m}
  /\ entries_' = [entries_ EXCEPT ![m] = entries_[other]]
  /\ Shares(TakenBy(m, other), Held(m))
  /\ UNCHANGED <<data_, deletion_, created, unowned>>

MoveMap(m, other) ==
  /\ m # other /\ other \in built
  /\ built' = built \cup {m}
  /\ entries_' = [entries_ EXCEPT ![m] = entries_[other], ![other] = NoEntries]
  /\ Shares({}, Held(m))
  /\ UNCHANGED <<data_, deletion_, created, unowned>>

DestroyMap(m) ==
  /\ m \in built
  /\ built' = built \ {m}
  /\ entries_' = [entries_ EXCEPT ![m] = NoEntries]
  /\ Shares({}, Held(m))
  /\ UNCHANGED <<data_, deletion_, created, unowned>>

-----------------------------------------------------------------------------
(* ConfigEntry *)

Vacant(s) == data_[s] = NoObject

(* The function is optional: without it the entry only points. *)
NewEntry(s) ==
  /\ Vacant(s)
  /\ \E x \in Objects \ created, deletes \in BOOLEAN :
       /\ created' = created \cup {x}
       /\ data_' = [data_ EXCEPT ![s] = x]
       /\ deletion_' = [deletion_ EXCEPT ![s] = IF deletes THEN x ELSE NoObject]
       /\ unowned' = IF deletes THEN unowned ELSE unowned \cup {x}
  /\ UNCHANGED <<built, entries_, uses, deletions>>

(* Seeded fault: the function is copied. *)
FaultDeletionLeft(t) == deletion_[t]
DeletionLeft(t) == NoObject

(* Move construction, or assignment, which drops the function that the     *)
(* entry had.  The pointer stays in both.                                  *)
MoveEntry(s, t) ==
  /\ s # t /\ ~Vacant(t)
  /\ data_' = [data_ EXCEPT ![s] = data_[t]]
  /\ deletion_' = [deletion_ EXCEPT ![s] = deletion_[t], ![t] = DeletionLeft(t)]
  /\ unowned' = unowned \cup ({deletion_[s]} \ {NoObject})
  /\ UNCHANGED <<built, entries_, uses, created, deletions>>

DestroyEntry(s) ==
  /\ ~Vacant(s)
  /\ Deletes({deletion_[s]})
  /\ data_' = [data_ EXCEPT ![s] = NoObject]
  /\ deletion_' = [deletion_ EXCEPT ![s] = NoObject]
  /\ UNCHANGED <<built, entries_, uses, created, unowned>>

ConfigNext ==
  \/ \E m \in Maps :
       \/ NewMap(m) \/ DestroyMap(m)
       \/ \E k \in Keys : add_entry(m, k) \/ rm_entry(m, k)
       \/ \E other \in Maps : CopyMap(m, other) \/ MoveMap(m, other)
  \/ \E s \in Slots :
       \/ NewEntry(s) \/ DestroyEntry(s)
       \/ \E t \in Slots : MoveEntry(s, t)

ConfigSpec == ConfigInit /\ [][ConfigNext]_configVars

-----------------------------------------------------------------------------
(* Properties. *)

Owned == (UNION {Held(m) : m \in Maps}) \cup {deletion_[s] : s \in Slots}

(* However maps are copied and moved and entries handed on, what an entry  *)
(* owns is deleted once, when the last map or slot that owns it lets go,   *)
(* and not before; what a failure or an assignment drops never is.         *)
DeletedOnce ==
  \A x \in created :
    deletions[x] = IF x \in Owned \cup unowned THEN 0 ELSE 1
=============================================================================
