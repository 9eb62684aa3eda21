----------------------------- MODULE ScopeGuard -----------------------------
(***************************************************************************)
(* cppkg/jobs/scope_guard.h: a guard runs the function it holds when it is *)
(* destroyed or assigned over, unless the function was moved to another    *)
(* guard.  A std::function that was moved from may still hold its target,  *)
(* which is why the code clears it: TakenFrom covers both outcomes.        *)
(***************************************************************************)
EXTENDS Integers

CONSTANTS
  Guards,     \* the ScopeGuard objects
  Terms,      \* the functions handed to them, one per construction
  Throwing,   \* those that may throw
  Empty,      \* an empty GuardOpF
  MaxRuns     \* bound: how often a throwing function is run

ASSUME GuardAssumption == Throwing \subseteq Terms /\ Empty \notin Terms /\ MaxRuns \in Nat

VARIABLES
  live,       \* guards that exist
  term,       \* term_ of each guard
  runs,       \* history: how often each function ran
  given,      \* history: functions handed to a guard
  dead        \* a destructor let an exception out

guardVars == <<live, term, runs, given, dead>>

TypeOK ==
  /\ live \subseteq Guards
  /\ term \in [Guards -> Terms \cup {Empty}]
  /\ runs \in [Terms \cup {Empty} -> Nat] /\ runs[Empty] = 0    \* no empty function is called
  /\ given \subseteq Terms
  /\ dead \in BOOLEAN

Init ==
  /\ live = {}
  /\ term = [g \in Guards |-> Empty]
  /\ runs = [t \in Terms \cup {Empty} |-> 0]
  /\ given = {}
  /\ dead = FALSE

(* Seeded fault: term_ is called without a test. *)
FaultRan(t) == [runs EXCEPT ![t] = @ + 1]
Ran(t) == IF t = Empty THEN runs ELSE [runs EXCEPT ![t] = @ + 1]

(* Seeded fault: the source is left as the move left it. *)
FaultTakenFrom(other) == {term[other], Empty}
TakenFrom(other) == {Empty}     \* other.term_ = GuardOpF()

ConstructGuard(g, t) ==
  /\ ~dead /\ g \notin live /\ t \notin given
  /\ live' = live \cup {g}
  /\ term' = [term EXCEPT ![g] = t]
  /\ given' = given \cup {t}
  /\ UNCHANGED <<runs, dead>>

MoveConstruct(g, other) ==
  /\ ~dead /\ g \notin live /\ other \in live
  /\ live' = live \cup {g}
  /\ \E rest \in TakenFrom(other) :
       term' = [term EXCEPT ![g] = term[other], ![other] = rest]
  /\ UNCHANGED <<runs, given, dead>>

(* Seeded fault: the function held so far is overwritten unrun. *)
FaultRunOld(g) == runs
RunOld(g) == Ran(term[g])

MoveAssign(g, other) ==
  /\ ~dead /\ {g, other} \subseteq live
  /\ g # other
  /\ runs' = RunOld(g)
  /\ \E rest \in TakenFrom(other) :
       term' = [term EXCEPT ![g] = term[other], ![other] = rest]
  /\ UNCHANGED <<live, given, dead>>

(* The function throws out of the assignment: nothing has been moved yet. *)
MoveAssignThrows(g, other) ==
  /\ ~dead /\ {g, other} \subseteq live /\ g # other
  /\ term[g] \in Throwing /\ runs[term[g]] < MaxRuns
  /\ runs' = RunOld(g)
  /\ UNCHANGED <<live, term, given, dead>>

DestroyGuard(g) ==
  /\ ~dead /\ g \in live
  /\ live' = live \ {g}
  /\ runs' = Ran(term[g])
  /\ term' = [term EXCEPT ![g] = Empty]
  /\ \/ UNCHANGED dead
     \/ term[g] \in Throwing /\ dead' = TRUE
  /\ UNCHANGED given

Next ==
  \E g \in Guards :
    \/ \E t \in Terms : ConstructGuard(g, t)
    \/ \E other \in Guards :
         MoveConstruct(g, other) \/ MoveAssign(g, other) \/ MoveAssignThrows(g, other)
    \/ DestroyGuard(g)

Spec == Init /\ [][Next]_guardVars

-----------------------------------------------------------------------------
(* Properties. *)

(* A function runs at most once, except one that threw out of an assignment. *)
OncePerTerm == \A t \in Terms \ Throwing : runs[t] <= 1

(* A function that has not run is held by exactly one guard, and one that  *)
(* has run by none: moves neither lose nor duplicate it.                   *)
HeldUntilRun ==
  \A t \in Terms \ Throwing :
    /\ t \in given /\ runs[t] = 0 => \E g \in live : term[g] = t
    /\ runs[t] > 0 => \A g \in Guards : term[g] # t
    /\ \A g, h \in Guards : term[g] = t /\ term[h] = t => g = h

(* Together: a function handed to a guard runs once, or will run once.     *)
RunsExactlyOnce == OncePerTerm /\ HeldUntilRun
=============================================================================
