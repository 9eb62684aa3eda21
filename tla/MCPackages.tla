----------------------------- MODULE MCPackages -----------------------------
(***************************************************************************)
(* The components without threads: they share nothing, and a behaviour uses*)
(* one of them.                                                            *)
(***************************************************************************)
EXTENDS DiffMsg, HashList, ConfigMap, FlagSet, Fraction, ScopeGuard

VARIABLE package

packageVars == <<package, diffVars, hashListVars, configVars, flagVars, fractionVars,
                 guardVars>>

DiffIdle == expect = <<>> /\ got = <<>> /\ batch_limit = 1 /\ DiffBegins

FractionIdle ==
  /\ frac = FractionOf(Whole(1), 1, FALSE, FALSE)
  /\ exact = Whole(1)
  /\ ops = 0

PackagesInit ==
  /\ HashListInit /\ ConfigInit /\ FlagInit /\ Init
  /\ \/ package = "diff" /\ DiffInit /\ FractionIdle
     \/ package = "numbers" /\ FractionInit /\ DiffIdle
     \/ package \in {"hashlist", "config", "flag", "guard"} /\ DiffIdle /\ FractionIdle

Diffs ==
  /\ package = "diff" /\ DiffNext
  /\ UNCHANGED <<package, hashListVars, configVars, flagVars, fractionVars, guardVars>>

HashLists ==
  /\ package = "hashlist" /\ HashListNext
  /\ UNCHANGED <<package, diffVars, configVars, flagVars, fractionVars, guardVars>>

Configs ==
  /\ package = "config" /\ ConfigNext
  /\ UNCHANGED <<package, diffVars, hashListVars, flagVars, fractionVars, guardVars>>

Flags ==
  /\ package = "flag" /\ FlagNext
  /\ UNCHANGED <<package, diffVars, hashListVars, configVars, fractionVars, guardVars>>

Calculations ==
  /\ package = "numbers" /\ FractionNext
  /\ UNCHANGED <<package, diffVars, hashListVars, configVars, flagVars, guardVars>>

ScopeGuards ==
  /\ package = "guard" /\ Next
  /\ UNCHANGED <<package, diffVars, hashListVars, configVars, flagVars, fractionVars>>

PackagesNext == Diffs \/ HashLists \/ Configs \/ Flags \/ Calculations \/ ScopeGuards

PackagesSpec == PackagesInit /\ [][PackagesNext]_packageVars

(* The nodes of the heap are alike. *)
Symmetry == Permutations(Nodes)
=============================================================================
