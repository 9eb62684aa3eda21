------------------------------ MODULE FlagSet -------------------------------
(***************************************************************************)
(* cppkg/flag/flagset.cc and flagset.h: FlagSet, which adds a help option  *)
(* to the options of a program and runs the steps of boost's               *)
(* program_options over a command line: parse, store, notify.              *)
(*                                                                         *)
(* External: boost finds an option by its name and refuses a name it finds *)
(* twice; store() takes the options of the line in turn, does not touch    *)
(* one that an earlier store() has finished with, and refuses a value that *)
(* is malformed and a second value, which a default is not; then it gives  *)
(* the options without one their defaults.  A store() that throws keeps    *)
(* what it took and finishes with none.  notify() looks for missing        *)
(* required options first and then writes the variables.                   *)
(***************************************************************************)
EXTENDS Naturals, SequencesExt

CONSTANTS
  Options,   \* what add_flags and add_arg can add
  Required,  \* those of them that are required
  Values,    \* well-formed values
  Defaulted, \* those that have a default value
  Default,   \* it
  Bad,       \* a malformed value
  Unset,     \* a variable that was not written, an option without a value
  MaxLine,   \* bound: the options on a command line
  MaxParses  \* bound: calls of parse

ASSUME FlagAssumption ==
  /\ Required \subseteq Options /\ Defaulted \subseteq Options
  /\ "help" \notin Options
  /\ {Default, Bad, Unset} \cap Values = {} /\ Unset # ""
  /\ MaxLine \in Nat /\ MaxParses \in Nat

VARIABLES
  flags_,    \* options of flags_ and args_, in the order they were added
  vars,      \* the caller's variables_map: a value for an option
  final,     \* options that an earlier store() has finished with
  variables, \* of an option: what was written to the program's variable
  line,      \* the last command line
  fresh,     \* it was parsed into a new variables_map
  result,    \* "none", "parsed", "helped", "refused"
  parses     \* how often parse was called

flagVars == <<flags_, vars, final, variables, line, fresh, result, parses>>

Names == Options \cup {"help"}
NoVars == [o \in Names |-> Unset]

FlagInit ==
  /\ flags_ = <<>>
  /\ vars = NoVars
  /\ final = {}
  /\ variables = [o \in Options |-> Unset]
  /\ line = <<>>
  /\ fresh = TRUE
  /\ result = "none"
  /\ parses = 0

(* add_flags() and add_arg(), which programs call once for a name. *)
AddOption(o) ==
  /\ ~Contains(flags_, o)
  /\ flags_' = Append(flags_, o)
  /\ UNCHANGED <<vars, final, variables, line, fresh, result, parses>>

-----------------------------------------------------------------------------
(* parse() *)

(* Words of a command line: an option and its value, which help has none of. *)
Words == (Options \X (Values \cup {Bad})) \cup {<<"help", "">>}

Once(flags, o) == \E k \in DOMAIN flags : \A l \in DOMAIN flags : flags[l] = o <=> l = k

(* run(): every name is that of one option. *)
Recognized(flags, words) == \A i \in DOMAIN words : Once(flags, words[i][1])

Refuses(map, word) == word[2] = Bad \/ map[word[1]] \notin {Unset, Default}

(* A word of the line in store(), which does nothing after a refusal. *)
Takes(before, done, word) ==
  LET old == before.map[word[1]]
  IN  IF ~before.ok \/ word[1] \in done THEN before
      ELSE IF Refuses(before.map, word)
        THEN [map |-> [before.map EXCEPT ![word[1]] = IF old = Default THEN Unset ELSE old],
              ok |-> FALSE]
      ELSE [map |-> [before.map EXCEPT ![word[1]] = word[2]], ok |-> TRUE]

(* store(): the map afterwards, and whether it came to the end. *)
Store(flags, map, done, words) ==
  LET after[i \in 0 .. Len(words)] ==
        IF i = 0 THEN [map |-> map, ok |-> TRUE] ELSE Takes(after[i - 1], done, words[i])
      taken == after[Len(words)]
      Lacks(o) == taken.ok /\ taken.map[o] = Unset /\ o \in Defaulted /\ Contains(flags, o)
  IN  [taken EXCEPT !.map = [o \in Names |-> IF Lacks(o) THEN Default ELSE taken.map[o]]]

Missing(flags, map) == {o \in Required : Contains(flags, o) /\ map[o] = Unset}

(* Seeded fault: variables are written when the values are stored. *)
FaultNotifies(flags, map) == TRUE
Notifies(flags, map) == Missing(flags, map) = {}

(* What parse does with a map: the map afterwards, the options finished    *)
(* with, whether the variables are written, and the answer.                *)
Parse(flags, map, done, words) ==
  LET stored == Store(flags, map, done, words)
      Gives(m, d, written, answer) == [map |-> m, final |-> d, written |-> written, result |-> answer]
      finished == done \cup {words[i][1] : i \in DOMAIN words}
  IN  IF ~Recognized(flags, words) THEN Gives(map, done, FALSE, "refused")
      ELSE IF ~stored.ok THEN Gives(stored.map, done, FALSE, "refused")
      ELSE IF stored.map["help"] # Unset THEN Gives(stored.map, finished, FALSE, "helped")
      ELSE Gives(stored.map, finished, Notifies(flags, stored.map),
                 IF Missing(flags, stored.map) = {} THEN "parsed" ELSE "refused")

(* Every call adds help once more. *)
parse ==
  /\ parses < MaxParses
  /\ parses' = parses + 1
  /\ flags_' = Append(flags_, "help")
  /\ line' \in BoundedSeq(Words, MaxLine)
  /\ fresh' \in BOOLEAN
  /\ LET parsed == Parse(flags_', IF fresh' THEN NoVars ELSE vars,
                         IF fresh' THEN {} ELSE final, line')
     IN  /\ vars' = IF fresh' THEN vars ELSE parsed.map
         /\ final' = IF fresh' THEN final ELSE parsed.final
         /\ result' = parsed.result
         /\ variables' = [o \in Options |->
              IF parsed.written /\ parsed.map[o] # Unset THEN parsed.map[o] ELSE variables[o]]

FlagNext == parse \/ \E o \in Options : AddOption(o)

FlagSpec == FlagInit /\ [][FlagNext]_flagVars

-----------------------------------------------------------------------------
(* Properties. *)

(* What a command line, which names no option twice, says of one. *)
Given(words, o) ==
  IF \E i \in DOMAIN words : words[i][1] = o
    THEN words[CHOOSE i \in DOMAIN words : words[i][1] = o][2]
  ELSE IF o \in Defaulted THEN Default ELSE Unset

(* A command line that is not accepted leaves every variable of the        *)
(* program as it was, however far boost got with it.  One that is accepted *)
(* did not ask for help, and with a new map it is what the variables now   *)
(* say, of all options that were added, whatever was parsed before.        *)
ParseIsAllOrNothing ==
  [][parses' # parses =>
       /\ result' # "parsed" => variables' = variables
       /\ result' = "parsed" => ~\E i \in DOMAIN line' : line'[i][1] = "help"
       /\ result' = "parsed" /\ fresh' =>
            \A o \in Options :
              LET given == IF Contains(flags_, o) THEN Given(line', o) ELSE Unset
              IN  /\ variables'[o] = IF given = Unset THEN variables[o] ELSE given
                  /\ o \in Required /\ Contains(flags_, o) => given # Unset]_flagVars
=============================================================================
