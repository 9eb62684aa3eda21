------------------------------ MODULE Fraction ------------------------------
(***************************************************************************)
(* cppkg/numbers/decimal.h and decimal.cc: Fraction, a numerator over an   *)
(* unsigned denominator, with products, powers and 1 - f.  A denominator   *)
(* has DenomBits bits (64 in the code).  The numerator is a double; here   *)
(* it is an exact rational, so that what the model finds inexact is not a  *)
(* matter of rounding.                                                     *)
(***************************************************************************)
EXTENDS Integers, FiniteSetsExt

CONSTANTS
  DenomBits,
  NumLimit,  \* the largest numerator of a product, 1000000 in the code
  MaxPow,    \* bound: exponents
  MaxOps     \* bound: operations on a fraction

ASSUME FractionAssumption ==
  /\ DenomBits \in Nat \ {0}
  /\ NumLimit \in Nat /\ MaxPow \in Nat /\ MaxOps \in Nat
  /\ 2^DenomBits \in Nat \ {0}    \* follows, but no prover has rules for powers

VARIABLES
  frac,   \* a Fraction, the result so far
  exact,  \* history: the number it should be
  ops     \* operations so far

fractionVars == <<frac, exact, ops>>

-----------------------------------------------------------------------------
(* Exact numbers, in lowest terms. *)

gcd[p \in Nat \X Nat] == IF p[2] = 0 THEN p[1] ELSE gcd[<<p[2], p[1] % p[2]>>]

Lowest(a, b) == [a |-> a \div gcd[<<a, b>>], b |-> b \div gcd[<<a, b>>]]

Mult(p, q) == Lowest(p.a * q.a, p.b * q.b)
Less(p) == Lowest(p.b - p.a, p.b)
Whole(i) == [a |-> i, b |-> 1]

ToThe(p, n) ==
  LET power[i \in 0 .. n] == IF i = 0 THEN Whole(1) ELSE Mult(p, power[i - 1])
  IN  power[n]

-----------------------------------------------------------------------------
(* Fraction *)

(* Besides the members, whether on the way here a product of denominators  *)
(* was cut to DenomBits bits, or the assertion numerator <= denominator    *)
(* failed, which ends the program.                                         *)
FractionOf(num, denom, cut, failed) ==
  [num |-> num, denom |-> denom, cut |-> cut, failed |-> failed \/ num.a > denom * num.b]

(* operator double: no number when the denominator is 0. *)
Value(f) == Lowest(f.num.a, f.num.b * f.denom)

highest_1bit(val) == Max({0} \cup {r \in 0 .. DenomBits - 1 : 2^r <= val})

mul_is_safe(a, b) == highest_1bit(a) + highest_1bit(b) <= DenomBits

(* Seeded fault: the denominator of l is dropped, but not divided by. *)
FaultUnsafeNum(l) == l.num
UnsafeNum(l) == Value(l)

(* operator *: the numerators are finite numbers here. *)
Product(l, r) ==
  LET proj_num == Mult(l.num, r.num)
      wide == l.denom * r.denom
      failed == l.failed \/ r.failed
      cut == l.cut \/ r.cut
  IN  IF failed THEN [l EXCEPT !.failed = TRUE]
      ELSE IF proj_num.a > NumLimit * proj_num.b \/ ~mul_is_safe(l.denom, r.denom)
        THEN FractionOf(Mult(UnsafeNum(l), r.num), r.denom, cut, failed)
      ELSE FractionOf(proj_num, wide % 2^DenomBits, cut \/ wide >= 2^DenomBits, failed)

(* By squaring: pow(l, r / 2) times itself, and times l when r is odd. *)
pow(l, n) ==
  LET power[r \in 0 .. n] ==
        CASE r = 0 -> FractionOf(Whole(1), 1, FALSE, FALSE)
          [] r = 1 -> l
          [] OTHER -> LET half == power[r \div 2]
                          out == Product(half, half)
                      IN  IF r % 2 = 1 THEN Product(out, l) ELSE out
  IN  power[n]

reverse(f) ==
  FractionOf(Lowest(f.denom * f.num.b - f.num.a, f.num.b), f.denom, f.cut, f.failed)

-----------------------------------------------------------------------------
(* A calculation. *)

Proper == UNION {{FractionOf(Whole(a), d, FALSE, FALSE) : a \in 0 .. d} : d \in 1 .. 2^DenomBits - 1}

FractionInit ==
  /\ frac \in Proper
  /\ exact = Value(frac)
  /\ ops = 0

Calculates(f, number) ==
  /\ ~frac.failed /\ ops < MaxOps
  /\ frac' = f
  /\ exact' = number
  /\ ops' = ops + 1

Multiply == \E r \in Proper : Calculates(Product(frac, r), Mult(exact, Value(r)))
MultiplyInto == \E l \in Proper : Calculates(Product(l, frac), Mult(Value(l), exact))
Pow == \E n \in 0 .. MaxPow : Calculates(pow(frac, n), ToThe(exact, n))
Complement == Calculates(reverse(frac), Less(exact))

FractionNext == Multiply \/ MultiplyInto \/ Pow \/ Complement

FractionSpec == FractionInit /\ [][FractionNext]_fractionVars

-----------------------------------------------------------------------------
(* Properties. *)

(* A calculation whose denominators fit in 64 bits is exact, whichever way *)
(* its products were taken, and the assertion numerator <= denominator     *)
(* holds in it.                                                            *)
ProductExact ==
  ~frac.cut => ~frac.failed /\ Value(frac) = exact
=============================================================================
