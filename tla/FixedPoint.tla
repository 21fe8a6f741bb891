----------------------------- MODULE FixedPoint -----------------------------
(***************************************************************************)
(* libraries/FixedPoint.sol: unsigned fixed-point arithmetic.  A number x  *)
(* stands for x / ONE; the library has ONE = 10^18 and the models take a   *)
(* small ONE, so that a rounding error is large beside the amounts and a   *)
(* property that rounding can break breaks in a short run.  The library's  *)
(* products and quotients are exact integers rounded once, and overflow    *)
(* of 256 bits reverts; amounts in the models never come near 2^256.       *)
(*                                                                         *)
(* DivDown and DivUp are undefined for a zero divisor, where the library   *)
(* reverts with ZERO_DIVISION: a caller for which the divisor can be zero  *)
(* states that in its guard.                                               *)
(***************************************************************************)
EXTENDS Naturals

CONSTANT ONE    \* FixedPoint.ONE

ASSUME ONEAssumption == ONE \in Nat \ {0}

MulDown(a, b) == (a * b) \div ONE

MulUp(a, b) == IF a * b = 0 THEN 0 ELSE (a * b - 1) \div ONE + 1

DivDown(a, b) == (a * ONE) \div b

DivUp(a, b) == IF a = 0 THEN 0 ELSE (a * ONE - 1) \div b + 1

AbsSub(a, b) == IF a >= b THEN a - b ELSE b - a

\* intPowDown: powers by repeated squaring, rounded down at every product.
IntPow[exp \in Nat] ==
    [base \in Nat |-> [result \in Nat |->
        IF exp = 0 THEN result
        ELSE IntPow[exp \div 2][MulDown(base, base)]
                   [IF exp % 2 = 1 THEN MulDown(result, base) ELSE result]]]

IntPowDown(base, exp) == IntPow[exp][base][ONE]

MinOf(x, y) == IF x < y THEN x ELSE y

MaxOf(x, y) == IF x > y THEN x ELSE y

=============================================================================
