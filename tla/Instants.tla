------------------------------ MODULE Instants ------------------------------
(***************************************************************************)
(* Instant and Duration.  An Instant is an i32, a reading of the cycle     *)
(* counter, which wraps; an i32 runs from -Half to Half-1.  Operands are   *)
(* in that range, so a sum or a difference leaves it by one turn at most.  *)
(***************************************************************************)
EXTENDS Integers

CONSTANTS Half,            \* 2^31
          OverflowChecks   \* how the program was built

ASSUME WidthAssumption == Half \in Nat \ {0} /\ OverflowChecks \in BOOLEAN

I32 == -Half .. Half - 1

Wrap(i) == IF i >= Half THEN i - 2 * Half
           ELSE IF i < -Half THEN i + 2 * Half
           ELSE i

WrappingAdd(a, b) == Wrap(a + b)
WrappingSub(a, b) == Wrap(a - b)

(* Mutant: `derive(PartialOrd, Ord)`.                                      *)
EarlierPlain(a, b) == a < b

(* impl Ord for Instant: the sign of the wrapped difference.               *)
Earlier(a, b) == WrappingSub(a, b) < 0

Panic == -1

(* Mutant: `cmp::max(self.0, earlier.0) - cmp::min(..)`, the distance.     *)
DurationBetween(later, earlier) ==
    IF later >= earlier THEN later - earlier ELSE earlier - later

(* Instant::duration_since, which is also `later - earlier` and elapsed:   *)
(* a plain subtraction, then an assertion.                                 *)
DurationSince(later, earlier) ==
    IF OverflowChecks /\ later - earlier \notin I32 THEN Panic
    ELSE IF WrappingSub(later, earlier) < 0 THEN Panic
    ELSE WrappingSub(later, earlier)
=============================================================================
