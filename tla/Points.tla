------------------------------- MODULE Points -------------------------------
(* Point amounts (src/internal/models/points.go, direction.go).  A Points    *)
(* value is an int64 in hundredths of a whole point; the arithmetic has no   *)
(* overflow check, so it wraps modulo 2^64.  HalfRange stands for 2^63.      *)
EXTENDS Integers

CONSTANTS
  PointsScale,  \* stored units of one whole point: 100
  HalfRange     \* int64 holds -HalfRange .. HalfRange - 1

ASSUME PointsAssumption ==
  /\ PointsScale \in Nat \ {0}
  /\ HalfRange \in Nat \ {0}

Int64  == -HalfRange .. HalfRange - 1
Stored == 0 .. HalfRange - 1            \* what a CHECK (x >= 0) BIGINT column admits

\* Two's complement of any integer, and of the sum of two int64 values.
Wrap(n) == ((n + HalfRange) % (2 * HalfRange)) - HalfRange
WrapOnce(n) == IF n >= HalfRange THEN n - 2 * HalfRange
               ELSE IF n < -HalfRange THEN n + 2 * HalfRange
               ELSE n

PointsFromWhole(whole) == Wrap(whole * PointsScale)

\* Go's integer division truncates toward zero.
WholePoints(p) == IF p >= 0 THEN p \div PointsScale ELSE -((-p) \div PointsScale)

Add(p, delta) == WrapOnce(p + delta)
Sub(p, delta) == WrapOnce(p - delta)

(***************************************************************************)
(* Kinds and directions, "other" standing for every other string.           *)
(***************************************************************************)
Kinds      == {"earn", "spend", "adjustment"}
Directions == {"credit", "debit"}

\* The direction a kind may be posted with, "invalid" when there is none.
ResolveTransactionDirection(kind, dir) ==
  CASE kind = "earn" /\ dir = "credit"              -> "credit"
    [] kind = "spend" /\ dir = "debit"              -> "debit"
    [] kind = "adjustment" /\ dir \in Directions    -> dir
    [] OTHER                                        -> "invalid"
=============================================================================
