------------------------------- MODULE Int64 -------------------------------
(***************************************************************************)
(* The 64-bit arithmetic of the event-time operators (columnar/ops.go).    *)
(* The width is a constant, so that a small one reaches every boundary.    *)
(***************************************************************************)
EXTENDS Integers

CONSTANT Bits

ASSUME BitsAssumption == Bits \in Nat \ {0, 1}

MinInt64 == -(2 ^ (Bits - 1))
MaxInt64 == 2 ^ (Bits - 1) - 1

(* Two's complement: what + - * leave of a result. *)
Wrap(x) == ((x - MinInt64) % (2 ^ Bits)) + MinInt64

Abs(x) == IF x < 0 THEN -x ELSE x

(* Go's / and % truncate towards zero. *)
Quotient(a, b) == LET magnitude == Abs(a) \div Abs(b)
                  IN Wrap(IF (a < 0) = (b < 0) THEN magnitude ELSE -magnitude)
Remainder(a, b) == Wrap(a - b * Quotient(a, b))

(* Defect: the quotient is not rounded down for negative timestamps. *)
TruncatingDiv(value, divisor) == Quotient(value, divisor)

floorDiv(value, divisor) ==
  LET quotient == Quotient(value, divisor)
  IN IF Remainder(value, divisor) # 0 /\ ((value < 0) # (divisor < 0))
     THEN Wrap(quotient - 1) ELSE quotient

saturatingSubtract(left, right) ==
  LET result == Wrap(left - right)
  IN IF right > 0 /\ result > left THEN MinInt64
     ELSE IF right < 0 /\ result < left THEN MaxInt64
     ELSE result

(* withinWindow of a join. *)
withinWindow(left, right, window) ==
  LET difference == Wrap(left - right)
      overflows  == \/ right > 0 /\ difference > left
                    \/ right < 0 /\ difference < left
                    \/ difference = MinInt64
  IN /\ ~overflows
     /\ Abs(difference) <= window
=============================================================================
