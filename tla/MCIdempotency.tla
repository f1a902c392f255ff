----------------------------- MODULE MCIdempotency -----------------------------
(* Callers for checking Idempotency.                                       *)
EXTENDS Idempotency

TwoCallers   == 1..2
ThreeCallers == 1..3

=============================================================================
