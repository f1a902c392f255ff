----------------------------- MODULE MCLifecycle -----------------------------
(* Names for checking Lifecycle.                                           *)
EXTENDS Lifecycle

CONSTANTS j1, j2, l1, l2, r1, r2, n1, n2, k1, k2, w1, w2, w3

=============================================================================
