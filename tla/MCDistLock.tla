------------------------------ MODULE MCDistLock ------------------------------
(* Callers for checking DistLock.                                          *)
EXTENDS DistLock

CONSTANTS c1, c2, c3

TwoCallers   == {c1, c2}
ThreeCallers == {c1, c2, c3}

=============================================================================
