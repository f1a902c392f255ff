---------------------------- MODULE MCDriverUpdate ----------------------------
(* Callers for checking DriverUpdate.                                      *)
EXTENDS DriverUpdate

CONSTANTS a1, a2, a3, a4

ThreeCallers == {a1, a2, a3}
FourCallers  == {a1, a2, a3, a4}

=============================================================================
