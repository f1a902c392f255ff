------------------------------ MODULE RowUpdate ------------------------------
(***************************************************************************)
(* What the operations of a Driver (src/drivers/types.ts) promise about    *)
(* one row.  An update reads the row, hands it to its mutator and writes   *)
(* the result in one step.  A driver may be "racy": then this holds only   *)
(* of a row that is there, and an update that found none writes without    *)
(* looking again.  A driver may be "lazy": then a get() that meets an      *)
(* expired row removes what it finds there afterwards.                     *)
(*                                                                         *)
(* A value is the set of the callers whose write is still visible in it: a *)
(* set() by a writes {a}, a mutator adds its caller.                       *)
(***************************************************************************)
EXTENDS FiniteSets

CONSTANTS
  Callers,   (* the callers, each of one operation                         *)
  Absent     (* no row                                                     *)

VARIABLES
  driver,    (* the anomalies of the driver                                *)
  row,       (* the stored value, or Absent                                *)
  expired,   (* the row is past its expires_at                             *)
  call       (* the state of every caller                                  *)

vars == <<driver, row, expired, call>>

Live == IF expired THEN Absent ELSE row

Patched(a, v) == IF v = Absent THEN {a} ELSE v \cup {a}

Init ==
  /\ driver \in SUBSET {"racy", "lazy"} /\ row = Absent /\ expired = FALSE
  /\ call = [a \in Callers |-> "idle"]

Returns(a, result) == call' = [call EXCEPT ![a] = result] /\ UNCHANGED driver

(* An update that found no row, on a racy driver.                          *)
FindsNothing(a) ==
  /\ "racy" \in driver /\ call[a] = "idle" /\ Live = Absent
  /\ Returns(a, "fresh")
  /\ UNCHANGED <<row, expired>>

(* An update.  A row that expires during the call may still be found.      *)
Update(a) ==
  /\ call[a] = "idle"
  /\ \E v \in {row, Live} : row' = Patched(a, v)
  /\ expired' = FALSE
  /\ Returns(a, "done")

(* Whatever is there by now is overwritten.                                *)
Overwrite(a) ==
  /\ call[a] = "fresh"
  /\ row' = Patched(a, Absent) /\ expired' = FALSE
  /\ Returns(a, "done")

Set(a) ==
  /\ call[a] = "idle"
  /\ row' = {a} /\ expired' = FALSE
  /\ Returns(a, "done")

Delete(a) ==
  /\ call[a] = "idle"
  /\ row' = Absent /\ expired' = FALSE
  /\ Returns(a, "done")

(* A get() of an expired row.                                              *)
FindsExpired(a) ==
  /\ "lazy" \in driver /\ call[a] = "idle" /\ expired
  /\ Returns(a, "dropping")
  /\ UNCHANGED <<row, expired>>

Drop(a) ==
  /\ call[a] = "dropping"
  /\ row' = Absent /\ expired' = FALSE
  /\ Returns(a, "done")

Get(a) ==
  /\ call[a] = "idle"
  /\ Returns(a, "done")
  /\ UNCHANGED <<row, expired>>

(* Write contention, a deadlock, a lost connection.                        *)
Fail(a) ==
  /\ call[a] \in {"idle", "fresh", "dropping"}
  /\ Returns(a, "failed")
  /\ UNCHANGED <<row, expired>>

(* The row expires, or an expired row is removed.                          *)
Expire ==
  /\ row # Absent
  /\ \/ expired' = TRUE /\ UNCHANGED row
     \/ row' = Absent /\ expired' = FALSE
  /\ UNCHANGED <<driver, call>>

Next ==
  \/ \E a \in Callers : \/ FindsNothing(a) \/ Update(a) \/ Overwrite(a)
                        \/ Set(a) \/ Delete(a) \/ Get(a)
                        \/ FindsExpired(a) \/ Drop(a) \/ Fail(a)
  \/ Expire

Spec == Init /\ [][Next]_vars

=============================================================================
