------------------------------ MODULE SoftDelete ------------------------------
(***************************************************************************)
(* A table with soft deletion (delete(), restore() and hardDelete() of     *)
(* src/core/table.ts) and one of its records: deletion writes the value    *)
(* back with the time in a field _deletedAt, restoration writes it back    *)
(* without; each reads first.  The calls of several callers interleave     *)
(* between the read and the write.                                         *)
(*                                                                         *)
(* A value has a kind and fields; a scalar, or null, has one field of its  *)
(* own.  The fields' contents tell the values apart.                       *)
(***************************************************************************)
EXTENDS Naturals, FiniteSets, Functions

CONSTANTS
  Callers,
  Values,           (* what set() is called with                           *)
  MaxSteps,         (* bound on the calls                                  *)
  None

VARIABLES
  row,              (* the record                                          *)
  mortal,           (* it has a time to live                               *)
  call,             (* what each caller is doing                           *)
  steps             (* calls so far                                        *)

vars == <<row, mortal, call, steps>>

Idle == [pc |-> "idle", read |-> None]

Init ==
  /\ row = None /\ mortal = FALSE
  /\ call = [c \in Callers |-> Idle]
  /\ steps = 0

-----------------------------------------------------------------------------
Field(name, content) == [n \in {name} |-> content]
Object(fields)       == [kind |-> "object", of |-> fields]
Scalar(content)      == [kind |-> "scalar", of |-> Field("is", content)]

Joined(f, g) == [n \in DOMAIN f \cup DOMAIN g |-> IF n \in DOMAIN g THEN g[n] ELSE f[n]]

IsDeleted(v) == v # None /\ v.kind = "object" /\ "_deletedAt" \in DOMAIN v.of

(* get(): a record that is deleted is not there.                           *)
Visible(v) == IF IsDeleted(v) THEN None ELSE v

(* { ...value, _deletedAt }, which makes an object of an array, too; or    *)
(* { _value, _deletedAt }.                                                 *)
Buried(v) ==
  Object(Joined(IF v.kind = "scalar" THEN Field("_value", v.of["is"]) ELSE v.of,
                Field("_deletedAt", "now")))

(* Mutant: whatever has a _value is unwrapped.                             *)
UnearthedEagerly(v) ==
  IF "_value" \in DOMAIN v.of THEN Scalar(v.of["_value"])
  ELSE Object(Restrict(v.of, DOMAIN v.of \ {"_deletedAt"}))

Unearthed(v) ==
  IF DOMAIN v.of = {"_value", "_deletedAt"} THEN Scalar(v.of["_value"])
  ELSE Object(Restrict(v.of, DOMAIN v.of \ {"_deletedAt"}))

(* What set() is called with: scalars and objects.                         *)
SoftDeleteAssumption ==
  \A v \in Values : /\ v # None
                    /\ \/ v.kind = "scalar" /\ v = Scalar(v.of["is"])
                       \/ v = Object([n \in DOMAIN v.of |-> v.of[n]])

-----------------------------------------------------------------------------
Begins(c) ==
  /\ call[c].pc = "idle" /\ steps < MaxSteps
  /\ steps' = steps + 1

Set(c) ==
  /\ Begins(c)
  /\ row' \in Values /\ mortal' \in BOOLEAN
  /\ UNCHANGED call

HardDelete(c) ==
  /\ Begins(c)
  /\ row' = None /\ mortal' = FALSE
  /\ UNCHANGED call

(* Both write the value back without a time to live.  delete() of what is  *)
(* not there, or is deleted, answers false.                                *)
DeleteReads(c) ==
  /\ Begins(c)
  /\ call' = IF Visible(row) = None THEN call ELSE [call EXCEPT ![c] = [pc |-> "bury", read |-> row]]
  /\ UNCHANGED <<row, mortal>>

DeleteWrites(c) ==
  /\ call[c].pc = "bury"
  /\ row' = Buried(call[c].read) /\ mortal' = FALSE
  /\ call' = [call EXCEPT ![c] = Idle]
  /\ UNCHANGED steps

RestoreReads(c) ==
  /\ Begins(c)
  /\ call' = IF IsDeleted(row) THEN [call EXCEPT ![c] = [pc |-> "unearth", read |-> row]] ELSE call
  /\ UNCHANGED <<row, mortal>>

RestoreWrites(c) ==
  /\ call[c].pc = "unearth"
  /\ row' = Unearthed(call[c].read) /\ mortal' = FALSE
  /\ call' = [call EXCEPT ![c] = Idle]
  /\ UNCHANGED steps

Expires ==
  /\ mortal
  /\ row' = None /\ mortal' = FALSE
  /\ UNCHANGED <<call, steps>>

Next ==
  \/ \E c \in Callers :
       \/ Set(c) \/ HardDelete(c) \/ DeleteReads(c) \/ DeleteWrites(c)
       \/ RestoreReads(c) \/ RestoreWrites(c)
  \/ Expires

Spec == Init /\ [][Next]_vars

-----------------------------------------------------------------------------
(* Whoever reads, reads a value that some set() was given: neither a       *)
(* deletion nor a restoration, interleaved as they may be, invents one.    *)
(* (Values are objects without a lone _value, and scalars: an array, or    *)
(* { _value }, comes back as something else.)                              *)
NothingInvented == Visible(row) \in Values \cup {None}

(* Found violated: neither call undoes what was written after it had read. *)
NothingUndone ==
  [][\A c \in Callers : DeleteWrites(c) \/ RestoreWrites(c) => row = call[c].read]_vars

=============================================================================
