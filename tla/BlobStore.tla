------------------------------ MODULE BlobStore ------------------------------
(***************************************************************************)
(* BlobStorage (src/blob/blob.ts) for one key: a blob is cut into chunks,  *)
(* which are written at once, and a manifest written after them; a reader  *)
(* or a deletion takes the number of the chunks from the manifest.  No     *)
(* transaction binds the records together.  A record may expire, and a     *)
(* call may fail between any two of its steps.                             *)
(*                                                                         *)
(* A record goes by the call of putBlob() that wrote it.  The chunks of a  *)
(* reader are got, and those of a deletion deleted, one by one: getMany()  *)
(* and deleteMany() are single statements on some drivers only.            *)
(***************************************************************************)
EXTENDS Naturals

CONSTANTS
  Puts, Gets, Deletes,  (* the calls                                       *)
  Pieces,           (* the chunks that a call of putBlob() writes; a blob  *)
                    (* of size zero has one, which is not read             *)
  Settings,         (* how the calls are made                              *)
  None

BlobStoreAssumption ==
  /\ None \notin Puts \cup Gets \cup Deletes \cup Nat
  /\ Puts \cap Gets = {} /\ Puts \cap Deletes = {} /\ Gets \cap Deletes = {}
  /\ Pieces \in [Puts -> Nat] /\ \E q \in Puts : \A p \in Puts : Pieces[p] <= Pieces[q]
  /\ \A s \in Settings : {s.alone, s.once, s.expires} \subseteq BOOLEAN /\ s.faults \in Nat

VARIABLES
  setting,          (* the one of Settings that is checked                 *)
  chunk,            (* the records of the chunks                           *)
  meta,             (* the manifest                                        *)
  call,             (* how far each call is                                *)
  faults            (* failures so far                                     *)

vars == <<setting, chunk, meta, call, faults>>

Calls  == Puts \cup Gets \cup Deletes
Most   == CHOOSE n \in {Pieces[p] : p \in Puts} : \A p \in Puts : Pieces[p] <= n
Chunks == 0..(Most - 1)
Empty  == {p \in Puts : Pieces[p] = 0}

Totals(p) == IF Pieces[p] = 0 THEN {0} ELSE 0..(Pieces[p] - 1)

Idle == [pc |-> "idle", of |-> None, todo |-> {}, got |-> [i \in Chunks |-> None]]

Init ==
  /\ setting \in Settings
  /\ chunk = [i \in Chunks |-> None] /\ meta = None
  /\ call = [c \in Calls |-> Idle]
  /\ faults = 0

Underway == {c \in Calls : call[c].pc \notin {"idle", "done", "missing", "failed"}}

(* Programs may wait for each call, or never write a key twice.            *)
MayBegin(c) ==
  /\ call[c].pc = "idle"
  /\ setting.alone => Underway = {}
  /\ setting.once /\ c \in Puts => \A p \in Puts : call[p].pc = "idle"

Goes(c, pc) == call' = [call EXCEPT ![c].pc = pc]

(* The call goes on with the rest of its records, then is as it says.      *)
Handled(c, i, pc) ==
  [call EXCEPT ![c].todo = @ \ {i}, ![c].pc = IF call[c].todo = {i} THEN pc ELSE @]

-----------------------------------------------------------------------------
Put(c) ==
  /\ MayBegin(c)
  /\ call' = [call EXCEPT ![c].pc = "chunks", ![c].of = c, ![c].todo = Totals(c)]
  /\ UNCHANGED <<setting, chunk, meta, faults>>

PutChunk(c) == \E i \in call[c].todo :
  /\ call[c].pc = "chunks"
  /\ chunk' = [chunk EXCEPT ![i] = c]
  /\ call' = Handled(c, i, "meta")
  /\ UNCHANGED <<setting, meta, faults>>

PutMeta(c) ==
  /\ call[c].pc = "meta"
  /\ meta' = c
  /\ Goes(c, "done")
  /\ UNCHANGED <<setting, chunk, faults>>

-----------------------------------------------------------------------------
(* getBlob().                                                              *)
Get(c) ==
  /\ MayBegin(c)
  /\ call' = [call EXCEPT ![c].of = meta,
                          ![c].todo = IF meta = None THEN {} ELSE Totals(meta),
                          ![c].pc = IF meta = None THEN "missing"
                                    ELSE IF meta \in Empty THEN "done" ELSE "read"]
  /\ UNCHANGED <<setting, chunk, meta, faults>>

(* Mutant: a chunk that is missing is left out.                            *)
GetLenient(c) == \E i \in call[c].todo :
  /\ call[c].pc = "read"
  /\ call' = [Handled(c, i, "done") EXCEPT ![c].got[i] = chunk[i]]
  /\ UNCHANGED <<setting, chunk, meta, faults>>

(* A chunk that is missing makes the answer undefined.                     *)
GetChunk(c) == \E i \in call[c].todo :
  /\ call[c].pc = "read"
  /\ IF chunk[i] = None THEN Goes(c, "missing")
     ELSE call' = [Handled(c, i, "done") EXCEPT ![c].got[i] = chunk[i]]
  /\ UNCHANGED <<setting, chunk, meta, faults>>

-----------------------------------------------------------------------------
(* deleteBlob(): the chunks that the manifest tells of, and the manifest.  *)
Delete(c) ==
  /\ MayBegin(c)
  /\ call' = [call EXCEPT ![c].of = meta, ![c].pc = IF meta = None THEN "missing" ELSE "erase",
                          ![c].todo = IF meta = None THEN {} ELSE Totals(meta) \cup {None}]
  /\ UNCHANGED <<setting, chunk, meta, faults>>

Erases(i) ==
  IF i = None THEN meta' = None /\ UNCHANGED chunk
  ELSE chunk' = [chunk EXCEPT ![i] = None] /\ UNCHANGED meta

Erase(c) == \E i \in call[c].todo :
  /\ call[c].pc = "erase"
  /\ Erases(i)
  /\ call' = Handled(c, i, "done")
  /\ UNCHANGED <<setting, faults>>

-----------------------------------------------------------------------------
(* A statement fails, and the call with it.                                *)
Fails(c) ==
  /\ c \in Underway /\ faults < setting.faults
  /\ Goes(c, "failed")
  /\ faults' = faults + 1
  /\ UNCHANGED <<setting, chunk, meta>>

(* Promise.all() gives up with the first statement that fails; the others  *)
(* go on, and so may that one, if only its answer was lost.                *)
GoesOn(c) == \E i \in call[c].todo :
  /\ call[c].pc = "failed"
  /\ \/ c \in Puts /\ chunk' = [chunk EXCEPT ![i] = c] /\ UNCHANGED meta
     \/ c \in Deletes /\ Erases(i)
  /\ call' = [call EXCEPT ![c].todo = @ \ {i}]
  /\ UNCHANGED <<setting, faults>>

Expires ==
  /\ setting.expires
  /\ \/ meta # None /\ meta' = None /\ UNCHANGED chunk
     \/ \E i \in Chunks : chunk[i] # None /\ chunk' = [chunk EXCEPT ![i] = None] /\ UNCHANGED meta
  /\ UNCHANGED <<setting, call, faults>>

Next ==
  \/ \E c \in Puts : Put(c) \/ PutChunk(c) \/ PutMeta(c)
  \/ \E c \in Gets : Get(c) \/ GetChunk(c)
  \/ \E c \in Deletes : Delete(c) \/ Erase(c)
  \/ \E c \in Calls : Fails(c) \/ GoesOn(c)
  \/ Expires

Spec == Init /\ [][Next]_vars

-----------------------------------------------------------------------------
(* Who gets a blob gets the whole of one: all chunks that one putBlob()    *)
(* has written, and the number of them that its manifest says.             *)
WholeOrNothing ==
  \A c \in Gets : call[c].pc = "done" /\ call[c].of \notin Empty =>
    \A i \in Totals(call[c].of) : call[c].got[i] = call[c].of

(* Not when a blob is written over by a shorter one: a deletion that has   *)
(* found the blob leaves no record of it behind.                           *)
DeletedLeavesNothing ==
  Underway = {} /\ (\E c \in Deletes : call[c].pc = "done" /\ \A p \in Puts : call[p].pc # "idle")
    => meta # None \/ \A i \in Chunks : chunk[i] = None

=============================================================================
