------------------------------- MODULE DistLock -------------------------------
(***************************************************************************)
(* LockManager (src/lock/lock.ts): callers of acquireLock, of any number   *)
(* of processes, that compete for one key, and what becomes of the handles *)
(* they get.  All of it is Table.update on one row, whose mutator decides. *)
(* How updates of the row meet depends on the driver, see DriverUpdate:    *)
(*                                                                         *)
(*   "locked"      an update is one step (sqlite, mysql);                  *)
(*   "optimistic"  a mutator runs before its write, and again when the row *)
(*                 has changed in between (redis);                         *)
(*   "racy"        and an update that finds no row overwrites what is      *)
(*                 there by then (mongodb; postgres, but for the rest).    *)
(*                                                                         *)
(* Time is counted in ticks, all durations as what is left of them.  The   *)
(* processes agree on the time.  A token is the caller it was made for.    *)
(***************************************************************************)
EXTENDS Naturals

CONSTANTS
  Callers,          (* the calls of acquireLock                            *)
  Drivers,          (* the kinds of drivers to look at                     *)
  Ttl,              (* ttlMs                                               *)
  WaitTimeout,      (* waitTimeoutMs; retryIntervalMs is one tick          *)
  LateRelease,      (* a release may reach a row that is another's by now  *)
  MaxFaults,        (* the bound on lost connections and crashes           *)
  NoRow             (* no record under the key                             *)

ASSUME LockAssumption ==
  /\ Drivers \subseteq {"locked", "optimistic", "racy"}
  /\ Ttl \in Nat \ {0} /\ WaitTimeout \in Nat /\ MaxFaults \in Nat
  /\ LateRelease \in BOOLEAN
  /\ NoRow \notin [token: Callers, lease: Nat, row: Nat]

VARIABLES
  driver,      (* the kind of the driver                                   *)
  record,      (* the row: its token, what is left of expiresAt and of the *)
               (* row itself                                               *)
  pc,          (* where every call is                                      *)
  active,      (* the handle's flag                                        *)
  until,       (* what is left of the handle's expiresAt                   *)
  beat,        (* the handle's extend(), by hand or by the heartbeat       *)
  wait,        (* what is left of waitTimeoutMs                            *)
  faults       (* the faults so far                                        *)

vars == <<driver, record, pc, active, until, beat, wait, faults>>

Lease == 0 .. Ttl
Row   == [token: Callers, lease: Lease, row: 1 .. Ttl]

-----------------------------------------------------------------------------
Init ==
  /\ driver \in Drivers /\ record = NoRow /\ faults = 0
  /\ pc = [c \in Callers |-> "idle"]
  /\ active = [c \in Callers |-> FALSE]
  /\ until = [c \in Callers |-> 0]
  /\ beat = [c \in Callers |-> "none"]
  /\ wait = [c \in Callers |-> WaitTimeout]

Goto(c, where) == pc' = [pc EXCEPT ![c] = where]

(* The test of the acquiring mutator.                                      *)
Held == record # NoRow /\ record.lease > 0

Mine(c) == record # NoRow /\ record.token = c

(* Mutant: the row keeps the ttl it had.                                   *)
RecordWithOldTtl(c, lease) ==
  [token |-> c, lease |-> lease, row |-> IF Mine(c) THEN record.row ELSE Ttl]

Record(c, lease) == [token |-> c, lease |-> lease, row |-> Ttl]

(* Another connection lost, before (the row is as it was) or after the     *)
(* commit.                                                                 *)
Fault == faults < MaxFaults /\ faults' = faults + 1

-----------------------------------------------------------------------------
(* acquireLock()                                                           *)

Call(c) ==
  /\ pc[c] = "idle"
  /\ Goto(c, "trying")
  /\ UNCHANGED <<driver, record, active, until, beat, wait, faults>>

(* The record is the caller's, and the handle is made.                     *)
Granted(c) ==
  /\ record' = Record(c, Ttl)
  /\ until' = [until EXCEPT ![c] = Ttl]
  /\ active' = [active EXCEPT ![c] = TRUE]
  /\ Goto(c, "held")
  /\ UNCHANGED <<driver, beat, wait, faults>>

(* Mutant: another try, however long it has taken.                         *)
SleepsAgain(c) == Goto(c, "sleeping")

(* No lock this time: sleep, unless waitTimeoutMs has passed.              *)
Again(c) == Goto(c, IF wait[c] = 0 THEN "null" ELSE "sleeping")

Try(c) ==
  /\ pc[c] = "trying"
  /\ \/ ~Held /\ Granted(c)
     \/ /\ ~Held /\ driver = "racy" /\ record = NoRow
        /\ Goto(c, "fresh")
        /\ UNCHANGED <<driver, record, active, until, beat, wait, faults>>
     \/ /\ Held /\ Again(c)
        /\ UNCHANGED <<driver, record, active, until, beat, wait, faults>>

(* A racy driver writes what a mutator made of no row.                     *)
Overwrite(c) ==
  /\ pc[c] = "fresh"
  /\ Granted(c)

(* Any other error is taken for contention.  The record may be there.      *)
TryFails(c) ==
  /\ pc[c] \in {"trying", "fresh"} /\ Fault
  /\ \/ UNCHANGED record
     \/ (~Held \/ pc[c] = "fresh") /\ record' = Record(c, Ttl)
  /\ Again(c)
  /\ UNCHANGED <<driver, active, until, beat, wait>>

-----------------------------------------------------------------------------
(* extend()                                                                *)

(* Mutant: the timer goes on after the release.                            *)
HeartbeatAlways(c) ==
  /\ pc[c] \in {"held", "releasing", "released"} /\ beat[c] = "none"
  /\ beat' = [beat EXCEPT ![c] = "sent"]
  /\ UNCHANGED <<driver, record, pc, active, until, wait, faults>>

Heartbeat(c) ==
  /\ pc[c] = "held" /\ active[c] /\ beat[c] = "none"
  /\ beat' = [beat EXCEPT ![c] = "sent"]
  /\ UNCHANGED <<driver, record, pc, active, until, wait, faults>>

(* The handle is told that its lock is lost, or that the store cannot be   *)
(* reached.                                                                *)
Lost(c) ==
  /\ active' = [active EXCEPT ![c] = FALSE]
  /\ beat' = [beat EXCEPT ![c] = "none"]

(* The mutator of a driver that writes later: expiresAt is moved now.      *)
Mutate(c) ==
  /\ driver # "locked" /\ beat[c] = "sent" /\ Mine(c)
  /\ beat' = [beat EXCEPT ![c] = "mutated"]
  /\ until' = [until EXCEPT ![c] = Ttl]
  /\ UNCHANGED <<driver, record, pc, active, wait, faults>>

(* The lease that the mutator gives, or has given.                         *)
Extended(c) == IF beat[c] = "sent" THEN Ttl ELSE until[c]

Extend(c) ==
  /\ beat[c] # "none"
  /\ \/ /\ Mine(c)
        /\ until' = [until EXCEPT ![c] = Extended(c)]
        /\ record' = Record(c, Extended(c))
        /\ beat' = [beat EXCEPT ![c] = "none"] /\ UNCHANGED active
     \/ /\ ~Mine(c) /\ Lost(c)
        /\ UNCHANGED <<record, until>>
  /\ UNCHANGED <<driver, pc, wait, faults>>

ExtendFails(c) ==
  /\ beat[c] # "none" /\ Fault /\ Lost(c)
  /\ \/ UNCHANGED <<record, until>>
     \/ /\ Mine(c) /\ until' = [until EXCEPT ![c] = Ttl]
        /\ record' \in {record, Record(c, Ttl)}
  /\ UNCHANGED <<driver, pc, wait>>

-----------------------------------------------------------------------------
(* release()                                                               *)

Release(c) ==
  /\ pc[c] = "held"
  /\ Goto(c, IF active[c] THEN "releasing" ELSE "released")
  /\ active' = [active EXCEPT ![c] = FALSE]
  /\ UNCHANGED <<driver, record, until, beat, wait, faults>>

(* The caller's record is ended.  Another's is written as it is, but with  *)
(* the ttl of the release: one millisecond.                                *)
Released(c) ==
  [token |-> record.token, row |-> 1,
   lease |-> IF record.token = c THEN 0 ELSE record.lease]

StoreRelease(c) ==
  /\ pc[c] = "releasing"
  /\ LateRelease \/ record = NoRow \/ Mine(c)
  /\ IF record = NoRow THEN UNCHANGED record ELSE record' = Released(c)
  /\ Goto(c, "released")
  /\ UNCHANGED <<driver, active, until, beat, wait, faults>>

ReleaseFails(c) ==
  /\ pc[c] = "releasing"
  /\ Goto(c, "released")
  /\ UNCHANGED <<driver, record, active, until, beat, wait, faults>>

-----------------------------------------------------------------------------
(* The process is gone; a beat that it has sent may still arrive.          *)
Crash(c) ==
  /\ pc[c] = "held" /\ Fault
  /\ Goto(c, "crashed")
  /\ active' = [active EXCEPT ![c] = FALSE]
  /\ UNCHANGED <<driver, record, until, beat, wait>>

Less(n) == IF n = 0 THEN 0 ELSE n - 1

(* A tick of the clock: an expired row is gone, and who sleeps wakes up.   *)
Tick ==
  /\ record' = IF record = NoRow \/ record.row <= 1 THEN NoRow
               ELSE [token |-> record.token, lease |-> Less(record.lease), row |-> record.row - 1]
  /\ until' = [c \in Callers |-> Less(until[c])]
  /\ wait' = [c \in Callers |-> IF pc[c] = "idle" THEN wait[c] ELSE Less(wait[c])]
  /\ pc' = [c \in Callers |-> IF pc[c] = "sleeping" THEN "trying" ELSE pc[c]]
  /\ UNCHANGED <<driver, active, beat, faults>>

Next ==
  \/ \E c \in Callers :
       \/ Call(c) \/ Try(c) \/ Overwrite(c) \/ TryFails(c)
       \/ Heartbeat(c) \/ Mutate(c) \/ Extend(c) \/ ExtendFails(c)
       \/ Release(c) \/ StoreRelease(c) \/ ReleaseFails(c) \/ Crash(c)
  \/ Tick

Spec == Init /\ [][Next]_vars

(* Updates return, and time passes.                                        *)
FairSpec ==
  /\ Spec /\ WF_vars(Tick)
  /\ \A c \in Callers :
       WF_vars(Try(c)) /\ WF_vars(Overwrite(c)) /\ WF_vars(Extend(c))
       /\ WF_vars(StoreRelease(c) \/ ReleaseFails(c))

-----------------------------------------------------------------------------
(* The types of the variables.                                             *)
TypeOK ==
  /\ driver \in Drivers /\ faults \in 0 .. MaxFaults
  /\ record \in Row \cup {NoRow}
  /\ pc \in [Callers -> {"idle", "trying", "fresh", "sleeping", "null", "held",
                         "releasing", "released", "crashed"}]
  /\ active \in [Callers -> BOOLEAN]
  /\ until \in [Callers -> Lease]
  /\ beat \in [Callers -> {"none", "sent", "mutated"}]
  /\ wait \in [Callers -> 0 .. WaitTimeout]

(* The handle says that the lock is its caller's, and is not waiting for   *)
(* an extension that it has counted already.                               *)
Entitled(c) == pc[c] = "held" /\ active[c] /\ until[c] > 0 /\ beat[c] # "mutated"

(* Mutual exclusion (lock/types.ts:44, SPEC.md section 17): as long as a   *)
(* handle says that it has the lock, the record of the key is its caller's *)
(* and lasts as long as the handle says, whoever else tries, extends,      *)
(* releases, fails or crashes.  Not so on a racy driver.                   *)
HandleTruthful ==
  driver # "racy" =>
    \A c \in Callers : Entitled(c) => Mine(c) /\ record.lease >= until[c]

(* Two handles never say so at the same time.                              *)
Exclusive ==
  driver # "racy" => \A c, d \in Callers : Entitled(c) /\ Entitled(d) => c = d

(* Every acquireLock returns, with a handle or with null, even when the    *)
(* holder never releases or has crashed (lock.ts:138).                     *)
AcquireReturns ==
  \A c \in Callers : pc[c] = "trying" ~> pc[c] \in {"held", "released", "null", "crashed"}

(* A lock that nobody is using becomes free (lock/types.ts:5, "the lock    *)
(* automatically expires"): its caller has crashed, has released it, or    *)
(* has been told null although its record had been written.                *)
LockComesBack ==
  \A c \in Callers : pc[c] \in {"crashed", "released", "null"} ~> ~(Held /\ Mine(c))

=============================================================================
