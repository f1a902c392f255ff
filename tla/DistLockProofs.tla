---------------------------- MODULE DistLockProofs ----------------------------
(***************************************************************************)
(* Mutual exclusion of DistLock, for any number of callers, any lease and  *)
(* any number of faults, on every driver that does not overwrite what      *)
(* another caller has written, as long as no release comes late.           *)
(***************************************************************************)
EXTENDS DistLock, TLAPS

(* A row lasts at least as long as what it says.                           *)
RowLasts == record # NoRow => record.lease <= record.row

(* Only a racy driver has an update under way that has found nothing.      *)
FreshIsRacy == \A c \in Callers : pc[c] = "fresh" => driver = "racy"

(* The inductive invariant.                                                *)
Inv == TypeOK /\ RowLasts /\ FreshIsRacy /\ HandleTruthful

-----------------------------------------------------------------------------
(* The types survive every step.                                           *)
LEMMA TypeStep == TypeOK /\ [Next]_vars => TypeOK'
<1> SUFFICES ASSUME TypeOK, [Next]_vars PROVE TypeOK'
  OBVIOUS
<1> USE LockAssumption DEF TypeOK, Lease
<1>1. CASE UNCHANGED vars
  BY <1>1 DEF vars
<1>0. /\ Ttl \in Lease /\ 0 \in Lease /\ 1 \in 1 .. Ttl /\ Ttl \in 1 .. Ttl
      /\ Fault => faults' \in 0 .. MaxFaults
      /\ \A n \in Lease : Less(n) \in Lease
      /\ \A n \in 0 .. WaitTimeout : Less(n) \in 0 .. WaitTimeout
  BY DEF Fault, Less
<1>2. ASSUME NEW c \in Callers, NEW lease \in Lease
      PROVE  Record(c, lease) \in Row
  BY <1>0 DEF Record, Row
<1>3. ASSUME NEW c \in Callers, Call(c) PROVE TypeOK'
  BY <1>3 DEF Call, Goto
<1>4. ASSUME NEW c \in Callers, Granted(c) PROVE TypeOK'
  BY <1>0, <1>2, <1>4 DEF Granted, Goto
<1>5. ASSUME NEW c \in Callers, Try(c) PROVE TypeOK'
  BY <1>4, <1>5 DEF Try, Again, Goto
<1>6. ASSUME NEW c \in Callers, Overwrite(c) PROVE TypeOK'
  BY <1>4, <1>6 DEF Overwrite
<1>7. ASSUME NEW c \in Callers, TryFails(c) PROVE TypeOK'
  <2>1. record' \in Row \cup {NoRow}
    BY <1>0, <1>2, <1>7 DEF TryFails
  <2>2. pc' = [pc EXCEPT ![c] = "null"] \/ pc' = [pc EXCEPT ![c] = "sleeping"]
    BY <1>7 DEF TryFails, Again, Goto
  <2> QED
    BY <1>0, <1>7, <2>1, <2>2 DEF TryFails
<1>8. ASSUME NEW c \in Callers, Heartbeat(c) PROVE TypeOK'
  BY <1>8 DEF Heartbeat
<1>9. ASSUME NEW c \in Callers, Mutate(c) PROVE TypeOK'
  BY <1>0, <1>9 DEF Mutate
<1>10. ASSUME NEW c \in Callers, Extend(c) PROVE TypeOK'
  <2>1. Extended(c) \in Lease
    BY <1>0 DEF Extended
  <2>2. Record(c, Extended(c)) \in Row
    BY <1>2, <2>1
  <2> QED
    BY <1>10, <2>1, <2>2 DEF Extend, Lost
<1>11. ASSUME NEW c \in Callers, ExtendFails(c) PROVE TypeOK'
  <2>1. until' \in [Callers -> Lease] /\ beat' \in [Callers -> {"none", "sent", "mutated"}]
        /\ active' \in [Callers -> BOOLEAN]
    BY <1>0, <1>11 DEF ExtendFails, Lost
  <2>2. record' \in Row \cup {NoRow}
    BY <1>0, <1>2, <1>11 DEF ExtendFails
  <2> QED
    BY <1>0, <1>11, <2>1, <2>2 DEF ExtendFails
<1>12. ASSUME NEW c \in Callers, Release(c) PROVE TypeOK'
  BY <1>12 DEF Release, Goto
<1>13. ASSUME NEW c \in Callers, StoreRelease(c) PROVE TypeOK'
  <2>1. CASE record = NoRow
    BY <1>13, <2>1 DEF StoreRelease, Goto
  <2>2. CASE record # NoRow
    <3>1. Released(c) \in Row
      BY <1>0, <2>2 DEF Released, Row
    <3> QED
      BY <1>13, <2>2, <3>1 DEF StoreRelease, Goto
  <2> QED
    BY <2>1, <2>2
<1>14. ASSUME NEW c \in Callers, ReleaseFails(c) PROVE TypeOK'
  BY <1>14 DEF ReleaseFails, Goto
<1>15. ASSUME NEW c \in Callers, Crash(c) PROVE TypeOK'
  BY <1>0, <1>15 DEF Crash, Goto
<1>16. CASE Tick
  <2>1. record' \in Row \cup {NoRow}
    <3>1. CASE record = NoRow \/ record.row <= 1
      BY <1>16, <3>1 DEF Tick
    <3>2. CASE ~(record = NoRow \/ record.row <= 1)
      BY <1>0, <1>16, <3>2 DEF Tick, Row
    <3> QED
      BY <3>1, <3>2
  <2> QED
    BY <1>0, <1>16, <2>1 DEF Tick
<1> QED
  BY <1>1, <1>3, <1>5, <1>6, <1>7, <1>8, <1>9, <1>10, <1>11, <1>12, <1>13, <1>14,
     <1>15, <1>16 DEF Next

(* What a handle says stays true.                                          *)
LEMMA TruthStep ==
  ASSUME ~LateRelease, Inv, [Next]_vars
  PROVE  RowLasts' /\ FreshIsRacy' /\ HandleTruthful'
<1>0. TypeOK /\ RowLasts /\ FreshIsRacy /\ HandleTruthful
  BY DEF Inv
<1> USE LockAssumption, <1>0 DEF RowLasts, FreshIsRacy, HandleTruthful, Entitled
<1>01. /\ Ttl \in Lease /\ Lease \subseteq Nat /\ \A n \in Lease : n <= Ttl
       /\ record # NoRow => record.lease \in Lease /\ record.lease \in Nat /\ record.row \in Nat
       /\ \A c \in Callers : until[c] \in Lease /\ until[c] \in Nat
  BY DEF TypeOK, Lease, Row
<1>02. ASSUME NEW c \in Callers, NEW n \in Lease
       PROVE  /\ Record(c, n) # NoRow /\ Record(c, n).token = c
              /\ Record(c, n).lease = n /\ Record(c, n).row = Ttl
  <2>1. Record(c, n) \in [token: Callers, lease: Nat, row: Nat]
    BY <1>01 DEF Record
  <2> QED
    BY <2>1 DEF Record
<1>03. ASSUME driver # "racy", ~Held PROVE \A d \in Callers : ~Entitled(d)
  <2> SUFFICES ASSUME NEW d \in Callers, Entitled(d) PROVE FALSE
    OBVIOUS
  <2>1. record # NoRow /\ record.lease >= until[d] /\ until[d] > 0
    BY <1>03 DEF Mine
  <2>2. record.lease > 0
    BY <1>01, <2>1
  <2> QED
    BY <1>03, <2>1, <2>2 DEF Held
<1>1. CASE UNCHANGED vars
  BY <1>1 DEF vars, Mine
<1>2. ASSUME NEW c \in Callers, Call(c) PROVE RowLasts' /\ FreshIsRacy' /\ HandleTruthful'
  BY <1>2 DEF Call, Goto, Mine, TypeOK
<1>3. ASSUME NEW c \in Callers, Granted(c), driver = "racy" \/ ~Held
      PROVE  RowLasts' /\ FreshIsRacy' /\ HandleTruthful'
  <2>1. \A d \in Callers : driver # "racy" => ~Entitled(d)
    BY <1>03, <1>3
  <2> QED
    BY <1>01, <1>02, <1>3, <2>1 DEF Granted, Goto, Mine, TypeOK
<1>4. ASSUME NEW c \in Callers, Try(c) PROVE RowLasts' /\ FreshIsRacy' /\ HandleTruthful'
  <2>1. CASE ~Held /\ Granted(c)
    BY <1>3, <2>1
  <2>2. CASE /\ driver = "racy" /\ Goto(c, "fresh")
             /\ UNCHANGED <<driver, record, active, until, beat, wait, faults>>
    BY <2>2 DEF Goto, TypeOK
  <2>3. CASE Again(c) /\ UNCHANGED <<driver, record, active, until, beat, wait, faults>>
    BY <2>3 DEF Again, Goto, Mine, TypeOK
  <2> QED
    BY <1>4, <2>1, <2>2, <2>3 DEF Try
<1>5. ASSUME NEW c \in Callers, Overwrite(c) PROVE RowLasts' /\ FreshIsRacy' /\ HandleTruthful'
  BY <1>3, <1>5 DEF Overwrite
<1>6. ASSUME NEW c \in Callers, TryFails(c) PROVE RowLasts' /\ FreshIsRacy' /\ HandleTruthful'
  <2>1. CASE UNCHANGED record
    BY <1>6, <2>1 DEF TryFails, Again, Goto, Mine, TypeOK
  <2>2. CASE (~Held \/ pc[c] = "fresh") /\ record' = Record(c, Ttl)
    <3>0. driver = "racy" \/ ~Held
      BY <2>2
    <3>1. \A d \in Callers : driver # "racy" => ~Entitled(d)
      BY <1>03, <3>0
    <3> QED
      BY <1>01, <1>02, <1>6, <2>2, <3>1 DEF TryFails, Again, Goto, Mine, TypeOK
  <2> QED
    BY <1>6, <2>1, <2>2 DEF TryFails
<1>7. ASSUME NEW c \in Callers, Heartbeat(c) PROVE RowLasts' /\ FreshIsRacy' /\ HandleTruthful'
  BY <1>7 DEF Heartbeat, Mine, TypeOK
<1>8. ASSUME NEW c \in Callers, Mutate(c) PROVE RowLasts' /\ FreshIsRacy' /\ HandleTruthful'
  BY <1>8 DEF Mutate, Mine, TypeOK
<1>9. ASSUME NEW c \in Callers, Extend(c) PROVE RowLasts' /\ FreshIsRacy' /\ HandleTruthful'
  <2>1. CASE Mine(c)
    <3>1. Extended(c) \in Lease
      BY <1>01 DEF Extended
    <3>2. \A d \in Callers \ {c} : driver # "racy" => ~Entitled(d)
      BY <2>1 DEF Mine
    <3> QED
      <4>1. /\ record' = Record(c, Extended(c)) /\ until'[c] = Extended(c)
            /\ UNCHANGED <<driver, pc, active>>
            /\ \A d \in Callers \ {c} : until'[d] = until[d] /\ beat'[d] = beat[d]
        BY <1>9, <2>1 DEF Extend, TypeOK
      <4>2. /\ record' # NoRow /\ record'.token = c
            /\ record'.lease = Extended(c) /\ record'.row = Ttl
        BY <1>02, <3>1, <4>1
      <4>3. \A d \in Callers \ {c} : driver # "racy" => ~Entitled(d)'
        BY <3>2, <4>1
      <4>4. Extended(c) \in Nat /\ Extended(c) <= Ttl
        BY <1>01, <3>1
      <4>5. RowLasts'
        BY <4>2, <4>4
      <4>6. FreshIsRacy'
        BY <4>1
      <4>7. HandleTruthful'
        BY <4>1, <4>2, <4>3, <4>4 DEF Mine
      <4> QED
        BY <4>5, <4>6, <4>7
  <2>2. CASE ~Mine(c)
    BY <1>9, <2>2 DEF Extend, Lost, Mine, TypeOK
  <2> QED
    BY <2>1, <2>2
<1>10. ASSUME NEW c \in Callers, ExtendFails(c) PROVE RowLasts' /\ FreshIsRacy' /\ HandleTruthful'
  <2>1. ~active'[c] /\ \A d \in Callers \ {c} : active'[d] = active[d] /\ beat'[d] = beat[d]
    BY <1>10 DEF ExtendFails, Lost, TypeOK
  <2>2. CASE UNCHANGED <<record, until>>
    BY <1>10, <2>1, <2>2 DEF ExtendFails, Mine
  <2>3. CASE /\ Mine(c) /\ until' = [until EXCEPT ![c] = Ttl]
             /\ record' \in {record, Record(c, Ttl)}
    <3>1. \A d \in Callers \ {c} : driver # "racy" => ~Entitled(d)
      BY <2>3 DEF Mine
    <3> QED
      BY <1>01, <1>02, <1>10, <2>1, <2>3, <3>1 DEF ExtendFails, TypeOK
  <2> QED
    BY <1>10, <2>2, <2>3 DEF ExtendFails
<1>11. ASSUME NEW c \in Callers, Release(c) \/ ReleaseFails(c) \/ Crash(c)
       PROVE  RowLasts' /\ FreshIsRacy' /\ HandleTruthful'
  BY <1>11 DEF Release, ReleaseFails, Crash, Goto, Mine, TypeOK
<1>12. ASSUME NEW c \in Callers, StoreRelease(c) PROVE RowLasts' /\ FreshIsRacy' /\ HandleTruthful'
  <2>1. ~Entitled(c)
    BY <1>12 DEF StoreRelease
  <2>2. CASE record = NoRow
    BY <1>12, <2>2 DEF StoreRelease, Goto, Mine, TypeOK
  <2>3. CASE record # NoRow /\ Mine(c)
    <3>1. Released(c).lease = 0 /\ Released(c).row = 1
      BY <2>3 DEF Released, Mine
    <3>2. \A d \in Callers : driver # "racy" => ~Entitled(d)
      BY <2>1, <2>3 DEF Mine
    <3> QED
      BY <1>12, <2>3, <3>1, <3>2 DEF StoreRelease, Goto, TypeOK
  <2> QED
    BY <1>12, <2>2, <2>3 DEF StoreRelease
<1>13. CASE Tick
  <2>1. /\ UNCHANGED <<driver, active, beat>>
        /\ \A c \in Callers : /\ until'[c] = Less(until[c])
                              /\ pc'[c] \in {"held", "fresh"} => pc'[c] = pc[c]
    BY <1>13 DEF Tick, TypeOK
  <2>2. CASE record = NoRow \/ record.row <= 1
    <3>1. \A c \in Callers : driver # "racy" /\ Entitled(c) => until[c] <= 1
      BY <1>01, <2>2 DEF Mine, Lease
    <3>2. record' = NoRow
      BY <1>13, <2>2 DEF Tick
    <3> QED
      BY <1>01, <2>1, <3>1, <3>2 DEF Less, Lease
  <2>3. CASE ~(record = NoRow \/ record.row <= 1)
    <3>1. /\ record'.token = record.token
          /\ record'.lease = Less(record.lease) /\ record'.row = record.row - 1
      BY <1>13, <2>3 DEF Tick
    <3>2. record' # NoRow
      <4>1. record.row - 1 \in Nat /\ Less(record.lease) \in Nat /\ record.token \in Callers
        BY <1>01, <2>3 DEF Less, TypeOK, Row, Lease
      <4> QED
        BY <1>13, <2>3, <4>1 DEF Tick
    <3> QED
      BY <1>01, <2>1, <2>3, <3>1, <3>2 DEF Less, Lease, Mine
  <2> QED
    BY <2>2, <2>3
<1> QED
  BY <1>1, <1>2, <1>4, <1>5, <1>6, <1>7, <1>8, <1>9, <1>10, <1>11, <1>12, <1>13 DEF Next

(* The invariant holds in every reachable state.                           *)
THEOREM LockInvariance ==
  ASSUME ~LateRelease
  PROVE  Spec => []Inv
<1>1. Init => Inv
  BY LockAssumption DEF Init, Inv, TypeOK, Lease, RowLasts, FreshIsRacy, HandleTruthful, Entitled
<1>2. Inv /\ [Next]_vars => Inv'
  BY TypeStep, TruthStep DEF Inv
<1> QED
  BY <1>1, <1>2, PTL DEF Spec

(* The variables keep their types, whatever comes late.                    *)
THEOREM LockTypes == Spec => []TypeOK
<1>1. Init => TypeOK
  BY LockAssumption DEF Init, TypeOK, Lease
<1> QED
  BY <1>1, TypeStep, PTL DEF Spec

(* What a handle says of its lock is true (lock.ts:128).                   *)
THEOREM HandlesTellTheTruth ==
  ASSUME ~LateRelease
  PROVE  Spec => []HandleTruthful
BY LockInvariance, PTL DEF Inv

(* No two handles have the lock at the same time, whatever is tried,       *)
(* extended, released, or fails in between.                                *)
THEOREM MutualExclusion ==
  ASSUME ~LateRelease
  PROVE  Spec => []Exclusive
<1>1. Inv => Exclusive
  BY DEF Inv, HandleTruthful, Exclusive, Mine
<1> QED
  BY <1>1, LockInvariance, PTL

=============================================================================
