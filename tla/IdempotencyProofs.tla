-------------------------- MODULE IdempotencyProofs --------------------------
(***************************************************************************)
(* What Idempotency keeps on sqlite, for any number of calls and faults,   *)
(* and whatever the times are.                                             *)
(***************************************************************************)
EXTENDS Idempotency, FiniteSetTheorems, TLAPS

(* c has made a claim and has not yet recorded what became of it.          *)
Works(c) ==
  \/ pc[c] \in {"running", "recording", "rejecting"}
  \/ pc[c] = "claimed" /\ claimer[c]

(* isClaimer is set for one round of the loop.                             *)
ClaimerOfRound == \A c \in Callers : claimer[c] => pc[c] \in {"mutated", "claimed"}

(* On sqlite nothing comes between a mutator and its write.                *)
NotSplit == provider = "sqlite" => \A c \in Callers : pc[c] # "mutated"

(* The record is its claimer's, and no older than the claim.               *)
ClaimHeld ==
  provider = "sqlite" /\ ~amiss =>
    \A c \in Callers : Works(c) =>
      Is(record, "pending") /\ record.by = c /\ record.age <= ran[c]

(* A mutator that gets no row makes a claim.                               *)
NothingIsClaimed ==
  \A c \in Callers : pc[c] = "mutated" /\ read[c] = NoRow => claims[c]

InTime == ~amiss => \A c \in Callers : ran[c] <= Timeout

(* The inductive invariant.                                                *)
Inv == TypeOK /\ NothingIsClaimed /\ ClaimerOfRound /\ NotSplit /\ ClaimHeld /\ InTime

-----------------------------------------------------------------------------
CallTypes ==
  /\ pc \in [Callers -> {"idle", "reading", "claiming", "mutated", "claimed", "running",
                         "recording", "rejecting", "polling", "returned", "threw", "crashed"}]
  /\ claimer \in [Callers -> BOOLEAN] /\ claims \in [Callers -> BOOLEAN]
  /\ read \in [Callers -> Record \cup {NoRow}]
  /\ waited \in [Callers -> Age] /\ ran \in [Callers -> Age]

(* Leaving a place keeps the types.                                        *)
LEMMA LeavesTypes ==
  ASSUME TypeOK, NEW c \in Callers, NEW where, Leaves(c, where)
  PROVE  /\ claimer' \in [Callers -> BOOLEAN] /\ claims' \in [Callers -> BOOLEAN]
         /\ read' \in [Callers -> Record \cup {NoRow}]
         /\ waited' \in [Callers -> Age] /\ ran' \in [Callers -> Age]
         /\ claimer'[c] = FALSE /\ pc'[c] = where
         /\ ran' = ran
         /\ \A d \in Callers \ {c} : pc'[d] = pc[d] /\ claimer'[d] = claimer[d] /\ read'[d] = read[d]
         /\ read'[c] = NoRow
BY DEF TypeOK, Leaves

(* A record that is written has its type.                                  *)
LEMMA WritesType ==
  ASSUME TypeOK, IdempotencyAssumption, NEW c \in Callers,
         NEW status \in {"pending", "resolved", "rejected"}, NEW ttl \in Nat,
         Writes(c, status, ttl)
  PROVE  /\ record' \in Record /\ record' # NoRow
         /\ record'.by = c /\ record'.status = status /\ record'.age = 0
<1>1. 0 \in Age /\ Age \subseteq Nat
  BY IdempotencyAssumption DEF Age, IdempotencyAssumption
<1>2. record' \in Record
  BY <1>1 DEF Writes, Record
<1>3. record' \in [by: Callers, status: {"pending", "resolved", "rejected"}, age: Nat, ttl: Nat]
  BY <1>1, <1>2 DEF Record
<1> QED
  BY <1>2, <1>3, IdempotencyAssumption DEF Writes, IdempotencyAssumption

LEMMA TimesTypes ==
  ASSUME TypeOK, IdempotencyAssumption
  PROVE  /\ 0 \in Age /\ Age \subseteq Nat
         /\ \A n \in Age : Older(n) \in Age /\ n <= Older(n)
         /\ \A n, m \in Age : n <= m => Older(n) <= Older(m)
         /\ ttlMs \in Nat /\ RejectedTtl \in Nat
         /\ Fault => faults' \in 0 .. MaxFaults
         /\ record # NoRow => record \in Record
BY DEF Age, Older, Fault, TypeOK, IdempotencyAssumption

(* The mutator on a row; its write.                                        *)
LEMMA MutatesTypes ==
  ASSUME TypeOK, NEW c \in Callers, NEW where, Mutates(c, where)
  PROVE  /\ claimer' \in [Callers -> BOOLEAN] /\ claims' \in [Callers -> BOOLEAN]
         /\ read' \in [Callers -> Record \cup {NoRow}]
         /\ waited' \in [Callers -> Age] /\ ran' \in [Callers -> Age] /\ ran' = ran
         /\ executed' = executed /\ result' = result
         /\ pc'[c] = where /\ claimer'[c] = (claimer[c] \/ Claimable(record))
         /\ read'[c] = record /\ claims'[c] = Claimable(record)
         /\ \A d \in Callers \ {c} : pc'[d] = pc[d] /\ claimer'[d] = claimer[d] /\ read'[d] = read[d]
<1>1. Claimable(record) \in BOOLEAN
  BY DEF Claimable, Is
<1>2. (claimer[c] \/ Claimable(record)) \in BOOLEAN
  BY <1>1
<1> QED
  BY <1>1, <1>2 DEF TypeOK, Mutates

LEMMA StoresType ==
  ASSUME TypeOK, IdempotencyAssumption, NEW c \in Callers, NEW claim \in BOOLEAN,
         Stores(c, record, claim), claim \/ record # NoRow
  PROVE  /\ record' \in Record /\ record' # NoRow
         /\ claim => record'.by = c /\ record'.status = "pending" /\ record'.age = 0
         /\ ~claim => record'.by = record.by /\ record'.status = record.status
                      /\ record'.age = record.age
<1>1. CASE claim
  <2>1. Writes(c, "pending", ttlMs)
    BY <1>1 DEF Stores
  <2> QED
    BY <1>1, <2>1, WritesType, TimesTypes
<1>2. CASE ~claim
  <2>1. record \in Record /\ ttlMs \in Nat
    BY <1>2, TimesTypes
  <2>2. /\ record' \in Record
        /\ record'.by = record.by /\ record'.status = record.status /\ record'.age = record.age
    BY <1>2, <2>1 DEF Stores, Record
  <2>3. record' # NoRow
    BY <2>2, TimesTypes DEF Record, IdempotencyAssumption
  <2> QED
    BY <1>2, <2>2, <2>3
<1> QED
  BY <1>1, <1>2

(* Every step of a call does one of these to the row.                      *)
LEMMA RowOfStore ==
  ASSUME TypeOK, NothingIsClaimed, IdempotencyAssumption, NEW c \in Callers, Store(c)
  PROVE  record' \in Record
<1>1. claims[c] \in BOOLEAN /\ Stores(c, record, claims[c])
  BY DEF Store, TypeOK
<1>2. claims[c] \/ record # NoRow
  BY DEF Store, Unchanged, NothingIsClaimed
<1> QED
  BY <1>1, <1>2, StoresType

-----------------------------------------------------------------------------
Steps(c) ==
  \/ Call(c) \/ Read(c) \/ Claim(c) \/ Mutate(c) \/ Store(c) \/ MutateAgain(c)
  \/ ClaimFails(c) \/ ReadFails(c) \/ Deadlock(c) \/ StoreFails(c) \/ Claimed(c)
  \/ FnResolves(c) \/ FnRejects(c) \/ Resolve(c) \/ ResolveFails(c)
  \/ Reject(c) \/ RejectFails(c) \/ Crash(c) \/ Poll(c)

(* What a step does to a call: it leaves for another place with or without *)
(* a result, its mutator runs, or its update ends.                         *)
LEMMA Shapes ==
  ASSUME NEW c \in Callers, Steps(c)
  PROVE  \/ \E where \in {"reading", "claiming", "running", "polling", "recording",
                          "rejecting", "returned", "threw", "crashed"} : Leaves(c, where)
         \/ \E where \in {"mutated", "claimed"} : Mutates(c, where)
         \/ Ends(c)
<1>1. CASE Call(c) \/ Read(c) \/ Claimed(c) \/ Poll(c) \/ ReadFails(c)
  BY <1>1 DEF Call, Read, Claimed, Poll, ReadFails, Goto, Return
<1>2. CASE Claim(c) \/ Mutate(c) \/ MutateAgain(c) \/ ClaimFails(c)
  BY <1>2 DEF Claim, Mutate, MutateAgain, ClaimFails
<1>3. CASE Store(c) \/ Deadlock(c) \/ StoreFails(c)
  BY <1>3 DEF Store, Deadlock, StoreFails
<1>4. CASE \/ FnResolves(c) \/ FnRejects(c) \/ Resolve(c) \/ ResolveFails(c)
           \/ Reject(c) \/ RejectFails(c) \/ Crash(c)
  BY <1>4 DEF FnResolves, FnRejects, Resolve, ResolveFails, Reject, RejectFails, Crash,
     Goto, Return
<1> QED
  BY <1>1, <1>2, <1>3, <1>4 DEF Steps

(* Only a claim that cannot be written is amiss.                           *)
LEMMA Untouched ==
  ASSUME NEW c \in Callers, Steps(c)
  PROVE  /\ UNCHANGED <<provider, ttlMs>> /\ (faults' = faults \/ Fault)
         /\ \/ UNCHANGED amiss
            \/ ClaimFails(c) /\ amiss' = (amiss \/ Claimable(record))
<1>1. CASE ClaimFails(c)
  BY <1>1 DEF ClaimFails
<1>2. CASE ~ClaimFails(c)
  BY <1>2 DEF Steps, Call, Read, Claim, Mutate, Store, MutateAgain, Deadlock, StoreFails, Claimed,
     FnResolves, FnRejects, Resolve, ResolveFails, Reject, RejectFails, Crash, Poll, ReadFails
<1> QED
  BY <1>1, <1>2

(* The types survive every step.                                           *)
LEMMA TypeStep ==
  ASSUME TypeOK, NothingIsClaimed, [Next]_vars
  PROVE  TypeOK' /\ NothingIsClaimed'
<1> USE IdempotencyAssumption
<1>1. CASE UNCHANGED vars
  BY <1>1 DEF vars, calls, TypeOK, NothingIsClaimed
<1>2. ASSUME NEW c \in Callers, Steps(c) PROVE TypeOK' /\ NothingIsClaimed'
  <2>1. record' \in Record \cup {NoRow}
    <3>1. CASE Claim(c)
      <4>1. Claimable(record) \in BOOLEAN /\ (Claimable(record) \/ record # NoRow)
        BY DEF Claimable, Is
      <4> QED
        BY <3>1, <4>1, StoresType DEF Claim
    <3>2. CASE Store(c)
      BY <3>2, RowOfStore
    <3>3. CASE Resolve(c) \/ Reject(c) \/ ResolveFails(c)
      <4>1. \/ record' = record \/ Writes(c, "resolved", ttlMs) \/ Writes(c, "rejected", RejectedTtl)
        BY <3>3 DEF Resolve, Reject, ResolveFails
      <4> QED
        BY <4>1, WritesType, TimesTypes DEF TypeOK
    <3>4. CASE ~(Claim(c) \/ Store(c) \/ Resolve(c) \/ Reject(c) \/ ResolveFails(c))
      <4>1. UNCHANGED record
        BY <1>2, <3>4 DEF Steps, Call, Read, ClaimFails, ReadFails, Mutate, MutateAgain, Deadlock,
           StoreFails, Claimed, FnResolves, FnRejects, RejectFails, Crash, Poll
      <4> QED
        BY <4>1 DEF TypeOK
    <3> QED
      BY <3>1, <3>2, <3>3, <3>4
  <2>2. CallTypes'
    <3>1. ASSUME NEW where \in {"reading", "claiming", "running", "polling", "recording",
                                "rejecting", "returned", "threw", "crashed"}, Leaves(c, where)
          PROVE CallTypes'
      <4>1. pc' = [pc EXCEPT ![c] = where]
        BY <3>1 DEF Leaves
      <4> QED
        BY <3>1, <4>1, LeavesTypes DEF TypeOK, CallTypes
    <3>2. ASSUME NEW where \in {"mutated", "claimed"}, Mutates(c, where)
          PROVE CallTypes'
      <4>1. pc' = [pc EXCEPT ![c] = where]
        BY <3>2 DEF Mutates
      <4> QED
        BY <3>2, <4>1, MutatesTypes DEF TypeOK, CallTypes
    <3>3. CASE Ends(c)
      BY <3>3 DEF Ends, TypeOK, CallTypes
    <3> QED
      BY <1>2, <3>1, <3>2, <3>3, Shapes
  <2>3. NothingIsClaimed'
    <3>1. ASSUME NEW where \in {"reading", "claiming", "running", "polling", "recording",
                                "rejecting", "returned", "threw", "crashed"}, Leaves(c, where)
          PROVE NothingIsClaimed'
      BY <3>1 DEF Leaves, TypeOK, NothingIsClaimed
    <3>2. ASSUME NEW where \in {"mutated", "claimed"}, Mutates(c, where)
          PROVE NothingIsClaimed'
      <4>1. record = NoRow => claims'[c]
        BY <3>2, MutatesTypes DEF Claimable
      <4>2. \A d \in Callers \ {c} : claims'[d] = claims[d] /\ pc'[d] = pc[d] /\ read'[d] = read[d]
        BY <3>2 DEF Mutates, TypeOK
      <4>3. read'[c] = record
        BY <3>2, MutatesTypes
      <4> QED
        BY <4>1, <4>2, <4>3 DEF NothingIsClaimed
    <3>3. CASE Ends(c)
      BY <3>3 DEF Ends, TypeOK, NothingIsClaimed
    <3> QED
      BY <1>2, <3>1, <3>2, <3>3, Shapes
  <2>4. executed' \subseteq Callers /\ result' \in [Callers -> Callers \cup {NoRow}]
    <3>1. CASE Read(c) \/ Poll(c)
      <4>1. record.by \in Callers \/ ~Is(record, "resolved")
        BY DEF TypeOK, Record, Is
      <4> QED
        BY <3>1, <4>1 DEF Read, Poll, Goto, Return, TypeOK
    <3>2. CASE Claimed(c)
      <4>1. read[c].by \in Callers \/ ~Is(read[c], "resolved")
        BY DEF TypeOK, Record, Is
      <4>2. UNCHANGED <<executed, result>> \/ (Return(c, read[c].by) /\ Is(read[c], "resolved"))
        BY <3>2 DEF Claimed, Goto
      <4>3. CASE UNCHANGED <<executed, result>>
        BY <4>3 DEF TypeOK
      <4>4. CASE Return(c, read[c].by) /\ Is(read[c], "resolved")
        <5>1. read[c].by \in Callers /\ executed' = executed
              /\ result' = [result EXCEPT ![c] = read[c].by]
          BY <4>1, <4>4 DEF Return
        <5> QED
          BY <5>1 DEF TypeOK
      <4> QED
        BY <4>2, <4>3, <4>4
    <3>3. CASE Resolve(c) \/ FnResolves(c)
      <4>1. \/ UNCHANGED <<executed, result>>
            \/ result' = [result EXCEPT ![c] = c] /\ executed' = executed
            \/ result' = result /\ executed' = executed \cup {c}
        BY <3>3 DEF Resolve, FnResolves, Goto, Return
      <4>2. executed \subseteq Callers /\ result \in [Callers -> Callers \cup {NoRow}]
        BY DEF TypeOK
      <4> QED
        BY <4>1, <4>2
    <3>4. CASE ~(Read(c) \/ Poll(c) \/ Claimed(c) \/ Resolve(c) \/ FnResolves(c))
      <4>1. UNCHANGED <<executed, result>>
        BY <1>2, <3>4 DEF Steps, Call, Claim, ClaimFails, ReadFails, Mutate, Store, MutateAgain,
           Deadlock, StoreFails, FnRejects, ResolveFails, Reject, RejectFails, Crash, Goto, Mutates, Ends
      <4> QED
        BY <4>1 DEF TypeOK
    <3> QED
      BY <3>1, <3>2, <3>3, <3>4
  <2>5. provider' \in Providers /\ ttlMs' \in Ttls /\ amiss' \in BOOLEAN /\ faults' \in 0 .. MaxFaults
    <3>1. Claimable(record) \in BOOLEAN
      BY DEF Claimable, Is
    <3> QED
      BY <1>2, <3>1, Untouched, TimesTypes DEF TypeOK
  <2> QED
    BY <2>1, <2>2, <2>3, <2>4, <2>5 DEF TypeOK, CallTypes
<1>3. CASE Tick
  <2>1. record' \in Record \cup {NoRow}
    <3>1. CASE record = NoRow \/ record.ttl = 1
      BY <1>3, <3>1 DEF Tick
    <3>2. CASE ~(record = NoRow \/ record.ttl = 1)
      <4>1. record \in Record
        BY <3>2, TimesTypes
      <4>2. /\ record.by \in Callers /\ record.status \in {"pending", "resolved", "rejected"}
            /\ Older(record.age) \in Age
            /\ (IF record.ttl = 0 THEN 0 ELSE record.ttl - 1) \in Nat
        BY <4>1, TimesTypes DEF Record
      <4> QED
        BY <1>3, <3>2, <4>2 DEF Tick, Record
    <3> QED
      BY <3>1, <3>2
  <2>2. waited' \in [Callers -> Age] /\ ran' \in [Callers -> Age]
    BY <1>3, TimesTypes DEF Tick, TypeOK
  <2>3. amiss' \in BOOLEAN
    BY <1>3 DEF Tick, TypeOK, Is
  <2>4. NothingIsClaimed'
    BY <1>3 DEF Tick, NothingIsClaimed
  <2> QED
    BY <1>3, <2>1, <2>2, <2>3, <2>4 DEF Tick, TypeOK
<1> QED
  BY <1>1, <1>2, <1>3 DEF Next, Steps

-----------------------------------------------------------------------------
(* The claims                                                              *)

(* As long as nothing is amiss, no record that a working call has claimed  *)
(* can be claimed by another.                                              *)
LEMMA NotClaimable ==
  ASSUME Inv, provider = "sqlite", ~amiss, NEW c \in Callers, Works(c)
  PROVE  ~Claimable(record)
<1>1. Is(record, "pending") /\ record.age <= ran[c] /\ ran[c] <= Timeout /\ record # NoRow
  BY DEF Inv, ClaimHeld, InTime, Is
<1>2. record.age \in Nat /\ ran[c] \in Nat /\ Timeout \in Nat
  BY <1>1, TimesTypes, IdempotencyAssumption DEF Inv, TypeOK, Record, IdempotencyAssumption
<1> QED
  BY <1>1, <1>2 DEF Claimable, Is

LEMMA ClaimStep ==
  ASSUME Inv, [Next]_vars
  PROVE  ClaimerOfRound' /\ NotSplit' /\ ClaimHeld' /\ InTime'
<1> USE IdempotencyAssumption DEF Inv
<1>1. CASE UNCHANGED vars
  BY <1>1 DEF vars, calls, ClaimerOfRound, NotSplit, ClaimHeld, InTime, Works
<1>2. ASSUME NEW c \in Callers, Steps(c)
      PROVE  ClaimerOfRound' /\ NotSplit' /\ ClaimHeld' /\ InTime'
  <2>1. ClaimerOfRound'
    <3>1. ASSUME NEW where \in {"reading", "claiming", "running", "polling", "recording",
                                "rejecting", "returned", "threw", "crashed"}, Leaves(c, where)
          PROVE ClaimerOfRound'
      BY <3>1, LeavesTypes DEF ClaimerOfRound
    <3>2. ASSUME NEW where \in {"mutated", "claimed"}, Mutates(c, where)
          PROVE ClaimerOfRound'
      BY <3>2, MutatesTypes DEF ClaimerOfRound
    <3>3. CASE Ends(c)
      BY <3>3 DEF Ends, TypeOK, ClaimerOfRound
    <3> QED
      BY <1>2, <3>1, <3>2, <3>3, Shapes
  <2>2. NotSplit' /\ UNCHANGED <<provider, ran>>
    <3>1. UNCHANGED <<provider, ran>>
      BY <1>2, Shapes, Untouched DEF Leaves, Mutates, Ends
    <3>2. CASE Mutate(c) \/ MutateAgain(c)
      <4>1. provider # "sqlite"
        BY <3>2 DEF Mutate, MutateAgain, Split
      <4> QED
        BY <3>1, <4>1 DEF NotSplit
    <3>3. CASE ~(Mutate(c) \/ MutateAgain(c))
      <4>1. \/ \E where \in {"reading", "claiming", "running", "polling", "recording",
                             "rejecting", "returned", "threw", "crashed"} : Leaves(c, where)
            \/ Mutates(c, "claimed")
            \/ Ends(c)
        BY <1>2, <3>3 DEF Steps, Call, Read, Claim, ClaimFails, ReadFails, Store, Deadlock,
           StoreFails, Claimed, FnResolves, FnRejects, Resolve, ResolveFails, Reject,
           RejectFails, Crash, Poll, Goto, Return
      <4> QED
        BY <3>1, <4>1 DEF Leaves, Mutates, Ends, TypeOK, NotSplit
    <3> QED
      BY <3>1, <3>2, <3>3
  <2>3. InTime' /\ (~amiss' => ~amiss)
    BY <1>2, <2>2, Untouched DEF InTime
  <2>4. ClaimHeld'
    <3> SUFFICES ASSUME provider = "sqlite", ~amiss, ~amiss', NEW d \in Callers, Works(d)'
                 PROVE  Is(record, "pending")' /\ record'.by = d /\ record'.age <= ran'[d]
      BY <2>2, <2>3 DEF ClaimHeld
    <3>0. ~Mutate(c) /\ ~MutateAgain(c) /\ ~Store(c) /\ ~StoreFails(c) /\ ~Deadlock(c)
      BY DEF Mutate, MutateAgain, Split, Store, StoreFails, Deadlock, NotSplit
    <3>1. CASE Claim(c)
      <4>0. /\ pc[c] = "claiming" /\ ~claimer[c] /\ Stores(c, record, Claimable(record))
            /\ Mutates(c, "claimed") /\ Claimable(record) \in BOOLEAN
            /\ Claimable(record) \/ record # NoRow
        BY <3>1 DEF Claim, ClaimerOfRound, Claimable, Is
      <4>1. CASE d = c
        <5>1. Claimable(record)
          <6>1. pc'[c] = "claimed" /\ claimer'[c] = (claimer[c] \/ Claimable(record))
            BY <4>0, MutatesTypes
          <6>2. claimer'[c]
            BY <4>1, <6>1 DEF Works
          <6> QED
            BY <4>0, <6>1, <6>2, Zenon
        <5>2. record' # NoRow /\ record'.by = c /\ record'.status = "pending" /\ record'.age = 0
          BY <4>0, <5>1, StoresType
        <5>3. ran'[d] \in Nat
          BY <2>2, TimesTypes DEF TypeOK
        <5> QED
          BY <4>1, <5>2, <5>3 DEF Is
      <4>2. CASE d # c
        <5>1. Works(d)
          BY <4>0, <4>2, MutatesTypes DEF Works
        <5>2. ~Claimable(record)
          BY <5>1, NotClaimable
        <5>3. /\ record' # NoRow /\ record'.by = record.by
              /\ record'.status = record.status /\ record'.age = record.age
          BY <4>0, <5>2, StoresType
        <5> QED
          BY <2>2, <5>1, <5>3 DEF ClaimHeld, Is
      <4> QED
        BY <4>1, <4>2
    <3>2. CASE Resolve(c) \/ Reject(c)
      <4>1. Works(c) /\ record # NoRow /\ record.by = c
        BY <3>2 DEF Resolve, Reject, Works, ClaimHeld, Is
      <4>2. ~Works(c)'
        <5>1. Leaves(c, "returned") \/ Leaves(c, "threw")
          BY <3>2, <4>1 DEF Resolve, Reject, Goto, Return
        <5>2. pc'[c] \in {"returned", "threw"}
          BY <5>1, LeavesTypes
        <5> QED
          BY <5>2 DEF Works
      <4>3. d # c
        BY <4>2
      <4>4. Works(d)
        BY <3>2, <4>3, LeavesTypes DEF Resolve, Reject, Goto, Return, Works
      <4> QED
        BY <4>1, <4>3, <4>4 DEF ClaimHeld
    <3>3. CASE ~(Claim(c) \/ Resolve(c) \/ Reject(c))
      <4>1. UNCHANGED record
        BY <1>2, <3>0, <3>3 DEF Steps, Call, Read, ClaimFails, ReadFails, Claimed, FnResolves,
           FnRejects, ResolveFails, RejectFails, Crash, Poll
      <4>2. Works(d)
        <5>1. CASE d # c
          <6>1. pc'[d] = pc[d] /\ claimer'[d] = claimer[d]
            <7>1. d \in Callers \ {c}
              BY <5>1
            <7>2. CASE \E where \in {"reading", "claiming", "running", "polling", "recording",
                                   "rejecting", "returned", "threw", "crashed"} : Leaves(c, where)
              BY <7>1, <7>2, LeavesTypes
            <7>3. CASE \E where \in {"mutated", "claimed"} : Mutates(c, where)
              BY <7>1, <7>3, MutatesTypes
            <7>4. CASE Ends(c)
              BY <7>1, <7>4 DEF Ends, TypeOK
            <7> QED
              BY <1>2, <7>2, <7>3, <7>4, Shapes
          <6> QED
            BY <6>1 DEF Works
        <5>2. CASE d = c
          <6>1. CASE Call(c) \/ Read(c) \/ ReadFails(c) \/ RejectFails(c) \/ Crash(c) \/ Poll(c)
            <7>1. \E where \in {"reading", "claiming", "returned", "threw", "crashed"} :
                    Leaves(c, where)
              BY <6>1 DEF Call, Read, ReadFails, RejectFails, Crash, Poll, Goto, Return
            <7>2. pc'[c] \in {"reading", "claiming", "returned", "threw", "crashed"}
              BY <7>1, LeavesTypes
            <7> QED
              BY <5>2, <7>2 DEF Works
          <6>2. CASE FnResolves(c) \/ FnRejects(c) \/ ResolveFails(c)
            BY <5>2, <6>2 DEF FnResolves, FnRejects, ResolveFails, Works
          <6>3. CASE Claimed(c)
            <7>1. CASE claimer[c]
              BY <5>2, <6>3, <7>1 DEF Claimed, Works
            <7>2. CASE ~claimer[c]
              <8>1. Leaves(c, "returned") \/ Leaves(c, "polling")
                BY <6>3, <7>2 DEF Claimed, Goto, Return
              <8>2. pc'[c] \in {"returned", "polling"}
                BY <8>1, LeavesTypes
              <8> QED
                BY <5>2, <8>2 DEF Works
            <7> QED
              BY <7>1, <7>2
          <6>4. CASE ClaimFails(c)
            <7>1. pc[c] = "claiming" /\ ~claimer[c]
              BY <6>4 DEF ClaimFails, ClaimerOfRound
            <7>2. CASE Ends(c)
              BY <5>2, <7>1, <7>2 DEF Ends, TypeOK, Works
            <7>3. CASE Mutates(c, "claimed") /\ amiss' = (amiss \/ Claimable(record))
              <8>1. ~Claimable(record)
                BY <7>3
              <8>2. pc'[c] = "claimed" /\ claimer'[c] = (claimer[c] \/ Claimable(record))
                BY <7>3, MutatesTypes
              <8>3. ~claimer'[c]
                BY <7>1, <8>1, <8>2, Zenon
              <8> QED
                BY <5>2, <8>2, <8>3 DEF Works
            <7> QED
              BY <6>4, <7>2, <7>3 DEF ClaimFails
          <6> QED
            BY <1>2, <3>0, <3>3, <6>1, <6>2, <6>3, <6>4 DEF Steps
        <5> QED
          BY <5>1, <5>2
      <4> QED
        BY <2>2, <4>1, <4>2 DEF ClaimHeld, Is
    <3> QED
      BY <3>1, <3>2, <3>3
  <2> QED
    BY <2>1, <2>2, <2>3, <2>4
<1>3. CASE Tick
  <2>1. UNCHANGED <<provider, pc, claimer>> /\ ClaimerOfRound' /\ NotSplit'
    BY <1>3 DEF Tick, ClaimerOfRound, NotSplit
  <2>2. InTime'
    <3>1. \A c \in Callers : ran'[c] \in Nat
      BY <1>3, TypeStep, TimesTypes DEF TypeOK, Age
    <3> QED
      BY <1>3, <3>1 DEF Tick, InTime, IdempotencyAssumption
  <2>3. ClaimHeld'
    <3> SUFFICES ASSUME provider = "sqlite", ~amiss', NEW d \in Callers, Works(d)
                 PROVE  Is(record, "pending")' /\ record'.by = d /\ record'.age <= ran'[d]
      BY <2>1 DEF ClaimHeld, Works
    <3>1. ~amiss /\ record' # NoRow /\ Is(record, "pending") /\ record.by = d /\ record.age <= ran[d]
      BY <1>3, <2>1 DEF Tick, ClaimHeld
    <3>2. /\ record'.by = record.by /\ record'.status = record.status
          /\ record'.age = Older(record.age)
      BY <1>3, <3>1 DEF Tick
    <3>3. ran'[d] = Older(ran[d])
      BY <1>3 DEF Tick, Works, Working
    <3>4. record.age \in Age /\ ran[d] \in Age
      BY <3>1, TimesTypes DEF TypeOK, Record, Is
    <3> QED
      BY <3>1, <3>2, <3>3, <3>4, TimesTypes DEF Is
  <2> QED
    BY <2>1, <2>2, <2>3
<1> QED
  BY <1>1, <1>2, <1>3 DEF Next, Steps

(* The invariant holds in every reachable state.                           *)
THEOREM IdempotencyInvariance == Spec => []Inv
<1>1. ASSUME Init PROVE Inv
  <2>1. 0 \in Age /\ 0 \in 0 .. MaxFaults
    BY IdempotencyAssumption DEF Age, IdempotencyAssumption
  <2>2. TypeOK
    BY <1>1, <2>1 DEF Init, TypeOK
  <2> QED
    BY <1>1, <2>2, IdempotencyAssumption DEF Init, Inv, NothingIsClaimed, ClaimerOfRound, NotSplit,
       ClaimHeld, Works, InTime, IdempotencyAssumption
<1>2. Inv /\ [Next]_vars => Inv'
  BY TypeStep, ClaimStep DEF Inv
<1> QED
  BY <1>1, <1>2, PTL DEF Spec

(* The variables keep their types.                                         *)
THEOREM IdempotencyTypes == Spec => []TypeOK
BY IdempotencyInvariance, PTL DEF Inv

(* On sqlite no two functions run at the same time, unless something is    *)
(* amiss.                                                                  *)
THEOREM NoTwoAtATime == Spec => []OneAtATime
<1>1. Inv => OneAtATime
  BY DEF Inv, ClaimHeld, Works, OneAtATime
<1> QED
  BY <1>1, IdempotencyInvariance, PTL

-----------------------------------------------------------------------------
(* The results                                                             *)

(* Whatever is recorded, read or returned is a result of a function.       *)
Known ==
  /\ \A c \in Callers : pc[c] = "recording" => c \in executed
  /\ Is(record, "resolved") => record.by \in executed
  /\ \A c \in Callers : Is(read[c], "resolved") => read[c].by \in executed
  /\ \A c \in Callers : pc[c] = "returned" => result[c] \in executed

(* A result is recorded, or about to be.                                   *)
Recorded ==
  provider = "sqlite" /\ ~amiss /\ faults = 0 =>
    \A c \in executed : pc[c] = "recording" \/ (Is(record, "resolved") /\ record.by = c)

(* A resolved record comes from a record that was, or from the call whose  *)
(* function has returned.                                                  *)
LEMMA ResolvedRow ==
  ASSUME Inv, NEW c \in Callers, Steps(c), Is(record, "resolved")'
  PROVE  \/ Is(record, "resolved") /\ record'.by = record.by
         \/ pc[c] = "recording" /\ record'.by = c
<1> USE IdempotencyAssumption DEF Inv
<1>1. CASE Claim(c) \/ Store(c)
  <2>1. \E claim \in BOOLEAN : Stores(c, record, claim) /\ (claim \/ record # NoRow)
    <3>1. CASE Claim(c)
      <4>1. Claimable(record) \in BOOLEAN /\ (Claimable(record) \/ record # NoRow)
        BY DEF Claimable, Is
      <4> QED
        BY <3>1, <4>1 DEF Claim
    <3>2. CASE Store(c)
      <4>1. claims[c] \in BOOLEAN /\ Stores(c, record, claims[c])
        BY <3>2 DEF Store, TypeOK
      <4>2. claims[c] \/ record # NoRow
        BY <3>2 DEF Store, Unchanged, NothingIsClaimed
      <4> QED
        BY <4>1, <4>2
    <3> QED
      BY <1>1, <3>1, <3>2
  <2>2. PICK claim \in BOOLEAN : Stores(c, record, claim) /\ (claim \/ record # NoRow)
    BY <2>1
  <2>3. record'.status = "resolved"
    BY DEF Is
  <2>4. ~claim
    BY <2>2, <2>3, StoresType
  <2> QED
    BY <2>2, <2>3, <2>4, StoresType DEF Is
<1>2. CASE Resolve(c) \/ ResolveFails(c)
  <2>1. pc[c] = "recording" /\ (UNCHANGED record \/ Writes(c, "resolved", ttlMs))
    BY <1>2 DEF Resolve, ResolveFails
  <2> QED
    BY <1>2, <2>1 DEF Writes, Is
<1>3. CASE Reject(c)
  <2>1. UNCHANGED record \/ Writes(c, "rejected", RejectedTtl)
    BY <1>3 DEF Reject
  <2> QED
    BY <2>1 DEF Writes, Is
<1>4. CASE ~(Claim(c) \/ Store(c) \/ Resolve(c) \/ ResolveFails(c) \/ Reject(c))
  <2>1. UNCHANGED record
    BY <1>4 DEF Steps, Call, Read, ClaimFails, ReadFails, Mutate, MutateAgain, Deadlock, StoreFails,
       Claimed, FnResolves, FnRejects, RejectFails, Crash, Poll
  <2> QED
    BY <2>1 DEF Is
<1> QED
  BY <1>1, <1>2, <1>3, <1>4

(* What a step adds to the results, and what it returns.                   *)
LEMMA ResultsOfStep ==
  ASSUME Inv, NEW c \in Callers, Steps(c)
  PROVE  /\ executed' = executed \/ (FnResolves(c) /\ executed' = executed \cup {c})
         /\ \/ result' = result /\ pc'[c] # "returned"
            \/ /\ Is(record, "resolved") /\ Return(c, record.by)
            \/ /\ Is(read[c], "resolved") /\ Return(c, read[c].by)
            \/ /\ pc[c] = "recording" /\ Return(c, c)
         /\ pc'[c] = "recording" => FnResolves(c)
<1> USE DEF Inv
<1>1. CASE \/ Call(c) \/ ReadFails(c) \/ FnRejects(c) \/ ResolveFails(c)
           \/ Reject(c) \/ RejectFails(c) \/ Crash(c)
  BY <1>1 DEF Call, ReadFails, FnRejects, ResolveFails, Reject, RejectFails, Crash, Goto, Leaves, TypeOK
<1>2. CASE Claim(c) \/ Mutate(c) \/ MutateAgain(c)
  BY <1>2 DEF Claim, Mutate, MutateAgain, Mutates, TypeOK
<1>3. CASE Store(c) \/ Deadlock(c) \/ StoreFails(c) \/ ClaimFails(c)
  BY <1>3 DEF Store, Deadlock, StoreFails, ClaimFails, Ends, Mutates, TypeOK
<1>4. CASE FnResolves(c)
  BY <1>4 DEF FnResolves, Leaves, TypeOK
<1>5. CASE Read(c)
  BY <1>5 DEF Read, Goto, Return, Leaves, TypeOK
<1>6. CASE Poll(c)
  BY <1>6 DEF Poll, Goto, Return, Leaves, TypeOK
<1>7. CASE Claimed(c)
  BY <1>7 DEF Claimed, Goto, Return, Leaves, TypeOK
<1>8. CASE Resolve(c)
  BY <1>8 DEF Resolve, Goto, Return, Leaves, TypeOK
<1> QED
  BY <1>1, <1>2, <1>3, <1>4, <1>5, <1>6, <1>7, <1>8 DEF Steps

LEMMA KnownStep ==
  ASSUME Inv, Known, [Next]_vars
  PROVE  Known'
<1>1. CASE UNCHANGED vars
  BY <1>1 DEF vars, calls, Known, Is
<1>2. ASSUME NEW c \in Callers, Steps(c) PROVE Known'
  <2>1. executed \subseteq executed' /\ (FnResolves(c) => c \in executed')
    BY <1>2, ResultsOfStep DEF FnResolves
  <2>2. \A d \in Callers \ {c} : pc'[d] = pc[d] /\ read'[d] = read[d]
    BY <1>2, Shapes, LeavesTypes DEF Inv, TypeOK, Leaves, Mutates, Ends
  <2>3. read'[c] \in {NoRow, record, read[c]}
    BY <1>2, Shapes DEF Inv, TypeOK, Leaves, Mutates, Ends
  <2>4. Is(record, "resolved")' => record'.by \in executed'
    BY <1>2, <2>1, ResolvedRow DEF Known
  <2>5. \A d \in Callers : Is(read[d], "resolved")' => read'[d].by \in executed'
    BY <2>1, <2>2, <2>3 DEF Known, Is
  <2>6. \A d \in Callers : pc'[d] = "recording" => d \in executed'
    BY <1>2, <2>1, <2>2, ResultsOfStep DEF Known
  <2>7. \A d \in Callers : pc'[d] = "returned" => result'[d] \in executed'
    <3>1. CASE result' = result /\ pc'[c] # "returned"
      BY <2>1, <2>2, <3>1 DEF Known
    <3>2. ASSUME NEW r \in executed, Return(c, r)
          PROVE \A d \in Callers : pc'[d] = "returned" => result'[d] \in executed'
      <4>1. result'[c] = r /\ \A d \in Callers \ {c} : result'[d] = result[d]
        BY <3>2 DEF Return, Inv, TypeOK
      <4> QED
        BY <2>1, <2>2, <3>2, <4>1 DEF Known
    <3> QED
      BY <1>2, <3>1, <3>2, ResultsOfStep DEF Known
  <2> QED
    BY <2>4, <2>5, <2>6, <2>7 DEF Known
<1>3. CASE Tick
  BY <1>3 DEF Tick, Known, Is
<1> QED
  BY <1>1, <1>2, <1>3 DEF Next, Steps

(* On sqlite, as long as nothing is amiss, a resolved record stays.        *)
LEMMA Stays ==
  ASSUME Inv, [Next]_vars, provider = "sqlite", ~amiss', Is(record, "resolved")
  PROVE  Is(record, "resolved")' /\ record'.by = record.by
<1> USE IdempotencyAssumption DEF Inv
<1>1. CASE UNCHANGED vars
  BY <1>1 DEF vars, Is
<1>2. ASSUME NEW c \in Callers, Steps(c)
      PROVE  Is(record, "resolved")' /\ record'.by = record.by
  <2>1. ~amiss /\ ~Works(c)
    <3>1. ~amiss
      BY <1>2, Untouched
    <3> QED
      BY <3>1 DEF ClaimHeld, Is
  <2>2. ~Resolve(c) /\ ~Reject(c) /\ ~Store(c)
    BY <2>1 DEF Resolve, Reject, Works, Store, NotSplit
  <2>3. CASE Claim(c)
    <3>1. ~Claimable(record) /\ Claimable(record) \in BOOLEAN /\ record # NoRow
      BY DEF Claimable, Is
    <3>2. Stores(c, record, Claimable(record))
      BY <2>3 DEF Claim
    <3>3. /\ record' # NoRow /\ record'.by = record.by /\ record'.status = record.status
      BY <3>1, <3>2, StoresType
    <3> QED
      BY <3>3 DEF Is
  <2>4. CASE ~Claim(c)
    <3>1. UNCHANGED record
      BY <1>2, <2>2, <2>4 DEF Steps, Call, Read, ClaimFails, ReadFails, Mutate, MutateAgain,
         Deadlock, StoreFails, Claimed, FnResolves, FnRejects, ResolveFails, RejectFails, Crash,
         Poll
    <3> QED
      BY <3>1 DEF Is
  <2> QED
    BY <2>3, <2>4
<1>3. CASE Tick
  <2>1. record' # NoRow /\ record # NoRow
    BY <1>3 DEF Tick, Is
  <2>2. record'.by = record.by /\ record'.status = record.status
    BY <1>3, <2>1 DEF Tick
  <2> QED
    BY <2>1, <2>2 DEF Is
<1> QED
  BY <1>1, <1>2, <1>3 DEF Next, Steps

LEMMA RecordedStep ==
  ASSUME Inv, Known, Recorded, [Next]_vars
  PROVE  Recorded'
<1> USE IdempotencyAssumption DEF Inv
<1> SUFFICES ASSUME provider' = "sqlite", ~amiss', faults' = 0, NEW d \in executed'
             PROVE  pc'[d] = "recording" \/ (Is(record, "resolved")' /\ record'.by = d)
  BY DEF Recorded
<1>1. CASE UNCHANGED vars
  BY <1>1 DEF vars, calls, Recorded, Is
<1>2. ASSUME NEW c \in Callers, Steps(c)
      PROVE  pc'[d] = "recording" \/ (Is(record, "resolved")' /\ record'.by = d)
  <2>1. provider = "sqlite" /\ ~amiss /\ faults = 0 /\ ~Fault
    <3>1. provider' = provider /\ ~amiss /\ (faults' = faults \/ Fault)
      BY <1>2, Untouched
    <3>2. faults \in 0 .. MaxFaults /\ MaxFaults \in Nat
      BY DEF TypeOK, IdempotencyAssumption
    <3>3. ~Fault
      BY <3>2 DEF Fault
    <3> QED
      BY <3>1, <3>3
  <2>2. CASE d \notin executed
    <3>1. FnResolves(c) /\ d = c
      BY <1>2, <2>2, ResultsOfStep
    <3> QED
      BY <3>1 DEF FnResolves, Leaves, TypeOK
  <2>3. CASE d \in executed /\ Is(record, "resolved") /\ record.by = d
    BY <2>1, <2>3, Stays
  <2>4. CASE d \in executed /\ pc[d] = "recording"
    <3>1. d \in Callers
      BY <2>4 DEF TypeOK
    <3>2. CASE c = d
      <4>1. Resolve(c)
        BY <1>2, <2>1, <2>4, <3>2 DEF Steps, Call, Read, ClaimFails, ReadFails, Claim, Mutate, Store, MutateAgain,
           Deadlock, StoreFails, Claimed, FnResolves, FnRejects, ResolveFails, Reject,
           RejectFails, Crash, Poll
      <4>2. record # NoRow
        BY <2>1, <2>4, <3>1 DEF ClaimHeld, Works, Is
      <4>3. Writes(c, "resolved", ttlMs)
        BY <4>1, <4>2 DEF Resolve
      <4>4. record' # NoRow /\ record'.status = "resolved" /\ record'.by = c
        BY <4>3, WritesType, TimesTypes
      <4> QED
        BY <3>2, <4>4 DEF Is
    <3>3. CASE c # d
      <4>1. d \in Callers \ {c}
        BY <3>1, <3>3
      <4>2. CASE \E where \in {"reading", "claiming", "running", "polling", "recording",
                             "rejecting", "returned", "threw", "crashed"} : Leaves(c, where)
        BY <2>4, <4>1, <4>2, LeavesTypes
      <4>3. CASE \E where \in {"mutated", "claimed"} : Mutates(c, where)
        BY <2>4, <4>1, <4>3, MutatesTypes
      <4>4. CASE Ends(c)
        BY <2>4, <4>1, <4>4 DEF Ends, TypeOK
      <4> QED
        BY <1>2, <4>2, <4>3, <4>4, Shapes
    <3> QED
      BY <3>2, <3>3
  <2> QED
    BY <2>1, <2>2, <2>3, <2>4 DEF Recorded
<1>3. CASE Tick
  <2>1. UNCHANGED <<provider, faults, executed, pc>> /\ ~amiss
    BY <1>3 DEF Tick
  <2>2. CASE pc[d] = "recording"
    BY <2>1, <2>2
  <2>3. CASE Is(record, "resolved") /\ record.by = d
    BY <2>1, <2>3, Stays
  <2> QED
    BY <2>1, <2>2, <2>3 DEF Recorded
<1> QED
  BY <1>1, <1>2, <1>3 DEF Next, Steps

(* On sqlite one function at most returns a result, and everybody gets     *)
(* that result, unless something is amiss or fails.                        *)
THEOREM OneResultOnSqlite == Spec => []OnceOnlyOnSqlite
<1>1. Init => Known /\ Recorded
  BY DEF Init, Known, Recorded, Is
<1>2. Inv /\ Known /\ Recorded /\ [Next]_vars => Known' /\ Recorded'
  BY KnownStep, RecordedStep
<1>3. Inv /\ Known /\ Recorded => OnceOnlyOnSqlite
  <2> SUFFICES ASSUME Inv, Known, Recorded, provider = "sqlite", ~amiss, faults = 0
               PROVE  /\ Cardinality(executed) <= 1
                      /\ \A c \in Callers : pc[c] = "returned" => result[c] \in executed
    BY DEF OnceOnlyOnSqlite, OnceOnly
  <2>1. \A c, d \in executed : c = d
    <3> SUFFICES ASSUME NEW c \in executed, NEW d \in executed
                 PROVE  c = d
      OBVIOUS
    <3>1. c \in Callers /\ d \in Callers
      BY DEF Inv, TypeOK
    <3>2. \A e \in {c, d} : pc[e] = "recording" => Is(record, "pending") /\ record.by = e
      BY <3>1 DEF Inv, ClaimHeld, Works
    <3>3. \A e \in {c, d} : pc[e] = "recording" \/ (Is(record, "resolved") /\ record.by = e)
      BY DEF Recorded
    <3> QED
      BY <3>2, <3>3 DEF Is
  <2>2. Cardinality(executed) <= 1
    <3>1. CASE executed = {}
      BY <3>1, FS_EmptySet
    <3>2. CASE executed # {}
      <4>1. PICK c : c \in executed
        BY <3>2
      <4>2. executed = {c}
        BY <2>1, <4>1
      <4> QED
        <5>1. Cardinality(executed) = 1
          BY <4>2, FS_Singleton, Zenon
        <5> QED
          BY <5>1
    <3> QED
      BY <3>1, <3>2
  <2> QED
    BY <2>2 DEF Known
<1> QED
  BY <1>1, <1>2, <1>3, IdempotencyInvariance, PTL DEF Spec

(* On sqlite a recorded result is not recorded over before it expires,     *)
(* unless something is amiss.                                              *)
THEOREM ResultsStayOnSqlite == Spec => ResultStays
<1>1. Inv /\ [Next]_vars =>
        [provider = "sqlite" /\ ~amiss' /\ Is(record, "resolved") =>
           Is(record', "resolved") /\ record'.by = record.by]_vars
  BY Stays DEF Is
<1> QED
  BY <1>1, IdempotencyInvariance, PTL DEF Spec, ResultStays

=============================================================================
