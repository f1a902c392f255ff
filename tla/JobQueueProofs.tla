--------------------------- MODULE JobQueueProofs ---------------------------
(***************************************************************************)
(* Theorems about JobQueue on a driver that updates a row in one step, for *)
(* any jobs, consumers and maintainers, any lease, backoff and number of   *)
(* attempts, with crashes and failing calls; in the second part, where     *)
(* leases are kept, also about who holds a job and what stays settled.     *)
(***************************************************************************)
EXTENDS JobQueue, TLAPS

Held == {"work", "ack", "failing", "nack", "bury"}

(* Whoever holds, or extends, a job has one.                               *)
Assigned ==
  \A c \in Consumers : /\ Holding(c) => consumer[c].job \in Jobs
                       /\ beat[c].pc = "sent" => beat[c].job \in Jobs

(* A job that was not pushed has no record and was never handed out.       *)
Unpushed == \A j \in Jobs \ pushed : ~Exists(j) /\ runs[j] = 0

Counted == AttemptsCounted /\ Unpushed

Inv == TypeOK /\ Counted /\ Assigned

-----------------------------------------------------------------------------
(* Records.                                                                *)

LEMMA FreshToken ==
  ASSUME Tokens \ Used # {}
  PROVE  Fresh \in Tokens /\ Fresh \notin Used
  BY DEF Fresh

LEMMA Blanks == Blank \in Row /\ Idle \in Doing /\ NoBeat \in Beat /\ NoUpkeep \in Upkeep
<1>1. 0 \in Int /\ 0 \in Nat
  OBVIOUS
<1> QED
  BY <1>1, Zenon DEF Blank, Row, States, Idle, Doing, NoBeat, Beat, NoUpkeep, Upkeep

(* What the mutators make of a record.                                     *)
LEMMA Mutated ==
  ASSUME NEW r \in Row, NEW token \in Tokens, NEW age \in Nat, NEW runAt \in Nat
  PROVE  /\ Claimed(r, token, age) \in Row /\ Claimed(r, token, age).attempts = r.attempts + 1
         /\ Completed(r) \in Row /\ Completed(r).attempts = r.attempts
         /\ Delayed(r, runAt) \in Row /\ Delayed(r, runAt).attempts = r.attempts
         /\ Buried(r) \in Row /\ Buried(r).attempts = r.attempts
         /\ Extended(r, age) \in Row /\ Extended(r, age).attempts = r.attempts
         /\ Retried(r) \in Row /\ Retried(r).attempts = 0
         /\ Older(r) \in Row /\ Older(r).attempts = r.attempts /\ Older(r).state = r.state
<1>1. /\ 0 \in Int /\ 0 \in Nat
      /\ Lease - age \in Int /\ r.attempts + 1 \in Nat
      /\ Sooner(r.runAt, 0) \in Nat /\ Sooner(r.lease, -MaxDelay) \in Int
  BY QueueAssumption DEF Row, Sooner
<1>2. Claimed(r, token, age) \in Row /\ Claimed(r, token, age).attempts = r.attempts + 1
  BY <1>1, Zenon DEF Claimed, Row, States
<1>3. Completed(r) \in Row /\ Completed(r).attempts = r.attempts
  BY <1>1, Zenon DEF Completed, Row, States
<1>4. Delayed(r, runAt) \in Row /\ Delayed(r, runAt).attempts = r.attempts
  BY <1>1, Zenon DEF Delayed, Row, States
<1>5. Buried(r) \in Row /\ Buried(r).attempts = r.attempts
  BY <1>1, Zenon DEF Buried, Row, States
<1>6. Extended(r, age) \in Row /\ Extended(r, age).attempts = r.attempts
  BY <1>1, Zenon DEF Extended, Row, States
<1>7. Retried(r) \in Row /\ Retried(r).attempts = 0
  BY <1>1, Zenon DEF Retried, Row, States
<1>8. Older(r) \in Row /\ Older(r).attempts = r.attempts /\ Older(r).state = r.state
  BY <1>1, Zenon DEF Older, Row, States
<1> QED
  BY <1>2, <1>3, <1>4, <1>5, <1>6, <1>7, <1>8

(* A write of one record that counts its attempts right.                   *)
LEMMA OneRecord ==
  ASSUME TypeOK, Counted, NEW j \in Jobs, NEW r \in Row, NEW n \in 0 .. MaxRuns,
         Exists(j), r.attempts = n,
         row' = [row EXCEPT ![j] = r], runs' = [runs EXCEPT ![j] = n], UNCHANGED pushed
  PROVE  row' \in [Jobs -> Row] /\ runs' \in [Jobs -> 0 .. MaxRuns] /\ Counted'
  BY DEF TypeOK, Counted, AttemptsCounted, Unpushed, Exists

(* The same where the number of attempts is what it was.                   *)
LEMMA SameAttempts ==
  ASSUME TypeOK, Counted, NEW j \in Jobs, NEW r \in Row,
         Exists(j), r.attempts = row[j].attempts,
         row' = [row EXCEPT ![j] = r], UNCHANGED <<runs, pushed>>
  PROVE  row' \in [Jobs -> Row] /\ runs' \in [Jobs -> 0 .. MaxRuns] /\ Counted'
  BY DEF TypeOK, Counted, AttemptsCounted, Unpushed, Exists

(* A step of one consumer.                                                 *)
LEMMA OneConsumer ==
  ASSUME TypeOK, Assigned, NEW c \in Consumers, NEW w \in Doing,
         w.pc \in Held => w.job \in Jobs,
         consumer' = [consumer EXCEPT ![c] = w], UNCHANGED beat
  PROVE  consumer' \in [Consumers -> Doing] /\ beat' \in [Consumers -> Beat] /\ Assigned'
  BY DEF TypeOK, Assigned, Holding, Held

(* It drops what it was doing, or goes on at another point.                *)
LEMMA Releases ==
  ASSUME TypeOK, Assigned, NEW c \in Consumers, Release(c), UNCHANGED beat
  PROVE  consumer' \in [Consumers -> Doing] /\ beat' \in [Consumers -> Beat] /\ Assigned'
<1>1. Idle.pc \notin Held
  BY DEF Idle, Held
<1> QED
  BY <1>1, Blanks, OneConsumer DEF Release

LEMMA GoesOn ==
  ASSUME TypeOK, Assigned, NEW c \in Consumers, Holding(c), NEW pc \in Held,
         consumer' = [consumer EXCEPT ![c].pc = pc], UNCHANGED beat
  PROVE  consumer' \in [Consumers -> Doing] /\ beat' \in [Consumers -> Beat] /\ Assigned'
<1> DEFINE w == [consumer[c] EXCEPT !.pc = pc]
<1>1. consumer[c] \in Doing /\ consumer[c].job \in Jobs
  BY DEF TypeOK, Assigned
<1>2. w \in Doing /\ w.job = consumer[c].job
  BY <1>1, Zenon DEF Doing, Held
<1>3. consumer' = [consumer EXCEPT ![c] = w]
  OBVIOUS
<1> QED
  BY <1>1, <1>2, <1>3, OneConsumer

LEMMA Skips ==
  ASSUME TypeOK, Assigned, NEW c \in Consumers, consumer[c].pc = "claim", NEW j,
         GoesToNext(c, j), UNCHANGED beat
  PROVE  consumer' \in [Consumers -> Doing] /\ beat' \in [Consumers -> Beat] /\ Assigned'
<1> DEFINE v == [consumer[c] EXCEPT !.found = consumer[c].found \ {j}]
           w == IF consumer[c].found = {j} THEN Idle ELSE v
<1>1. consumer[c] \in Doing
  BY DEF TypeOK
<1>2. v \in Doing /\ v.pc = "claim" /\ Idle.pc = "idle"
  BY <1>1, Zenon DEF Doing, Idle
<1> HIDE DEF v
<1>3. w \in Doing /\ w.pc \notin Held
  BY <1>2, Blanks DEF Held
<1>4. consumer' = [consumer EXCEPT ![c] = w]
  BY DEF GoesToNext, v
<1> HIDE DEF w
<1> QED
  BY <1>3, <1>4, OneConsumer

-----------------------------------------------------------------------------
(* The operations.  Nothing is read to be compared later.                  *)

LEMMA WritesOnce ==
  ASSUME AtomicRow, TypeOK, NEW t, NEW j \in Jobs
  PROVE  ~Reads(t, j) /\ Base(t, j) = row[j]
  BY DEF Reads, Base

LEMMA SeenTyped ==
  ASSUME TypeOK, NEW t, seen' = [seen EXCEPT ![t] = NoRow]
  PROVE  seen' \in [Threads -> Row \cup {NoRow}]
  BY DEF TypeOK

LEMMA PushKeeps ==
  ASSUME Inv, NEW j \in Jobs, Push(j)
  PROVE  Inv'
<1>1. PICK d \in {0, Backoff} :
        row' = [row EXCEPT ![j] = [Blank EXCEPT !.state = IF d > 0 THEN "delayed" ELSE "waiting",
                                                !.runAt = d]]
  BY DEF Push
<1> DEFINE r == [Blank EXCEPT !.state = IF d > 0 THEN "delayed" ELSE "waiting", !.runAt = d]
<1>2. d \in Nat
  BY QueueAssumption
<1>3. r \in Row /\ r.attempts = Blank.attempts
  BY <1>2, Blanks, Zenon DEF Row, States, Blank
<1>4. r.attempts = 0
  BY <1>3 DEF Blank
<1>5. row' = [row EXCEPT ![j] = r] /\ runs' = runs /\ pushed' = pushed \cup {j} /\ runs[j] = 0
  BY <1>1 DEF Push, Inv, Counted, Unpushed
<1> HIDE DEF r
<1>6. row' \in [Jobs -> Row] /\ Counted'
  BY <1>3, <1>4, <1>5 DEF Inv, TypeOK, Counted, AttemptsCounted, Unpushed, Exists
<1> QED
  BY <1>5, <1>6 DEF Inv, TypeOK, Assigned, Holding, Push

LEMMA PopFindKeeps ==
  ASSUME Inv, NEW c \in Consumers, PopFind(c)
  PROVE  Inv'
<1> DEFINE found == {j \in Jobs : Ready(row[j])}
           w == [Idle EXCEPT !.pc = "claim", !.found = found]
<1>1. w \in Doing /\ w.pc = "claim"
  BY Blanks, Zenon DEF Doing, Idle
<1>2. consumer' \in [Consumers -> Doing] /\ beat' \in [Consumers -> Beat] /\ Assigned'
  BY <1>1, OneConsumer DEF PopFind, Inv, Held
<1> QED
  BY <1>2 DEF Inv, TypeOK, Counted, AttemptsCounted, Unpushed, Exists, PopFind

LEMMA ClaimKeeps ==
  ASSUME AtomicRow, Inv, NEW c \in Consumers, Claim(c)
  PROVE  Inv'
<1>1. PICK j \in Foremost(consumer[c].found) :
        /\ consumer[c].pc = "claim"
        /\ UNCHANGED <<beat, maint, pushed, acked, faults>>
        /\ \/ /\ Exists(j) /\ Claimable(Base(<<"main", c>>, j), consumer[c].age)
              /\ Tokens \ Used # {} /\ runs[j] < MaxRuns
              /\ Writes(<<"main", c>>, j, LAMBDA r : Claimed(r, Fresh, consumer[c].age))
              /\ consumer' = [consumer EXCEPT ![c] = [Idle EXCEPT !.pc = "work", !.job = j,
                                !.token = Fresh, !.until = Lease - consumer[c].age]]
              /\ runs' = [runs EXCEPT ![j] = @ + 1]
           \/ /\ Claimable(row[j], consumer[c].age) /\ Reads(<<"main", c>>, j)
              /\ UNCHANGED <<consumer, runs>>
           \/ /\ ~Claimable(row[j], consumer[c].age)
              /\ seen' = [seen EXCEPT ![<<"main", c>>] = NoRow]
              /\ GoesToNext(c, j)
              /\ UNCHANGED <<row, runs>>
  BY Zenon DEF Claim
<1>2. j \in Jobs /\ consumer[c] \in Doing /\ consumer[c].age \in Nat
  BY DEF Inv, TypeOK, Doing, Foremost
<1>3. ~Reads(<<"main", c>>, j) /\ Base(<<"main", c>>, j) = row[j]
  BY <1>2, WritesOnce DEF Inv
<1>4. CASE /\ Exists(j) /\ Tokens \ Used # {} /\ runs[j] < MaxRuns
           /\ Writes(<<"main", c>>, j, LAMBDA r : Claimed(r, Fresh, consumer[c].age))
           /\ consumer' = [consumer EXCEPT ![c] = [Idle EXCEPT !.pc = "work", !.job = j,
                             !.token = Fresh, !.until = Lease - consumer[c].age]]
           /\ runs' = [runs EXCEPT ![j] = @ + 1]
  <2> DEFINE r == Claimed(row[j], Fresh, consumer[c].age)
             w == [Idle EXCEPT !.pc = "work", !.job = j, !.token = Fresh,
                               !.until = Lease - consumer[c].age]
  <2>1. Fresh \in Tokens /\ row[j] \in Row /\ Lease - consumer[c].age \in Int
    BY <1>2, <1>4, FreshToken, QueueAssumption DEF Inv, TypeOK
  <2>2. r \in Row /\ r.attempts = row[j].attempts + 1
    BY <1>2, <2>1, Mutated
  <2>3. row' = [row EXCEPT ![j] = r] /\ seen' = [seen EXCEPT ![<<"main", c>>] = NoRow]
    BY <1>3, <1>4 DEF Writes
  <2>4. row[j].attempts = runs[j] /\ runs[j] + 1 \in 0 .. MaxRuns
    BY <1>2, <1>4, QueueAssumption DEF Inv, TypeOK, Counted, AttemptsCounted
  <2>5. row' \in [Jobs -> Row] /\ runs' \in [Jobs -> 0 .. MaxRuns] /\ Counted'
    BY <1>1, <1>2, <1>4, <2>2, <2>3, <2>4, OneRecord DEF Inv
  <2>6. w \in Doing /\ w.job \in Jobs
    BY <1>2, <2>1, Blanks, Zenon DEF Doing, Idle
  <2>7. consumer' \in [Consumers -> Doing] /\ beat' \in [Consumers -> Beat] /\ Assigned'
    BY <1>1, <1>4, <2>6, OneConsumer DEF Inv
  <2> QED
    BY <1>1, <2>3, <2>5, <2>7, SeenTyped DEF Inv, TypeOK
<1>5. CASE /\ seen' = [seen EXCEPT ![<<"main", c>>] = NoRow]
           /\ GoesToNext(c, j)
           /\ UNCHANGED <<row, runs>>
  <2>1. consumer' \in [Consumers -> Doing] /\ beat' \in [Consumers -> Beat] /\ Assigned'
    BY <1>1, <1>5, Skips DEF Inv
  <2> QED
    BY <1>1, <1>5, <2>1, SeenTyped DEF Inv, TypeOK, Counted, AttemptsCounted, Unpushed, Exists
<1> QED
  BY <1>1, <1>3, <1>4, <1>5

LEMMA ProcessorFailsKeeps ==
  ASSUME Inv, NEW c \in Consumers, ProcessorFails(c)
  PROVE  Inv'
<1>1. consumer' \in [Consumers -> Doing] /\ beat' \in [Consumers -> Beat] /\ Assigned'
  BY GoesOn DEF ProcessorFails, Inv, Held, Holding
<1> QED
  BY <1>1 DEF Inv, TypeOK, Counted, AttemptsCounted, Unpushed, Exists, ProcessorFails

LEMMA AckReadKeeps ==
  ASSUME Inv, NEW c \in Consumers, AckRead(c)
  PROVE  Inv'
<1> DEFINE pc == IF row[consumer[c].job].token = consumer[c].token THEN "ack" ELSE "failing"
           w == [consumer[c] EXCEPT !.age = 0, !.pc = pc]
<1>1. consumer' \in [Consumers -> Doing] /\ beat' \in [Consumers -> Beat] /\ Assigned'
  <2>1. CASE Release(c)
    BY <2>1, Releases DEF Inv, AckRead
  <2>2. CASE consumer' = [consumer EXCEPT ![c].age = 0, ![c].pc = pc]
    <3>1. consumer[c] \in Doing /\ consumer[c].job \in Jobs /\ 0 \in Nat
      BY DEF Inv, TypeOK, Assigned, Holding, AckRead
    <3>2. w \in Doing /\ w.job = consumer[c].job
      BY <3>1, Zenon DEF Doing
    <3>3. consumer' = [consumer EXCEPT ![c] = w]
      BY <2>2, Zenon DEF Inv, TypeOK
    <3> QED
      BY <3>1, <3>2, <3>3, OneConsumer DEF Inv, AckRead
  <2> QED
    BY <2>1, <2>2, Zenon DEF AckRead
<1> QED
  BY <1>1 DEF Inv, TypeOK, Counted, AttemptsCounted, Unpushed, Exists, AckRead

LEMMA MissKeeps ==
  ASSUME TypeOK, Counted, NEW t, NEW j \in Jobs, Misses(t, j), UNCHANGED <<runs, pushed>>
  PROVE  /\ row' \in [Jobs -> Row] /\ runs' \in [Jobs -> 0 .. MaxRuns] /\ Counted'
         /\ seen' \in [Threads -> Row \cup {NoRow}]
  BY SeenTyped DEF Misses, TypeOK, Counted, AttemptsCounted, Unpushed, Exists

LEMMA AckWriteKeeps ==
  ASSUME AtomicRow, Inv, NEW c \in Consumers, AckWrite(c)
  PROVE  Inv'
<1> DEFINE j == consumer[c].job
           t == <<"main", c>>
<1>1. j \in Jobs /\ consumer[c].pc = "ack" /\ Holding(c) /\ row[j] \in Row /\ j \in Jobs
  BY DEF Inv, TypeOK, Assigned, Holding, AckWrite
<1>2. Exists(j) => j \in pushed
  BY <1>1 DEF Inv, Counted, Unpushed
<1>3. CASE /\ row' = [row EXCEPT ![j] = Blank]
           /\ acked' = (IF Exists(j) THEN acked \cup {j} ELSE acked)
           /\ Release(c) /\ UNCHANGED seen
  <2>1. row' \in [Jobs -> Row] /\ Counted'
    <3>1. Blank.state = "none"
      BY DEF Blank
    <3> QED
      BY <1>1, <1>3, <3>1, Blanks DEF Inv, TypeOK, Counted, AttemptsCounted, Unpushed, Exists, AckWrite
  <2>2. consumer' \in [Consumers -> Doing] /\ beat' \in [Consumers -> Beat] /\ Assigned'
    BY <1>3, Releases DEF Inv, AckWrite
  <2> QED
    BY <1>2, <1>3, <2>1, <2>2 DEF Inv, TypeOK, AckWrite
<1>4. CASE Writes(t, j, Completed) /\ acked' = acked \cup {j} /\ Release(c)
  <2>1. Completed(row[j]) \in Row /\ Completed(row[j]).attempts = row[j].attempts
    <3>1. Nobody \in Tokens \cup {Nobody} /\ 0 \in Int
      OBVIOUS
    <3> QED
      BY <1>1, <3>1, Zenon DEF Completed, Row, States
  <2>2. /\ Exists(j) /\ row' \in [Jobs -> Row] /\ runs' \in [Jobs -> 0 .. MaxRuns] /\ Counted'
        /\ seen' \in [Threads -> Row \cup {NoRow}]
    <3>1. Exists(j) /\ row' = [row EXCEPT ![j] = Completed(row[j])]
      BY <1>4 DEF Writes, Base
    <3> QED
      BY <1>1, <1>4, <2>1, <3>1, SameAttempts, SeenTyped DEF Inv, AckWrite, Writes
  <2>3. consumer' \in [Consumers -> Doing] /\ beat' \in [Consumers -> Beat] /\ Assigned'
    BY <1>4, Releases DEF Inv, AckWrite
  <2> QED
    BY <1>2, <1>4, <2>2, <2>3 DEF Inv, TypeOK, AckWrite
<1>5. CASE /\ Misses(t, j) /\ UNCHANGED acked
           /\ consumer' = [consumer EXCEPT ![c].pc = "failing"]
  <2>1. /\ row' \in [Jobs -> Row] /\ runs' \in [Jobs -> 0 .. MaxRuns] /\ Counted'
        /\ seen' \in [Threads -> Row \cup {NoRow}]
    BY <1>1, <1>5, MissKeeps DEF Inv, AckWrite
  <2>2. consumer' \in [Consumers -> Doing] /\ beat' \in [Consumers -> Beat] /\ Assigned'
    BY <1>1, <1>5, GoesOn DEF Inv, AckWrite, Held
  <2> QED
    BY <1>5, <2>1, <2>2 DEF Inv, TypeOK, AckWrite
<1>6. ~Reads(t, j)
  BY <1>1, WritesOnce DEF Inv
<1> QED
  BY <1>3, <1>4, <1>5, <1>6, Zenon DEF AckWrite

LEMMA NackReadKeeps ==
  ASSUME AtomicRow, Inv, NEW c \in Consumers, NackRead(c)
  PROVE  Inv'
<1> DEFINE r == row[consumer[c].job]
           pc == IF Exhausted(r.attempts) THEN "bury" ELSE "nack"
           delay == IF Exhausted(r.attempts) THEN 0 ELSE calculateBackoff(r.attempts)
           w == [consumer[c] EXCEPT !.age = 0, !.pc = pc, !.delay = delay]
<1>1. consumer' \in [Consumers -> Doing] /\ beat' \in [Consumers -> Beat] /\ Assigned'
  <2>1. CASE Release(c)
    BY <2>1, Releases DEF Inv, NackRead
  <2>2. CASE /\ r.state # "none"
             /\ consumer' = [consumer EXCEPT ![c].age = 0, ![c].pc = pc, ![c].delay = delay]
    <3>1. consumer[c] \in Doing /\ consumer[c].job \in Jobs /\ 0 \in Nat
      BY DEF Inv, TypeOK, Assigned, Holding, NackRead
    <3>2. r.attempts \in 0 .. MaxRuns
      BY <2>2, <3>1 DEF Inv, TypeOK, Counted, AttemptsCounted, Exists
    <3>3. calculateBackoff(r.attempts) \in Nat
      BY <3>2, BackoffAssumption
    <3>4. delay \in Nat
      BY <3>3
    <3> HIDE DEF delay
    <3>5. w \in Doing /\ w.job = consumer[c].job
      BY <3>1, <3>4, Zenon DEF Doing
    <3>6. consumer' = [consumer EXCEPT ![c] = w]
      BY <2>2, Zenon DEF Inv, TypeOK
    <3> QED
      BY <3>1, <3>5, <3>6, OneConsumer DEF Inv, NackRead
  <2> QED
    BY <2>1, <2>2, Zenon DEF NackRead
<1> QED
  BY <1>1 DEF Inv, TypeOK, Counted, AttemptsCounted, Unpushed, Exists, NackRead

LEMMA NackWriteKeeps ==
  ASSUME AtomicRow, Inv, NEW c \in Consumers, NackWrite(c)
  PROVE  Inv'
<1> DEFINE j == consumer[c].job
           t == <<"main", c>>
<1>1. /\ j \in Jobs /\ Holding(c) /\ row[j] \in Row /\ ~Reads(t, j)
      /\ Remaining(c) \in Nat
  <2>1. j \in Jobs /\ Holding(c) /\ consumer[c] \in Doing
    BY DEF Inv, TypeOK, Assigned, Holding, NackWrite
  <2>2. Remaining(c) \in Nat
    BY <2>1 DEF Remaining, Doing
  <2> QED
    BY <2>1, <2>2, WritesOnce DEF Inv, TypeOK
<1>2. consumer' \in [Consumers -> Doing] /\ beat' \in [Consumers -> Beat] /\ Assigned'
  BY <1>1, Releases DEF Inv, NackWrite
<1>3. /\ row' \in [Jobs -> Row] /\ runs' \in [Jobs -> 0 .. MaxRuns] /\ Counted'
      /\ seen' \in [Threads -> Row \cup {NoRow}]
  <2>0. 0 \in Int
    OBVIOUS
  <2>1. CASE Writes(t, j, LAMBDA r : Delayed(r, Remaining(c)))
    <3>1. Delayed(row[j], Remaining(c)) \in Row /\ Delayed(row[j], Remaining(c)).attempts = row[j].attempts
      BY <1>1, <2>0, Zenon DEF Delayed, Row, States
    <3>2. Exists(j) /\ row' = [row EXCEPT ![j] = Delayed(row[j], Remaining(c))]
      BY <2>1 DEF Writes, Base
    <3> QED
      BY <1>1, <2>1, <3>1, <3>2, SameAttempts, SeenTyped DEF Inv, NackWrite, Writes
  <2>2. CASE Writes(t, j, Buried)
    <3>1. Buried(row[j]) \in Row /\ Buried(row[j]).attempts = row[j].attempts
      BY <1>1, <2>0, Zenon DEF Buried, Row, States
    <3>2. Exists(j) /\ row' = [row EXCEPT ![j] = Buried(row[j])]
      BY <2>2 DEF Writes, Base
    <3> QED
      BY <1>1, <2>2, <3>1, <3>2, SameAttempts, SeenTyped DEF Inv, NackWrite, Writes
  <2>3. CASE Misses(t, j)
    BY <1>1, <2>3, MissKeeps DEF Inv, NackWrite
  <2> QED
    BY <1>1, <2>1, <2>2, <2>3, Zenon DEF NackWrite
<1> QED
  BY <1>2, <1>3 DEF Inv, TypeOK, NackWrite

LEMMA BeatReadKeeps ==
  ASSUME Inv, NEW c \in Consumers, BeatRead(c)
  PROVE  Inv'
<1> DEFINE b == [pc |-> "sent", job |-> consumer[c].job, token |-> consumer[c].token, age |-> 0]
<1>1. consumer[c] \in Doing /\ consumer[c].job \in Jobs /\ 0 \in Nat
  BY DEF Inv, TypeOK, Assigned, Holding, BeatRead
<1>2. b \in Beat /\ b.job \in Jobs
  BY <1>1, Zenon DEF Beat, Doing
<1>3. beat' = [beat EXCEPT ![c] = b]
  BY DEF BeatRead
<1> HIDE DEF b
<1> QED
  BY <1>2, <1>3 DEF Inv, TypeOK, Counted, AttemptsCounted, Unpushed, Exists, Assigned, Holding, BeatRead

LEMMA BeatWriteKeeps ==
  ASSUME AtomicRow, Inv, NEW c \in Consumers, BeatWrite(c)
  PROVE  Inv'
<1> DEFINE b == beat[c]
           t == <<"beat", c>>
           until == IF consumer[c].token = b.token THEN Lease - b.age ELSE consumer[c].until
           w == [consumer[c] EXCEPT !.until = until]
<1>1. /\ b \in Beat /\ b.job \in Jobs /\ b.age \in Nat /\ row[b.job] \in Row /\ ~Reads(t, b.job)
      /\ consumer[c] \in Doing /\ until \in Int
  <2>1. b \in Beat /\ b.job \in Jobs /\ consumer[c] \in Doing
    BY DEF Inv, TypeOK, Assigned, BeatWrite
  <2>2. b.age \in Nat /\ consumer[c].until \in Int /\ Lease \in Int
    BY <2>1, QueueAssumption DEF Beat, Doing
  <2> QED
    BY <2>1, <2>2, WritesOnce DEF Inv, TypeOK
<1>2. NoBeat.pc = "idle"
  BY DEF NoBeat
<1>3. CASE /\ Writes(t, b.job, LAMBDA r : Extended(r, b.age))
           /\ beat' = [beat EXCEPT ![c] = NoBeat]
           /\ consumer' = [consumer EXCEPT ![c].until = until]
  <2>1. Extended(row[b.job], b.age) \in Row /\ Extended(row[b.job], b.age).attempts = row[b.job].attempts
    <3>1. Lease - b.age \in Int
      BY <1>1, QueueAssumption
    <3> QED
      BY <1>1, <3>1, Zenon DEF Extended, Row, States
  <2>2. Exists(b.job) /\ row' = [row EXCEPT ![b.job] = Extended(row[b.job], b.age)]
    BY <1>3 DEF Writes, Base
  <2>3. /\ row' \in [Jobs -> Row] /\ runs' \in [Jobs -> 0 .. MaxRuns] /\ Counted'
        /\ seen' \in [Threads -> Row \cup {NoRow}]
    BY <1>1, <1>3, <2>1, <2>2, SameAttempts, SeenTyped DEF Inv, BeatWrite, Writes
  <2>4. w \in Doing /\ w.job = consumer[c].job /\ w.pc = consumer[c].pc
    BY <1>1, Zenon DEF Doing
  <2>5. consumer' = [consumer EXCEPT ![c] = w]
    BY <1>3
  <2> HIDE DEF w
  <2> QED
    BY <1>2, <1>3, <2>3, <2>4, <2>5, Blanks DEF Inv, TypeOK, Assigned, Holding, BeatWrite
<1>4. CASE Misses(t, b.job) /\ beat' = [beat EXCEPT ![c] = NoBeat] /\ UNCHANGED consumer
  <2>1. /\ row' \in [Jobs -> Row] /\ runs' \in [Jobs -> 0 .. MaxRuns] /\ Counted'
        /\ seen' \in [Threads -> Row \cup {NoRow}]
    BY <1>1, <1>4, MissKeeps DEF Inv, BeatWrite
  <2> QED
    BY <1>2, <1>4, <2>1, Blanks DEF Inv, TypeOK, Assigned, Holding, BeatWrite
<1> QED
  BY <1>1, <1>3, <1>4, Zenon DEF BeatWrite

LEMMA FindKeeps ==
  ASSUME Inv, NEW m \in Maintainers, RetryFind(m) \/ CleanFind(m)
  PROVE  Inv'
<1>1. maint' \in [Maintainers -> Upkeep]
  <2>1. PICK w \in Upkeep : maint' = [maint EXCEPT ![m] = w]
    <3>1. CASE RetryFind(m)
      <4>1. PICK found \in SUBSET Jobs : maint' = [maint EXCEPT ![m] = [pc |-> "retry", found |-> found]]
        BY <3>1 DEF RetryFind
      <4> QED
        BY <4>1 DEF Upkeep
    <3>2. CASE CleanFind(m)
      BY <3>2 DEF CleanFind, Upkeep
    <3> QED
      BY <3>1, <3>2
  <2> QED
    BY <2>1 DEF Inv, TypeOK
<1>2. UNCHANGED <<row, consumer, beat, seen, pushed, acked, runs, faults>>
  BY DEF RetryFind, CleanFind
<1> QED
  BY <1>1, <1>2 DEF Inv, TypeOK, Counted, AttemptsCounted, Unpushed, Exists, Assigned, Holding

LEMMA RetryWriteKeeps ==
  ASSUME AtomicRow, Inv, NEW m \in Maintainers, RetryWrite(m)
  PROVE  Inv'
<1> DEFINE t == <<"maint", m>>
<1>1. PICK j \in maint[m].found :
        /\ maint[m].pc = "retry"
        /\ \/ /\ Writes(t, j, Retried)
              /\ runs' = [runs EXCEPT ![j] = 0]
              /\ maint' = [maint EXCEPT ![m] = IF maint[m].found \ {j} = {} THEN NoUpkeep
                                               ELSE [@ EXCEPT !.found = maint[m].found \ {j}]]
           \/ Reads(t, j) /\ UNCHANGED <<maint, runs>>
           \/ /\ Misses(t, j)
              /\ maint' = [maint EXCEPT ![m] = NoUpkeep] /\ UNCHANGED runs
        /\ UNCHANGED <<consumer, beat, pushed, acked, faults>>
  BY Zenon DEF RetryWrite
<1>2. maint[m] \in Upkeep /\ j \in Jobs /\ row[j] \in Row /\ ~Reads(t, j)
  BY WritesOnce DEF Inv, TypeOK, Upkeep
<1>3. [maint[m] EXCEPT !.found = maint[m].found \ {j}] \in Upkeep
  BY <1>2, Zenon DEF Upkeep
<1>4. maint' \in [Maintainers -> Upkeep]
  BY <1>1, <1>2, <1>3, Blanks DEF Inv, TypeOK
<1>5. CASE Writes(t, j, Retried) /\ runs' = [runs EXCEPT ![j] = 0]
  <2>1. Retried(row[j]) \in Row /\ Retried(row[j]).attempts = 0
    <3>1. 0 \in Nat
      OBVIOUS
    <3> QED
      BY <1>2, <3>1, Zenon DEF Retried, Row, States
  <2>2. Exists(j) /\ row' = [row EXCEPT ![j] = Retried(row[j])] /\ 0 \in 0 .. MaxRuns
    BY <1>5, QueueAssumption DEF Writes, Base
  <2>3. row' \in [Jobs -> Row] /\ runs' \in [Jobs -> 0 .. MaxRuns] /\ Counted'
    BY <1>1, <1>2, <1>5, <2>1, <2>2, OneRecord DEF Inv
  <2> QED
    BY <1>1, <1>4, <1>5, <2>3, SeenTyped DEF Inv, TypeOK, Assigned, Holding, Writes
<1>6. CASE Misses(t, j) /\ UNCHANGED runs
  <2>1. /\ row' \in [Jobs -> Row] /\ runs' \in [Jobs -> 0 .. MaxRuns] /\ Counted'
        /\ seen' \in [Threads -> Row \cup {NoRow}]
    BY <1>1, <1>2, <1>6, MissKeeps DEF Inv
  <2> QED
    BY <1>1, <1>4, <2>1 DEF Inv, TypeOK, Assigned, Holding
<1> QED
  BY <1>1, <1>2, <1>5, <1>6

LEMMA CleanDeleteKeeps ==
  ASSUME Inv, NEW m \in Maintainers, CleanDelete(m)
  PROVE  Inv'
<1>1. Blank.state = "none"
  BY DEF Blank
<1>2. row' \in [Jobs -> Row] /\ Counted'
  BY <1>1, Blanks DEF Inv, TypeOK, Counted, AttemptsCounted, Unpushed, Exists, CleanDelete
<1> QED
  BY <1>2, Blanks DEF Inv, TypeOK, Assigned, Holding, CleanDelete

LEMMA CrashKeeps ==
  ASSUME Inv, NEW c \in Consumers, Crash(c)
  PROVE  Inv'
<1>1. Idle.pc = "idle" /\ NoBeat.pc = "idle"
  BY DEF Idle, NoBeat
<1>2. consumer' \in [Consumers -> Doing] /\ beat' \in [Consumers -> Beat] /\ Assigned'
  BY <1>1, Blanks DEF Inv, TypeOK, Assigned, Holding, Crash, Release
<1>3. seen' \in [Threads -> Row \cup {NoRow}]
  BY DEF Inv, TypeOK, Crash
<1>4. faults' \in 0 .. MaxFaults
  BY QueueAssumption DEF Inv, TypeOK, Crash
<1> QED
  BY <1>2, <1>3, <1>4 DEF Inv, TypeOK, Counted, AttemptsCounted, Unpushed, Exists, Crash

LEMMA CallFailsKeeps ==
  ASSUME Inv, NEW c \in Consumers, CallFails(c)
  PROVE  Inv'
<1>1. consumer' \in [Consumers -> Doing] /\ beat' \in [Consumers -> Beat] /\ Assigned'
  <2>1. CASE consumer[c].pc = "claim" /\ \E j \in Foremost(consumer[c].found) : GoesToNext(c, j)
    BY <2>1, Skips DEF Inv, CallFails
  <2>2. CASE consumer[c].pc = "ack" /\ consumer' = [consumer EXCEPT ![c].pc = "failing"]
    BY <2>2, GoesOn DEF Inv, CallFails, Held, Holding
  <2>3. CASE Release(c)
    BY <2>3, Releases DEF Inv, CallFails
  <2> QED
    BY <2>1, <2>2, <2>3, Zenon DEF CallFails
<1>2. faults' \in 0 .. MaxFaults
  BY QueueAssumption DEF Inv, TypeOK, CallFails
<1> QED
  BY <1>1, <1>2, SeenTyped DEF Inv, TypeOK, Counted, AttemptsCounted, Unpushed, Exists, CallFails

LEMMA TickKeeps ==
  ASSUME Inv, Tick
  PROVE  Inv'
<1>1. \A r \in Row : Older(r) \in Row /\ Older(r).attempts = r.attempts /\ Older(r).state = r.state
  <2> TAKE r \in Row
  <2>1. Sooner(r.runAt, 0) \in Nat /\ Sooner(r.lease, -MaxDelay) \in Int
    BY QueueAssumption DEF Row, Sooner
  <2> QED
    BY <2>1, Zenon DEF Older, Row, States
<1>2. row' \in [Jobs -> Row] /\ Counted'
  BY <1>1 DEF Inv, TypeOK, Counted, AttemptsCounted, Unpushed, Exists, Tick
<1>3. seen' \in [Threads -> Row \cup {NoRow}]
  BY <1>1 DEF Inv, TypeOK, Tick
<1>4. ASSUME NEW c \in Consumers
      PROVE  consumer'[c] \in Doing /\ consumer'[c].pc = consumer[c].pc /\ consumer'[c].job = consumer[c].job
  <2> DEFINE age == IF Calling(c) THEN consumer[c].age + 1 ELSE 0
  <2>1. consumer'[c] = [consumer[c] EXCEPT !.until = Sooner(consumer[c].until, 0), !.age = age]
    BY DEF Tick
  <2>2. consumer[c] \in Doing
    BY DEF Inv, TypeOK
  <2>3. Sooner(consumer[c].until, 0) \in Int /\ age \in Nat
    BY <2>2 DEF Doing, Sooner
  <2> HIDE DEF age
  <2> QED
    BY <2>1, <2>2, <2>3, Zenon DEF Doing
<1>5. ASSUME NEW c \in Consumers
      PROVE  beat'[c] \in Beat /\ beat'[c].pc = beat[c].pc /\ beat'[c].job = beat[c].job
  <2> DEFINE age == IF beat[c].pc = "sent" THEN beat[c].age + 1 ELSE 0
  <2>1. beat'[c] = [beat[c] EXCEPT !.age = age] /\ beat[c] \in Beat
    BY DEF Tick, Inv, TypeOK
  <2>2. age \in Nat
    BY <2>1 DEF Beat
  <2> HIDE DEF age
  <2> QED
    BY <2>1, <2>2, Zenon DEF Beat
<1>6. consumer' \in [Consumers -> Doing] /\ beat' \in [Consumers -> Beat]
  BY <1>4, <1>5, Zenon DEF Tick
<1>7. Assigned'
  BY <1>4, <1>5 DEF Inv, Assigned, Holding
<1> QED
  BY <1>2, <1>3, <1>6, <1>7 DEF Inv, TypeOK, Tick

-----------------------------------------------------------------------------
LEMMA InitInv == Init => Inv
<1> SUFFICES ASSUME Init PROVE Inv
  OBVIOUS
<1>1. Blank.state = "none" /\ Idle.pc = "idle" /\ NoBeat.pc = "idle"
  BY DEF Blank, Idle, NoBeat
<1> QED
  BY <1>1, Blanks, QueueAssumption
     DEF Init, Inv, TypeOK, Counted, AttemptsCounted, Unpushed, Exists, Assigned, Holding

LEMMA NextInv ==
  ASSUME AtomicRow, Inv, [Next]_vars
  PROVE  Inv'
<1>1. CASE \E j \in Jobs : Push(j)
  BY <1>1, PushKeeps
<1>2. CASE \E c \in Consumers : Consume(c)
  BY <1>2, PopFindKeeps, ClaimKeeps, ProcessorFailsKeeps, AckReadKeeps, AckWriteKeeps,
     NackReadKeeps, NackWriteKeeps, Zenon DEF Consume
<1>3. CASE \E c \in Consumers : BeatRead(c) \/ BeatWrite(c) \/ Crash(c) \/ CallFails(c)
  BY <1>3, BeatReadKeeps, BeatWriteKeeps, CrashKeeps, CallFailsKeeps, Zenon
<1>4. CASE \E m \in Maintainers : RetryFind(m) \/ RetryWrite(m) \/ CleanFind(m) \/ CleanDelete(m)
  BY <1>4, FindKeeps, RetryWriteKeeps, CleanDeleteKeeps, Zenon
<1>5. CASE Tick
  BY <1>5, TickKeeps
<1>6. CASE UNCHANGED vars
  BY <1>6 DEF vars, Inv, TypeOK, Counted, AttemptsCounted, Unpushed, Exists, Assigned, Holding
<1> QED
  BY <1>1, <1>2, <1>3, <1>4, <1>5, <1>6, Zenon DEF Next

(* Whatever the consumers and maintainers do, and whichever of their calls *)
(* fail or come late, the queue keeps its types, counts every attempt and  *)
(* gives a job to whoever holds one.                                       *)
THEOREM QueueInvariance ==
  ASSUME AtomicRow
  PROVE  Spec => []Inv
<1>1. Inv /\ [Next]_vars => Inv'
  BY NextInv
<1> QED
  BY <1>1, InitInv, PTL DEF Spec

(* Type correctness.                                                       *)
THEOREM QueueTypes ==
  ASSUME AtomicRow
  PROVE  Spec => []TypeOK
<1>1. Inv => TypeOK
  BY DEF Inv
<1> QED
  BY <1>1, QueueInvariance, PTL

(* pop() counts every time it hands a job out, and no late or failing call *)
(* makes it lose count: heartbeat(), nack() and retryFailed() write the    *)
(* columns they mean to and no others (src/queue/queue.ts).                *)
THEOREM EveryAttemptCounts ==
  ASSUME AtomicRow
  PROVE  Spec => []AttemptsCounted
<1>1. Inv => AttemptsCounted
  BY DEF Inv, Counted
<1> QED
  BY <1>1, QueueInvariance, PTL

-----------------------------------------------------------------------------
(* Leases that are kept.                                                   *)

(* The row is updated in one step; consumers finish or extend before their *)
(* lease ends, and no heartbeat outlives its job; one maintainer.          *)
Punctual ==
  /\ AtomicRow /\ LeaseKept /\ ~BeatOverlaps
  /\ \A m, n \in Maintainers : m = n

(* Who holds a job is in its record, with its token and its lease.         *)
HeldRows ==
  \A c \in Consumers : Holding(c) =>
    LET r == row[consumer[c].job] IN
    /\ r.state = "active" /\ r.token = consumer[c].token
    /\ r.lease = consumer[c].until /\ consumer[c].until > 0

TokensApart ==
  \A c, d \in Consumers : c # d /\ Holding(c) /\ Holding(d) => consumer[c].token # consumer[d].token

(* A heartbeat is for the job that its consumer processes.                 *)
BeatsWork ==
  \A c \in Consumers : beat[c].pc = "sent" =>
    consumer[c].pc = "work" /\ beat[c].job = consumer[c].job /\ beat[c].token = consumer[c].token

Timely == \A c \in Consumers : consumer[c].age <= MaxDelay /\ beat[c].age <= MaxDelay

(* What a maintainer has found stays as it was found.                      *)
FoundSettled ==
  \A m \in Maintainers : \A j \in maint[m].found :
    /\ maint[m].pc = "retry" => row[j].state = "failed"
    /\ maint[m].pc = "clean" => Settled(row[j])

Leased == HeldRows /\ TokensApart /\ BeatsWork /\ Timely /\ FoundSettled /\ AckedIsFinal

(* No job is dropped in this step.                                         *)
Undropped == \A j \in Jobs : row[j].state \in {"waiting", "delayed"} => row'[j].state # "none"

(* Over, or not there at all.                                              *)
Final(r) == r.state \in {"completed", "failed", "none"}

(* What the mutators do to the columns that matter here.                   *)
LEMMA Columns ==
  ASSUME NEW r \in Row, NEW token, NEW age, NEW runAt
  PROVE  /\ Claimed(r, token, age).state = "active" /\ Claimed(r, token, age).token = token
         /\ Claimed(r, token, age).lease = Lease - age
         /\ Completed(r).state = "completed"
         /\ Delayed(r, runAt).state = "delayed"
         /\ Buried(r).state = "failed"
         /\ Extended(r, age).state = r.state /\ Extended(r, age).token = r.token
         /\ Extended(r, age).lease = Lease - age
         /\ Retried(r).state = "waiting"
         /\ Older(r).state = r.state /\ Older(r).token = r.token
         /\ Older(r).lease = Sooner(r.lease, -MaxDelay)
BY Zenon DEF Row, Claimed, Completed, Delayed, Buried, Extended, Retried, Older

(* Two do not hold the same job: they would have the same token.           *)
LEMMA HeldAlone ==
  ASSUME Leased, NEW c \in Consumers, NEW d \in Consumers, c # d, Holding(c), Holding(d)
  PROVE  consumer[c].job # consumer[d].job
BY DEF Leased, HeldRows, TokensApart

(* A step of one consumer, which becomes w, and of its heartbeat.          *)
LEMMA ConsumerStep ==
  ASSUME Inv, Leased, NEW c \in Consumers, NEW w \in Doing, NEW b \in Beat,
         consumer' = [consumer EXCEPT ![c] = w], beat' = [beat EXCEPT ![c] = b], UNCHANGED maint,
         \A d \in Consumers \ {c} : Holding(d) => row'[consumer[d].job] = row[consumer[d].job],
         \A k \in Jobs : Final(row[k]) => row'[k].state = row[k].state,
         \A k \in acked' \ acked : row'[k].state \in {"completed", "none"},
         w.pc \in Held => /\ row'[w.job].state = "active" /\ row'[w.job].token = w.token
                          /\ row'[w.job].lease = w.until /\ w.until > 0
                          /\ \A d \in Consumers \ {c} : Holding(d) => consumer[d].token # w.token,
         b.pc = "sent" => w.pc = "work" /\ b.job = w.job /\ b.token = w.token,
         w.age <= MaxDelay, b.age <= MaxDelay
  PROVE  Leased'
<1>1. /\ consumer'[c] = w /\ beat'[c] = b
      /\ \A d \in Consumers \ {c} : consumer'[d] = consumer[d] /\ beat'[d] = beat[d]
  BY DEF Inv, TypeOK
<1>2. \A d \in Consumers : Holding(d)' <=> consumer'[d].pc \in Held
  BY DEF Holding, Held
<1>3. \A d \in Consumers \ {c} : Holding(d)' <=> Holding(d)
  BY <1>1 DEF Holding
<1>4. HeldRows'
  BY <1>1, <1>2, <1>3 DEF Leased, HeldRows
<1>5. TokensApart'
  BY <1>1, <1>2, <1>3 DEF Leased, TokensApart
<1>6. BeatsWork' /\ Timely'
  BY <1>1 DEF Leased, BeatsWork, Timely
<1>7. FoundSettled'
  BY DEF Leased, FoundSettled, Inv, TypeOK, Upkeep, Final, Settled
<1>8. AckedIsFinal'
  BY DEF Leased, AckedIsFinal, Inv, TypeOK, Final
<1> QED
  BY <1>4, <1>5, <1>6, <1>7, <1>8 DEF Leased

(* The same when it holds nothing afterwards, or what it held, and its     *)
(* record, if it held one, is all that has changed.                        *)
LEMMA HolderStep ==
  ASSUME Inv, Leased, NEW c \in Consumers, Holding(c), NEW w \in Doing,
         consumer' = [consumer EXCEPT ![c] = w], UNCHANGED <<beat, maint>>,
         \A k \in Jobs : k # consumer[c].job => row'[k] = row[k],
         \A k \in acked' \ acked : k = consumer[c].job /\ row'[k].state \in {"completed", "none"},
         beat[c].pc = "idle",
         \/ w.pc \notin Held
         \/ /\ w.job = consumer[c].job /\ w.token = consumer[c].token /\ w.until = consumer[c].until
            /\ UNCHANGED row,
         w.age <= MaxDelay
  PROVE  Leased'
<1>1. consumer[c].job \in Jobs /\ row[consumer[c].job].state = "active"
  BY DEF Inv, Assigned, Leased, HeldRows
<1>2. \A d \in Consumers \ {c} : Holding(d) =>
        consumer[d].job \in Jobs /\ consumer[d].job # consumer[c].job
  BY HeldAlone DEF Inv, Assigned
<1>3. /\ \A d \in Consumers \ {c} : Holding(d) => row'[consumer[d].job] = row[consumer[d].job]
      /\ \A k \in Jobs : Final(row[k]) => row'[k].state = row[k].state
  BY <1>1, <1>2 DEF Final
<1>4. beat' = [beat EXCEPT ![c] = beat[c]] /\ beat[c] \in Beat /\ beat[c].age <= MaxDelay
  BY DEF Inv, TypeOK, Leased, Timely
<1>5. w.pc \in Held => /\ row'[w.job].state = "active" /\ row'[w.job].token = w.token
                       /\ row'[w.job].lease = w.until /\ w.until > 0
                       /\ \A d \in Consumers \ {c} : Holding(d) => consumer[d].token # w.token
  BY DEF Leased, HeldRows, TokensApart
<1> QED
  BY <1>3, <1>4, <1>5, ConsumerStep

(* And when it holds nothing, before and after, and writes nothing.        *)
LEMMA FreeStep ==
  ASSUME Inv, Leased, NEW c \in Consumers, NEW w \in Doing, w.pc \notin Held,
         consumer' = [consumer EXCEPT ![c] = w], UNCHANGED <<row, maint, acked>>,
         NEW b \in Beat, beat' = [beat EXCEPT ![c] = b], b.pc = "idle", b.age <= MaxDelay,
         w.age <= MaxDelay
  PROVE  Leased'
BY ConsumerStep

-----------------------------------------------------------------------------
(* The operations, when leases are kept.                                   *)

LEMMA Idles == /\ Idle.pc = "idle" /\ Idle.age = 0 /\ 0 <= MaxDelay
               /\ NoBeat.pc = "idle" /\ NoBeat.age = 0 /\ Blank.state = "none"
BY QueueAssumption DEF Idle, NoBeat, Blank

(* Who does not work has no heartbeat.                                     *)
LEMMA NoBeatThen ==
  ASSUME Inv, Leased, NEW c \in Consumers, consumer[c].pc # "work"
  PROVE  beat[c].pc = "idle"
BY DEF Inv, TypeOK, Beat, Leased, BeatsWork

(* A holder lets go of its job, having written its record.                 *)
LEMMA LetsGo ==
  ASSUME Inv, Leased, NEW c \in Consumers, Holding(c), Release(c), UNCHANGED <<beat, maint>>,
         \A k \in Jobs : k # consumer[c].job => row'[k] = row[k],
         \A k \in acked' \ acked : k = consumer[c].job /\ row'[k].state \in {"completed", "none"},
         beat[c].pc = "idle"
  PROVE  Leased' /\ Undropped
<1>1. Leased'
  BY HolderStep, Idles, Blanks DEF Release, Held
<1>2. row[consumer[c].job].state = "active"
  BY DEF Leased, HeldRows
<1> QED
  BY <1>1, <1>2 DEF Undropped

(* It goes on, with its job as it was.                                     *)
LEMMA StaysOn ==
  ASSUME Inv, Leased, NEW c \in Consumers, Holding(c), NEW w \in Doing,
         consumer' = [consumer EXCEPT ![c] = w], UNCHANGED <<row, beat, maint, acked>>,
         beat[c].pc = "idle",
         w.job = consumer[c].job, w.token = consumer[c].token, w.until = consumer[c].until,
         w.age <= MaxDelay
  PROVE  Leased' /\ Undropped
<1>1. Leased'
  BY HolderStep
<1> QED
  BY <1>1 DEF Undropped

LEMMA PushPunctual ==
  ASSUME Inv, Leased, NEW j \in Jobs, Push(j)
  PROVE  Leased' /\ Undropped
<1>1. row[j].state = "none" /\ \A k \in Jobs \ {j} : row'[k] = row[k]
  BY DEF Push, Inv, TypeOK, Counted, Unpushed, Exists
<1>2. \A c \in Consumers : Holding(c) => consumer[c].job \in Jobs \ {j}
  BY <1>1 DEF Inv, Assigned, Leased, HeldRows
<1>3. HeldRows' /\ TokensApart' /\ BeatsWork' /\ Timely'
  BY <1>1, <1>2 DEF Push, Leased, HeldRows, TokensApart, BeatsWork, Timely, Holding
<1>4. FoundSettled'
  <2>1. \A m \in Maintainers : maint[m] \in Upkeep
    BY DEF Inv, TypeOK
  <2>2. \A m \in Maintainers : maint[m].pc \in {"retry", "clean"} => j \notin maint[m].found
    BY <1>1 DEF Leased, FoundSettled, Settled
  <2> QED
    BY <1>1, <2>1, <2>2 DEF Push, Leased, FoundSettled, Upkeep, Settled
<1>5. AckedIsFinal'
  BY <1>1 DEF Push, Leased, AckedIsFinal, Inv, TypeOK
<1> QED
  BY <1>1, <1>3, <1>4, <1>5 DEF Leased, Undropped

LEMMA PopFindPunctual ==
  ASSUME Inv, Leased, NEW c \in Consumers, PopFind(c)
  PROVE  Leased' /\ Undropped
<1> DEFINE w == [Idle EXCEPT !.pc = "claim", !.found = {j \in Jobs : Ready(row[j])}]
<1>1. w \in Doing /\ w.pc = "claim" /\ w.age = 0
  BY Blanks, Zenon DEF Doing, Idle
<1>2. consumer' = [consumer EXCEPT ![c] = w] /\ UNCHANGED <<row, beat, maint, acked>>
  BY DEF PopFind
<1>3. beat[c] \in Beat /\ beat[c].pc = "idle" /\ beat[c].age <= MaxDelay /\ beat' = [beat EXCEPT ![c] = beat[c]]
  BY <1>2, NoBeatThen DEF PopFind, Inv, TypeOK, Leased, Timely
<1> HIDE DEF w
<1>4. Leased'
  BY <1>1, <1>2, <1>3, Idles, FreeStep DEF Held
<1> QED
  BY <1>2, <1>4 DEF Undropped

LEMMA SkipsPunctual ==
  ASSUME Inv, Leased, NEW c \in Consumers, consumer[c].pc = "claim", NEW j,
         GoesToNext(c, j), UNCHANGED <<row, beat, maint, acked>>
  PROVE  Leased' /\ Undropped
<1> DEFINE v == [consumer[c] EXCEPT !.found = consumer[c].found \ {j}]
           w == IF consumer[c].found = {j} THEN Idle ELSE v
<1>1. consumer[c] \in Doing /\ consumer[c].age <= MaxDelay
  BY DEF Inv, TypeOK, Leased, Timely
<1>2. v \in Doing /\ v.pc = "claim" /\ v.age = consumer[c].age
  BY <1>1, Zenon DEF Doing
<1> HIDE DEF v
<1>3. w \in Doing /\ w.pc \notin Held /\ w.age <= MaxDelay
  BY <1>1, <1>2, Blanks, Idles DEF Held
<1>4. consumer' = [consumer EXCEPT ![c] = w]
  BY DEF GoesToNext, v
<1>5. beat[c] \in Beat /\ beat[c].pc = "idle" /\ beat[c].age <= MaxDelay /\ beat' = [beat EXCEPT ![c] = beat[c]]
  BY NoBeatThen DEF Inv, TypeOK, Leased, Timely
<1> HIDE DEF w
<1>6. Leased'
  BY <1>3, <1>4, <1>5, FreeStep
<1> QED
  BY <1>6 DEF Undropped

LEMMA ClaimPunctual ==
  ASSUME AtomicRow, Inv, Leased, NEW c \in Consumers, Claim(c)
  PROVE  Leased' /\ Undropped
<1>1. PICK j \in Foremost(consumer[c].found) :
        /\ consumer[c].pc = "claim"
        /\ UNCHANGED <<beat, maint, pushed, acked, faults>>
        /\ \/ /\ Exists(j) /\ Claimable(Base(<<"main", c>>, j), consumer[c].age)
              /\ Tokens \ Used # {}
              /\ Writes(<<"main", c>>, j, LAMBDA r : Claimed(r, Fresh, consumer[c].age))
              /\ consumer' = [consumer EXCEPT ![c] = [Idle EXCEPT !.pc = "work", !.job = j,
                                !.token = Fresh, !.until = Lease - consumer[c].age]]
           \/ Reads(<<"main", c>>, j)
           \/ GoesToNext(c, j) /\ UNCHANGED row
  BY Zenon DEF Claim
<1>2. j \in Jobs /\ consumer[c] \in Doing /\ consumer[c].age \in Nat /\ consumer[c].age <= MaxDelay
  BY DEF Inv, TypeOK, Doing, Foremost, Leased, Timely
<1>3. ~Reads(<<"main", c>>, j) /\ Base(<<"main", c>>, j) = row[j]
  BY <1>2, WritesOnce DEF Inv
<1>4. CASE /\ Claimable(row[j], consumer[c].age) /\ Tokens \ Used # {}
           /\ Writes(<<"main", c>>, j, LAMBDA r : Claimed(r, Fresh, consumer[c].age))
           /\ consumer' = [consumer EXCEPT ![c] = [Idle EXCEPT !.pc = "work", !.job = j,
                             !.token = Fresh, !.until = Lease - consumer[c].age]]
  <2> DEFINE r == Claimed(row[j], Fresh, consumer[c].age)
             w == [Idle EXCEPT !.pc = "work", !.job = j, !.token = Fresh,
                               !.until = Lease - consumer[c].age]
  <2>1. Fresh \in Tokens /\ Fresh \notin Used /\ row[j] \in Row /\ Lease - consumer[c].age \in Int
    BY <1>2, <1>4, FreshToken, QueueAssumption DEF Inv, TypeOK
  <2>2. row' = [row EXCEPT ![j] = r]
    BY <1>3, <1>4 DEF Writes
  <2>3. r.state = "active" /\ r.token = Fresh /\ r.lease = Lease - consumer[c].age
    BY <2>1, Columns
  <2>4. /\ w \in Doing /\ w.pc = "work" /\ w.job = j /\ w.token = Fresh
        /\ w.until = Lease - consumer[c].age /\ w.age = 0
    BY <1>2, <2>1, Blanks, Zenon DEF Doing, Idle
  <2>5. Lease - consumer[c].age > 0
    BY <1>2, QueueAssumption
  <2>6. /\ row[j].state \in {"waiting", "delayed", "active"}
        /\ row[j].state = "active" => row[j].lease <= 0
    BY <1>2, <1>4, <2>1 DEF Claimable, Row
  <2>7. \A d \in Consumers : Holding(d) => consumer[d].job \in Jobs \ {j} /\ consumer[d].token # Fresh
    <3> TAKE d \in Consumers
    <3>1. consumer[d].token # Fresh
      BY <2>1 DEF Used
    <3>2. Holding(d) => consumer[d].job # j
      BY <2>1, <2>6 DEF Leased, HeldRows, Inv, TypeOK, Doing, Row
    <3> QED
      BY <3>1, <3>2 DEF Inv, Assigned
  <2>8. beat[c] \in Beat /\ beat[c].pc = "idle" /\ beat[c].age <= MaxDelay /\ beat' = [beat EXCEPT ![c] = beat[c]]
    BY <1>1, NoBeatThen DEF Inv, TypeOK, Leased, Timely
  <2> HIDE DEF r, w
  <2>9. /\ row'[j] = r /\ \A k \in Jobs \ {j} : row'[k] = row[k]
    BY <1>2, <2>2 DEF Inv, TypeOK
  <2>10. consumer' = [consumer EXCEPT ![c] = w]
    BY <1>4 DEF w
  <2>11. /\ \A d \in Consumers \ {c} : Holding(d) => row'[consumer[d].job] = row[consumer[d].job]
         /\ \A k \in Jobs : Final(row[k]) => row'[k].state = row[k].state
    BY <2>6, <2>7, <2>9 DEF Final
  <2>12. /\ row'[w.job].state = "active" /\ row'[w.job].token = w.token
         /\ row'[w.job].lease = w.until /\ w.until > 0
         /\ \A d \in Consumers \ {c} : Holding(d) => consumer[d].token # w.token
    BY <2>3, <2>4, <2>5, <2>7, <2>9
  <2>13. Leased'
    BY <1>1, <2>4, <2>8, <2>10, <2>11, <2>12, Idles, ConsumerStep
  <2> QED
    BY <2>3, <2>9, <2>13 DEF Undropped
<1>5. CASE GoesToNext(c, j) /\ UNCHANGED row
  BY <1>1, <1>5, SkipsPunctual
<1> QED
  BY <1>1, <1>3, <1>4, <1>5

LEMMA ProcessorFailsPunctual ==
  ASSUME Punctual, Inv, Leased, NEW c \in Consumers, ProcessorFails(c)
  PROVE  Leased' /\ Undropped
<1> DEFINE w == [consumer[c] EXCEPT !.pc = "failing"]
<1>1. consumer[c] \in Doing /\ Holding(c) /\ consumer[c].age <= MaxDelay
  BY DEF Inv, TypeOK, ProcessorFails, Holding, Leased, Timely
<1>2. /\ w \in Doing /\ w.job = consumer[c].job /\ w.token = consumer[c].token
      /\ w.until = consumer[c].until /\ w.age = consumer[c].age
  BY <1>1, Zenon DEF Doing
<1>3. consumer' = [consumer EXCEPT ![c] = w] /\ beat[c].pc = "idle" /\ UNCHANGED <<row, beat, maint, acked>>
  BY DEF ProcessorFails, Punctual, BeatDone
<1> HIDE DEF w
<1> QED
  BY <1>1, <1>2, <1>3, StaysOn

LEMMA AckReadPunctual ==
  ASSUME Punctual, Inv, Leased, NEW c \in Consumers, AckRead(c)
  PROVE  Leased' /\ Undropped
<1> DEFINE pc == IF row[consumer[c].job].token = consumer[c].token THEN "ack" ELSE "failing"
           w == [consumer[c] EXCEPT !.age = 0, !.pc = pc]
<1>1. /\ consumer[c] \in Doing /\ Holding(c) /\ beat[c].pc = "idle" /\ 0 \in Nat
      /\ UNCHANGED <<row, beat, maint, acked>>
  BY DEF Inv, TypeOK, AckRead, Holding, Punctual, BeatDone
<1>2. CASE Release(c)
  BY <1>1, <1>2, LetsGo
<1>3. CASE consumer' = [consumer EXCEPT ![c].age = 0, ![c].pc = pc]
  <2>1. /\ w \in Doing /\ w.job = consumer[c].job /\ w.token = consumer[c].token
        /\ w.until = consumer[c].until /\ w.age = 0
    BY <1>1, Zenon DEF Doing
  <2>2. consumer' = [consumer EXCEPT ![c] = w]
    BY <1>3, Zenon DEF Inv, TypeOK
  <2> HIDE DEF w
  <2> QED
    BY <1>1, <2>1, <2>2, Idles, StaysOn
<1> QED
  BY <1>2, <1>3, Zenon DEF AckRead

LEMMA AckWritePunctual ==
  ASSUME Punctual, Inv, Leased, NEW c \in Consumers, AckWrite(c)
  PROVE  Leased' /\ Undropped
<1> DEFINE j == consumer[c].job
           t == <<"main", c>>
<1>1. /\ Holding(c) /\ j \in Jobs /\ row[j] \in Row /\ beat[c].pc = "idle"
      /\ UNCHANGED <<beat, maint>> /\ ~Reads(t, j) /\ ~Misses(t, j)
  <2>1. Holding(c) /\ j \in Jobs /\ row[j].state = "active"
    BY DEF AckWrite, Holding, Inv, Assigned, Leased, HeldRows
  <2> QED
    BY <2>1, NoBeatThen, WritesOnce DEF AckWrite, Inv, TypeOK, Punctual, Misses, Exists
<1>2. CASE row' = [row EXCEPT ![j] = Blank] /\ acked' \subseteq acked \cup {j} /\ Release(c)
  <2>1. row'[j].state = "none" /\ \A k \in Jobs : k # j => row'[k] = row[k]
    BY <1>1, <1>2, Idles DEF Inv, TypeOK
  <2> QED
    BY <1>1, <1>2, <2>1, LetsGo
<1>3. CASE Writes(t, j, Completed) /\ acked' \subseteq acked \cup {j} /\ Release(c)
  <2>1. row' = [row EXCEPT ![j] = Completed(row[j])]
    BY <1>3 DEF Writes, Base, Punctual
  <2>2. row'[j].state = "completed" /\ \A k \in Jobs : k # j => row'[k] = row[k]
    BY <1>1, <2>1, Columns DEF Inv, TypeOK
  <2> QED
    BY <1>1, <1>3, <2>2, LetsGo
<1> QED
  BY <1>1, <1>2, <1>3 DEF AckWrite

LEMMA NackReadPunctual ==
  ASSUME Punctual, Inv, Leased, NEW c \in Consumers, NackRead(c)
  PROVE  Leased' /\ Undropped
<1> DEFINE r == row[consumer[c].job]
           pc == IF Exhausted(r.attempts) THEN "bury" ELSE "nack"
           delay == IF Exhausted(r.attempts) THEN 0 ELSE calculateBackoff(r.attempts)
           w == [consumer[c] EXCEPT !.age = 0, !.pc = pc, !.delay = delay]
<1>1. /\ Holding(c) /\ beat[c].pc = "idle" /\ UNCHANGED <<row, beat, maint, acked>>
  BY NoBeatThen DEF NackRead, Holding
<1>2. CASE Release(c)
  BY <1>1, <1>2, LetsGo
<1>3. CASE /\ r.state # "none"
           /\ consumer' = [consumer EXCEPT ![c].age = 0, ![c].pc = pc, ![c].delay = delay]
  <2>1. consumer[c] \in Doing /\ consumer[c].job \in Jobs /\ 0 \in Nat
    BY <1>1 DEF Inv, TypeOK, Assigned
  <2>2. r.attempts \in 0 .. MaxRuns
    BY <1>3, <2>1 DEF Inv, TypeOK, Counted, AttemptsCounted, Exists
  <2>3. delay \in Nat
    BY <2>2, BackoffAssumption
  <2> HIDE DEF delay
  <2>4. /\ w \in Doing /\ w.job = consumer[c].job /\ w.token = consumer[c].token
        /\ w.until = consumer[c].until /\ w.age = 0
    BY <2>1, <2>3, Zenon DEF Doing
  <2>5. consumer' = [consumer EXCEPT ![c] = w]
    BY <1>3, Zenon DEF Inv, TypeOK
  <2> HIDE DEF w
  <2> QED
    BY <1>1, <2>4, <2>5, Idles, StaysOn
<1> QED
  BY <1>2, <1>3, Zenon DEF NackRead

LEMMA NackWritePunctual ==
  ASSUME Punctual, Inv, Leased, NEW c \in Consumers, NackWrite(c)
  PROVE  Leased' /\ Undropped
<1> DEFINE j == consumer[c].job
           t == <<"main", c>>
<1>1. /\ Holding(c) /\ j \in Jobs /\ beat[c].pc = "idle" /\ UNCHANGED <<beat, maint, acked>> /\ ~Reads(t, j)
  <2>1. Holding(c) /\ j \in Jobs
    BY DEF NackWrite, Holding, Inv, Assigned
  <2> QED
    BY <2>1, NoBeatThen, WritesOnce DEF NackWrite, Inv, Punctual
<1>2. Release(c) /\ \A k \in Jobs : k # j => row'[k] = row[k]
  <2>1. CASE \E r \in {Delayed(row[j], Remaining(c)), Buried(row[j])} : row' = [row EXCEPT ![j] = r]
    BY <1>1, <2>1 DEF Inv, TypeOK, NackWrite
  <2>2. CASE Misses(t, j)
    BY <1>1, <2>2 DEF Misses, NackWrite
  <2>3. CASE Writes(t, j, LAMBDA r : Delayed(r, Remaining(c)))
    BY <2>1, <2>3 DEF Writes, Base, Punctual
  <2>4. CASE Writes(t, j, Buried)
    BY <2>1, <2>4 DEF Writes, Base, Punctual
  <2>5. Release(c)
    BY <1>1, Zenon DEF NackWrite
  <2> QED
    BY <1>1, <2>2, <2>3, <2>4, <2>5, Zenon DEF NackWrite
<1> QED
  BY <1>1, <1>2, LetsGo

LEMMA BeatReadPunctual ==
  ASSUME Inv, Leased, NEW c \in Consumers, BeatRead(c)
  PROVE  Leased' /\ Undropped
<1> DEFINE b == [pc |-> "sent", job |-> consumer[c].job, token |-> consumer[c].token, age |-> 0]
<1>1. b \in Beat
  BY DEF BeatRead, Inv, TypeOK, Beat, Doing
<1>2. b.pc = "sent" /\ b.job = consumer[c].job /\ b.token = consumer[c].token /\ b.age = 0
  OBVIOUS
<1>3. beat' = [beat EXCEPT ![c] = b] /\ UNCHANGED <<row, consumer, maint, acked>> /\ consumer[c].pc = "work"
  BY DEF BeatRead
<1> HIDE DEF b
<1>4. beat'[c] = b /\ \A d \in Consumers \ {c} : beat'[d] = beat[d]
  BY <1>3 DEF Inv, TypeOK
<1>5. BeatsWork' /\ Timely'
  BY <1>2, <1>3, <1>4, Idles DEF Leased, BeatsWork, Timely
<1> QED
  BY <1>3, <1>5 DEF Leased, HeldRows, TokensApart, FoundSettled, AckedIsFinal, Holding, Undropped

LEMMA BeatWritePunctual ==
  ASSUME Punctual, Inv, Leased, NEW c \in Consumers, BeatWrite(c)
  PROVE  Leased' /\ Undropped
<1> DEFINE b == beat[c]
           t == <<"beat", c>>
           until == Lease - b.age
           w == [consumer[c] EXCEPT !.until = until]
<1>1. /\ b.pc = "sent" /\ consumer[c].pc = "work" /\ Holding(c)
      /\ b.job = consumer[c].job /\ b.token = consumer[c].token
      /\ b.job \in Jobs /\ row[b.job] \in Row /\ row[b.job].state = "active"
      /\ row[b.job].token = consumer[c].token
      /\ consumer[c] \in Doing /\ b \in Beat /\ b.age \in Nat /\ b.age <= MaxDelay
  BY DEF BeatWrite, Leased, BeatsWork, Timely, HeldRows, Holding, Inv, Assigned, TypeOK, Beat
<1>2. until \in Int /\ until > 0
  BY <1>1, QueueAssumption
<1>3. ~Reads(t, b.job) /\ ~Misses(t, b.job) /\ Base(t, b.job) = row[b.job]
  BY <1>1, WritesOnce DEF Inv, Punctual, Misses, Exists
<1>4. /\ row' = [row EXCEPT ![b.job] = Extended(row[b.job], b.age)]
      /\ beat' = [beat EXCEPT ![c] = NoBeat]
      /\ consumer' = [consumer EXCEPT ![c].until = until]
      /\ UNCHANGED <<maint, acked>>
  BY <1>1, <1>3 DEF BeatWrite, Writes
<1>5. /\ row'[b.job].state = "active" /\ row'[b.job].token = consumer[c].token
      /\ row'[b.job].lease = until
      /\ \A k \in Jobs \ {b.job} : row'[k] = row[k]
  BY <1>1, <1>4, Columns DEF Inv, TypeOK
<1> HIDE DEF until
<1>6. /\ w \in Doing /\ w.pc = "work" /\ w.job = b.job /\ w.token = consumer[c].token
      /\ w.until = until /\ w.age = consumer[c].age
  BY <1>1, <1>2, Zenon DEF Doing
<1>7. consumer' = [consumer EXCEPT ![c] = w]
  BY <1>4
<1> HIDE DEF w
<1>8. \A d \in Consumers \ {c} : Holding(d) =>
        /\ row'[consumer[d].job] = row[consumer[d].job] /\ consumer[d].token # w.token
  BY <1>1, <1>5, <1>6, HeldAlone DEF Inv, Assigned, Leased, TokensApart
<1>9. \A k \in Jobs : Final(row[k]) => row'[k].state = row[k].state
  BY <1>1, <1>5 DEF Final
<1>10. w.age <= MaxDelay
  BY <1>6 DEF Leased, Timely
<1>11. /\ row'[w.job].state = "active" /\ row'[w.job].token = w.token
       /\ row'[w.job].lease = w.until /\ w.until > 0
       /\ \A d \in Consumers \ {c} : Holding(d) => consumer[d].token # w.token
  BY <1>2, <1>5, <1>6, <1>8
<1>12. \A d \in Consumers \ {c} : Holding(d) => row'[consumer[d].job] = row[consumer[d].job]
  BY <1>8
<1>13. acked' \ acked = {} /\ UNCHANGED maint
  BY <1>4
<1>14. NoBeat \in Beat /\ NoBeat.pc # "sent" /\ NoBeat.age <= MaxDelay
  BY Blanks, Idles
<1>15. Leased'
  BY <1>4, <1>6, <1>7, <1>9, <1>10, <1>11, <1>12, <1>13, <1>14, ConsumerStep
<1> QED
  BY <1>5, <1>15 DEF Undropped

LEMMA FindPunctual ==
  ASSUME Inv, Leased, NEW m \in Maintainers, RetryFind(m) \/ CleanFind(m)
  PROVE  Leased' /\ Undropped
<1>1. UNCHANGED <<row, consumer, beat, acked>>
  BY DEF RetryFind, CleanFind
<1>2. FoundSettled'
  <2>1. CASE RetryFind(m)
    <3>1. PICK found \in SUBSET Jobs : /\ \A j \in found : row[j].state = "failed"
                                       /\ maint' = [maint EXCEPT ![m] = [pc |-> "retry", found |-> found]]
      BY <2>1 DEF RetryFind
    <3> QED
      BY <1>1, <3>1 DEF Leased, FoundSettled, Settled, Inv, TypeOK
  <2>2. CASE CleanFind(m)
    BY <1>1, <2>2 DEF CleanFind, Leased, FoundSettled, Settled, Inv, TypeOK
  <2> QED
    BY <2>1, <2>2
<1> QED
  BY <1>1, <1>2 DEF Leased, HeldRows, TokensApart, BeatsWork, Timely, AckedIsFinal, Holding, Undropped

(* What one maintainer has found, no other writes.                         *)
LEMMA RetryWritePunctual ==
  ASSUME Punctual, Inv, Leased, NEW m \in Maintainers, RetryWrite(m)
  PROVE  Leased' /\ Undropped
<1> DEFINE t == <<"maint", m>>
<1>1. PICK j \in maint[m].found :
        /\ maint[m].pc = "retry"
        /\ \/ /\ Writes(t, j, Retried)
              /\ maint' = [maint EXCEPT ![m] = IF maint[m].found \ {j} = {} THEN NoUpkeep
                                               ELSE [@ EXCEPT !.found = maint[m].found \ {j}]]
           \/ Reads(t, j)
           \/ Misses(t, j)
        /\ UNCHANGED <<consumer, beat, pushed, acked, faults>>
  BY Zenon DEF RetryWrite
<1>2. maint[m] \in Upkeep /\ j \in Jobs /\ row[j] \in Row /\ row[j].state = "failed"
  BY <1>1 DEF Inv, TypeOK, Upkeep, Leased, FoundSettled
<1>3. /\ row' = [row EXCEPT ![j] = Retried(row[j])]
      /\ maint' = [maint EXCEPT ![m] = IF maint[m].found \ {j} = {} THEN NoUpkeep
                                       ELSE [@ EXCEPT !.found = maint[m].found \ {j}]]
  BY <1>1, <1>2, WritesOnce DEF Writes, Base, Misses, Exists, Inv, Punctual
<1>4. row'[j].state = "waiting" /\ \A k \in Jobs \ {j} : row'[k] = row[k]
  BY <1>2, <1>3, Columns DEF Inv, TypeOK
<1>5. HeldRows' /\ TokensApart' /\ BeatsWork' /\ Timely'
  BY <1>1, <1>2, <1>4 DEF Leased, HeldRows, TokensApart, BeatsWork, Timely, Holding, Inv, Assigned
<1>6. FoundSettled'
  <2>1. \A n \in Maintainers : n = m
    BY DEF Punctual
  <2>2. maint'[m].found \subseteq maint[m].found \ {j} /\ maint'[m].pc \in {"retry", "idle"}
    BY <1>1, <1>2, <1>3 DEF Inv, TypeOK, Upkeep, NoUpkeep
  <2>3. \A k \in maint'[m].found : k \in Jobs
    BY <1>2, <2>2 DEF Upkeep
  <2> QED
    BY <1>1, <1>4, <2>1, <2>2, <2>3 DEF Leased, FoundSettled
<1>7. AckedIsFinal'
  BY <1>1, <1>2, <1>4 DEF Leased, AckedIsFinal, Inv, TypeOK
<1> QED
  BY <1>4, <1>5, <1>6, <1>7 DEF Leased, Undropped

LEMMA CleanDeletePunctual ==
  ASSUME Punctual, Inv, Leased, NEW m \in Maintainers, CleanDelete(m)
  PROVE  Leased' /\ Undropped
<1>1. /\ \A j \in maint[m].found : Settled(row[j])
      /\ \A j \in Jobs : row'[j] = IF j \in maint[m].found THEN Blank ELSE row[j]
      /\ UNCHANGED <<consumer, beat, acked>>
  BY DEF CleanDelete, Leased, FoundSettled
<1>2. HeldRows' /\ TokensApart' /\ BeatsWork' /\ Timely'
  BY <1>1 DEF Leased, HeldRows, TokensApart, BeatsWork, Timely, Holding, Inv, Assigned, Settled
<1>3. maint'[m].found = {} /\ \A n \in Maintainers : n = m
  BY DEF CleanDelete, NoUpkeep, Punctual, Inv, TypeOK
<1>4. FoundSettled'
  BY <1>3 DEF FoundSettled
<1>5. AckedIsFinal' /\ Undropped
  BY <1>1, Idles DEF Leased, AckedIsFinal, Undropped, Inv, TypeOK, Settled
<1> QED
  BY <1>2, <1>4, <1>5 DEF Leased

LEMMA CrashPunctual ==
  ASSUME Inv, Leased, NEW c \in Consumers, Crash(c)
  PROVE  Leased' /\ Undropped
<1>1. /\ consumer' = [consumer EXCEPT ![c] = Idle] /\ beat' = [beat EXCEPT ![c] = NoBeat]
      /\ UNCHANGED <<row, maint, acked>>
  BY DEF Crash, Release
<1>2. Leased'
  BY <1>1, Blanks, Idles, FreeStep DEF Held
<1> QED
  BY <1>1, <1>2 DEF Undropped

LEMMA CallFailsPunctual ==
  ASSUME Inv, Leased, NEW c \in Consumers, CallFails(c)
  PROVE  Leased' /\ Undropped
<1>1. UNCHANGED <<row, beat, maint, acked>>
  BY DEF CallFails
<1>2. CASE consumer[c].pc = "claim" /\ \E j \in Foremost(consumer[c].found) : GoesToNext(c, j)
  BY <1>1, <1>2, SkipsPunctual
<1>3. CASE consumer[c].pc = "ack" /\ consumer' = [consumer EXCEPT ![c].pc = "failing"]
  <2> DEFINE w == [consumer[c] EXCEPT !.pc = "failing"]
  <2>1. consumer[c] \in Doing /\ Holding(c) /\ consumer[c].age <= MaxDelay /\ beat[c].pc = "idle"
    BY <1>3, NoBeatThen DEF Inv, TypeOK, Holding, Leased, Timely
  <2>2. /\ w \in Doing /\ w.job = consumer[c].job /\ w.token = consumer[c].token
        /\ w.until = consumer[c].until /\ w.age = consumer[c].age
    BY <2>1, Zenon DEF Doing
  <2>3. consumer' = [consumer EXCEPT ![c] = w]
    BY <1>3
  <2> HIDE DEF w
  <2> QED
    BY <1>1, <2>1, <2>2, <2>3, StaysOn
<1>4. CASE consumer[c].pc \in {"failing", "nack", "bury"} /\ Release(c)
  BY <1>1, <1>4, NoBeatThen, LetsGo DEF Holding
<1> QED
  BY <1>2, <1>3, <1>4, Zenon DEF CallFails

LEMMA TickPunctual ==
  ASSUME Punctual, Inv, Leased, Tick
  PROVE  Leased' /\ Undropped
<1>1. \A j \in Jobs : /\ row[j] \in Row /\ row'[j].state = row[j].state /\ row'[j].token = row[j].token
                      /\ row'[j].lease = Sooner(row[j].lease, -MaxDelay)
  BY Columns DEF Tick, Inv, TypeOK
<1>2. ASSUME NEW c \in Consumers
      PROVE  /\ consumer'[c].pc = consumer[c].pc /\ consumer'[c].job = consumer[c].job
             /\ consumer'[c].token = consumer[c].token
             /\ consumer'[c].until = Sooner(consumer[c].until, 0)
             /\ consumer'[c].age <= MaxDelay
  <2> DEFINE age == IF Calling(c) THEN consumer[c].age + 1 ELSE 0
  <2>1. consumer'[c] = [consumer[c] EXCEPT !.until = Sooner(consumer[c].until, 0), !.age = age]
    BY DEF Tick
  <2>2. consumer[c] \in Doing
    BY DEF Inv, TypeOK
  <2>3. age <= MaxDelay
    <3>1. consumer[c].age \in Nat /\ MaxDelay \in Nat /\ (Calling(c) => consumer[c].age < MaxDelay)
      BY <2>2, QueueAssumption DEF Tick, Doing
    <3> QED
      BY <3>1
  <2> HIDE DEF age
  <2> QED
    BY <2>1, <2>2, <2>3 DEF Doing
<1>3. ASSUME NEW c \in Consumers
      PROVE  /\ beat'[c].pc = beat[c].pc /\ beat'[c].job = beat[c].job
             /\ beat'[c].token = beat[c].token /\ beat'[c].age <= MaxDelay
  <2> DEFINE age == IF beat[c].pc = "sent" THEN beat[c].age + 1 ELSE 0
  <2>1. beat'[c] = [beat[c] EXCEPT !.age = age] /\ beat[c] \in Beat
    BY DEF Tick, Inv, TypeOK
  <2>2. age <= MaxDelay
    <3>1. beat[c].age \in Nat /\ MaxDelay \in Nat /\ (beat[c].pc = "sent" => beat[c].age < MaxDelay)
      BY <2>1, QueueAssumption DEF Tick, Beat
    <3> QED
      BY <3>1
  <2> HIDE DEF age
  <2> QED
    BY <2>1, <2>2 DEF Beat
<1>4. \A c \in Consumers : Holding(c)' <=> Holding(c)
  BY <1>2 DEF Holding
<1>5. HeldRows'
  <2> SUFFICES ASSUME NEW c \in Consumers, Holding(c)
               PROVE  /\ row'[consumer'[c].job].state = "active"
                      /\ row'[consumer'[c].job].token = consumer'[c].token
                      /\ row'[consumer'[c].job].lease = consumer'[c].until /\ consumer'[c].until > 0
    BY <1>4 DEF HeldRows
  <2>1. consumer[c].job \in Jobs /\ consumer[c].until \in Int /\ consumer[c].until > 1
    BY DEF Inv, TypeOK, Assigned, Doing, Tick, Punctual
  <2>2. /\ row[consumer[c].job].state = "active" /\ row[consumer[c].job].token = consumer[c].token
        /\ row[consumer[c].job].lease = consumer[c].until
    BY DEF Leased, HeldRows
  <2> QED
    BY <1>1, <1>2, <2>1, <2>2, QueueAssumption DEF Sooner
<1>6. TokensApart' /\ BeatsWork' /\ Timely'
  BY <1>2, <1>3, <1>4 DEF Leased, TokensApart, BeatsWork, Timely
<1>7. FoundSettled' /\ AckedIsFinal' /\ Undropped
  BY <1>1 DEF Tick, Leased, FoundSettled, AckedIsFinal, Undropped, Settled, Inv, TypeOK, Upkeep
<1> QED
  BY <1>5, <1>6, <1>7 DEF Leased

-----------------------------------------------------------------------------
LEMMA InitLeased == Init => Leased
<1> SUFFICES ASSUME Init PROVE Leased
  OBVIOUS
<1>1. NoUpkeep.found = {}
  BY DEF NoUpkeep
<1> QED
  BY <1>1, Idles DEF Init, Leased, HeldRows, TokensApart, BeatsWork, Timely, FoundSettled, AckedIsFinal, Holding

LEMMA NextLeased ==
  ASSUME Punctual, Inv, Leased, [Next]_vars
  PROVE  Leased' /\ Undropped
<1>1. CASE \E j \in Jobs : Push(j)
  BY <1>1, PushPunctual
<1>2. CASE \E c \in Consumers : Consume(c)
  BY <1>2, PopFindPunctual, ClaimPunctual, ProcessorFailsPunctual, AckReadPunctual, AckWritePunctual,
     NackReadPunctual, NackWritePunctual, Zenon DEF Consume, Punctual
<1>3. CASE \E c \in Consumers : BeatRead(c) \/ BeatWrite(c) \/ Crash(c) \/ CallFails(c)
  BY <1>3, BeatReadPunctual, BeatWritePunctual, CrashPunctual, CallFailsPunctual, Zenon
<1>4. CASE \E m \in Maintainers : RetryFind(m) \/ RetryWrite(m) \/ CleanFind(m) \/ CleanDelete(m)
  BY <1>4, FindPunctual, RetryWritePunctual, CleanDeletePunctual, Zenon
<1>5. CASE Tick
  BY <1>5, TickPunctual
<1>6. CASE UNCHANGED vars
  BY <1>6 DEF vars, Leased, HeldRows, TokensApart, BeatsWork, Timely, FoundSettled, AckedIsFinal,
              Holding, Undropped
<1> QED
  BY <1>1, <1>2, <1>3, <1>4, <1>5, <1>6, Zenon DEF Next

LEMMA LeasesHold ==
  ASSUME Punctual
  PROVE  Spec => [](Inv /\ Leased) /\ [][Undropped]_vars
<1>1. Inv /\ Leased /\ [Next]_vars => (Inv /\ Leased)'
  BY NextInv, NextLeased DEF Punctual
<1>2. Inv /\ Leased /\ [Next]_vars => [Undropped]_vars
  BY NextLeased
<1>3. Init => Inv /\ Leased
  BY InitInv, InitLeased
<1> QED
  BY <1>1, <1>2, <1>3, PTL DEF Spec

(* A job has one holder: whoever claims it finds that its lease has run    *)
(* out, and a holder that finishes or extends in time is gone by then.     *)
THEOREM OneHolder ==
  ASSUME Punctual
  PROVE  Spec => []Exclusive
<1>1. Leased => Exclusive
  BY HeldAlone DEF Exclusive
<1> QED
  BY <1>1, LeasesHold, PTL

(* An acknowledged job stays settled: no nack, heartbeat, claim or retry   *)
(* of another arrives at it.                                               *)
THEOREM AckIsFinal ==
  ASSUME Punctual
  PROVE  Spec => []AckedIsFinal
<1>1. Leased => AckedIsFinal
  BY DEF Leased
<1> QED
  BY <1>1, LeasesHold, PTL

(* No job is dropped: what ack() and clean() delete was held or settled.   *)
THEOREM NoneDropped ==
  ASSUME Punctual
  PROVE  Spec => NeverDropped
<1>1. [Undropped]_vars <=> [\A j \in Jobs : row[j].state \in {"waiting", "delayed"} => row'[j].state # "none"]_vars
  BY DEF Undropped
<1> QED
  BY <1>1, LeasesHold, PTL DEF NeverDropped

=============================================================================
