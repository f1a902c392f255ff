------------------------------ MODULE JobQueue ------------------------------
(***************************************************************************)
(* The persistent job queue (src/queue/queue.ts): jobs are records of a    *)
(* schema table, popped under a lease, acknowledged, retried with backoff  *)
(* or buried, by consumers of several processes that share the database.   *)
(*                                                                         *)
(* A consumer is one slot of a Worker (src/queue/worker.ts) or a program   *)
(* that pops by hand.  Every call is cut at its awaits: what it has read   *)
(* may be stale when it writes.  Only table.updateRecord and table.update  *)
(* read and write a record in one step, and on MongoDB not even they do:   *)
(* they compare the value and write back all the columns they have read.   *)
(*                                                                         *)
(* A timestamp is kept as its distance from the clock, which Tick lowers,  *)
(* and a Date.now() a call has taken as its age, which Tick raises.        *)
(* Recurring jobs are in Schedule; the sort by runAt and createdAt and the *)
(* limit of 10 candidates are left out.                                    *)
(***************************************************************************)
EXTENDS Integers, FiniteSets

CONSTANTS
  Jobs,              (* jobIds                                             *)
  Consumers,         (* who pops                                           *)
  Maintainers,       (* who calls retryFailed() and clean()                *)
  Tokens,            (* lockTokens, enough for one to be unused            *)
  Nobody,            (* the null lockToken                                 *)
  NoRow,             (* nothing read                                       *)
  Priority,          (* the priority of a job                              *)
  Removed,           (* the jobs pushed with removeOnComplete              *)
  MaxAttempts,       (* maxAttempts                                        *)
  Lease,             (* visibilityTimeoutMs, in ticks                      *)
  Backoff,           (* backoff.delayMs, in ticks                          *)
  Exponential,       (* backoff.type is "exponential"                      *)
  MaxDelay,          (* ticks a call takes at most                         *)
  MaxFaults,         (* bound on crashes and failing calls                 *)
  MaxRuns,           (* bound on how often a job is handed out             *)
  AtomicRow,         (* the driver updates a row in one step               *)
  LeaseKept,         (* consumers finish, or extend, before a lease ends   *)
  BeatOverlaps       (* a heartbeat may still be on its way when its job   *)
                     (* is acknowledged, as under Worker                   *)

ASSUME QueueAssumption ==
  /\ Nobody \notin Tokens
  /\ Priority \in [Jobs -> Int]
  /\ Removed \subseteq Jobs
  /\ MaxAttempts \in Nat \ {0} /\ Lease \in Nat /\ Backoff \in Nat
  /\ MaxDelay \in Nat /\ MaxDelay < Lease /\ MaxFaults \in Nat /\ MaxRuns \in Nat
  /\ {Exponential, AtomicRow, LeaseKept, BeatOverlaps} \subseteq BOOLEAN

VARIABLES
  row,        (* the records                                               *)
  consumer,   (* what every consumer is doing                              *)
  beat,       (* the heartbeat call of every consumer                      *)
  maint,      (* what every maintainer is doing                            *)
  seen,       (* the record an update has read and not yet written         *)
  pushed,     (* history: the jobs that have been pushed                   *)
  acked,      (* history: the jobs whose ack() has returned true           *)
  runs,       (* history: how often a job was handed out since it was      *)
              (* pushed or retried                                         *)
  faults      (* crashes and failed calls so far                           *)

vars == <<row, consumer, beat, maint, seen, pushed, acked, runs, faults>>

-----------------------------------------------------------------------------
States  == {"none", "waiting", "active", "delayed", "completed", "failed"}
Row     == [state: States, runAt: Nat, attempts: Nat, token: Tokens \cup {Nobody},
            lease: Int, val: {"payload", "error", "result"}]
Doing   == [pc: {"idle", "claim", "work", "ack", "failing", "nack", "bury"},
            job: Jobs \cup {Nobody}, token: Tokens \cup {Nobody}, until: Int, age: Nat,
            found: SUBSET Jobs, delay: Nat]
Beat    == [pc: {"idle", "sent"}, job: Jobs \cup {Nobody}, token: Tokens \cup {Nobody}, age: Nat]
Upkeep  == [pc: {"idle", "retry", "clean"}, found: SUBSET Jobs]
Threads == ({"main", "beat"} \X Consumers) \cup ({"maint"} \X Maintainers)

Blank    == [state |-> "none", runAt |-> 0, attempts |-> 0, token |-> Nobody,
             lease |-> 0, val |-> "payload"]
Idle     == [pc |-> "idle", job |-> Nobody, token |-> Nobody, until |-> 0, age |-> 0,
             found |-> {}, delay |-> 0]
NoBeat   == [pc |-> "idle", job |-> Nobody, token |-> Nobody, age |-> 0]
NoUpkeep == [pc |-> "idle", found |-> {}]

Init ==
  /\ row = [j \in Jobs |-> Blank]
  /\ consumer = [c \in Consumers |-> Idle]
  /\ beat = [c \in Consumers |-> NoBeat]
  /\ maint = [m \in Maintainers |-> NoUpkeep]
  /\ seen = [t \in Threads |-> NoRow]
  /\ pushed = {} /\ acked = {} /\ runs = [j \in Jobs |-> 0] /\ faults = 0

Exists(j)  == row[j].state # "none"
Holding(c) == consumer[c].pc \in {"work", "ack", "failing", "nack", "bury"}

-----------------------------------------------------------------------------
(* Table.update and Table.updateRecord by thread t: in one step, or first  *)
(* a read and then a write that compares the value only.                   *)

Base(t, j) == IF AtomicRow THEN row[j] ELSE seen[t]

(* What t has read passes the comparison of the write.                     *)
Current(t, j) == seen[t] # NoRow /\ Exists(j) /\ seen[t].val = row[j].val

Reads(t, j) ==
  /\ ~AtomicRow /\ Exists(j) /\ ~Current(t, j)
  /\ seen' = [seen EXCEPT ![t] = row[j]]
  /\ UNCHANGED row

Writes(t, j, Mutate(_)) ==
  /\ Exists(j) /\ (~AtomicRow => Current(t, j))
  /\ row' = [row EXCEPT ![j] = Mutate(Base(t, j))]
  /\ seen' = [seen EXCEPT ![t] = NoRow]

(* The record is gone: the mutator throws.                                 *)
Misses(t, j) ==
  /\ ~Exists(j)
  /\ seen' = [seen EXCEPT ![t] = NoRow]
  /\ UNCHANGED row

-----------------------------------------------------------------------------
(* push() of a job under an id of its own.                                 *)
Push(j) ==
  /\ j \notin pushed
  /\ pushed' = pushed \cup {j}
  /\ \E d \in {0, Backoff} :
       row' = [row EXCEPT ![j] = [Blank EXCEPT !.state = IF d > 0 THEN "delayed" ELSE "waiting",
                                               !.runAt = d]]
  /\ UNCHANGED <<consumer, beat, maint, seen, acked, runs, faults>>

-----------------------------------------------------------------------------
(* pop(): the candidates are found, then claimed one after the other.      *)

(* Mutant: an expired lease is not recovered.                              *)
ReadyUnlessLeased(r) == r.state \in {"waiting", "delayed"} /\ r.runAt = 0

(* What the query asks of a record, and below what the claim asks of it    *)
(* again, with a clock that was read age ticks ago.                        *)
Ready(r) ==
  \/ r.state \in {"waiting", "delayed"} /\ r.runAt = 0
  \/ r.state = "active" /\ r.lease <= 0

(* Mutants: the claim does not look at the state again; it only looks for  *)
(* a lease.                                                                *)
ClaimableAlways(r, age) == r.state # "none"

ClaimableUnlessLeased(r, age) == r.state # "active" \/ r.lease <= -age

Claimable(r, age) ==
  \/ r.state \in {"waiting", "delayed"}
  \/ r.state = "active" /\ r.lease <= -age

PopFind(c) ==
  /\ consumer[c].pc = "idle"
  /\ LET found == {j \in Jobs : Ready(row[j])} IN
       /\ found # {}
       /\ consumer' = [consumer EXCEPT ![c] = [Idle EXCEPT !.pc = "claim", !.found = found]]
  /\ UNCHANGED <<row, beat, maint, seen, pushed, acked, runs, faults>>

Used ==
  {row[j].token : j \in Jobs} \cup {consumer[c].token : c \in Consumers}
    \cup {beat[c].token : c \in Consumers} \cup {seen[t].token : t \in {u \in Threads : seen[u] # NoRow}}

Fresh == CHOOSE t \in Tokens \ Used : TRUE

Claimed(r, token, age) ==
  [r EXCEPT !.state = "active", !.token = token, !.lease = Lease - age, !.attempts = @ + 1]

(* Lower numbers first.                                                    *)
Foremost(S) == {j \in S : \A k \in S : Priority[j] <= Priority[k]}

(* The next candidate is tried, if there is one.                           *)
GoesToNext(c, j) ==
  consumer' = [consumer EXCEPT ![c] = IF consumer[c].found = {j} THEN Idle
                                      ELSE [@ EXCEPT !.found = consumer[c].found \ {j}]]

Claim(c) == \E j \in Foremost(consumer[c].found) :
  LET t   == <<"main", c>>
      age == consumer[c].age
  IN
  /\ consumer[c].pc = "claim"
  /\ UNCHANGED <<beat, maint, pushed, acked, faults>>
  /\ \/ (* the claim succeeds *)
        /\ Exists(j) /\ (~AtomicRow => Current(t, j)) /\ Claimable(Base(t, j), age)
        /\ Tokens \ Used # {} /\ runs[j] < MaxRuns
        /\ Writes(t, j, LAMBDA r : Claimed(r, Fresh, age))
        /\ consumer' = [consumer EXCEPT ![c] = [Idle EXCEPT !.pc = "work", !.job = j,
                                                !.token = Fresh, !.until = Lease - age]]
        /\ runs' = [runs EXCEPT ![j] = @ + 1]
     \/ (* the record is read, to be compared *)
        /\ Claimable(row[j], age) /\ Reads(t, j)
        /\ UNCHANGED <<consumer, runs>>
     \/ (* somebody else has it *)
        /\ (~AtomicRow => ~Current(t, j)) /\ ~Claimable(row[j], age)
        /\ seen' = [seen EXCEPT ![t] = NoRow]
        /\ GoesToNext(c, j)
        /\ UNCHANGED <<row, runs>>

-----------------------------------------------------------------------------
(* ack() and nack(): the token is checked against a record that is read,   *)
(* and the record is updated afterwards.                                   *)

(* The worker stops its heartbeat timer when the processor returns; a call *)
(* that is on its way stays on its way.                                    *)
BeatDone(c) == BeatOverlaps \/ beat[c].pc = "idle"

Release(c) == consumer' = [consumer EXCEPT ![c] = Idle]

ProcessorFails(c) ==
  /\ consumer[c].pc = "work" /\ BeatDone(c)
  /\ consumer' = [consumer EXCEPT ![c].pc = "failing"]
  /\ UNCHANGED <<row, beat, maint, seen, pushed, acked, runs, faults>>

(* A missing record ends the call; a foreign token makes ack() throw, and  *)
(* the worker then calls nack().                                           *)
AckRead(c) ==
  /\ consumer[c].pc = "work" /\ BeatDone(c)
  /\ LET r == row[consumer[c].job] IN
       IF r.state = "none" THEN Release(c)
       ELSE consumer' = [consumer EXCEPT ![c].age = 0,
                                         ![c].pc = IF r.token = consumer[c].token THEN "ack" ELSE "failing"]
  /\ UNCHANGED <<row, beat, maint, seen, pushed, acked, runs, faults>>

Completed(r) == [r EXCEPT !.state = "completed", !.token = Nobody, !.lease = 0, !.val = "result"]

AckWrite(c) ==
  LET j == consumer[c].job
      t == <<"main", c>>
  IN
  /\ consumer[c].pc = "ack"
  /\ UNCHANGED <<beat, maint, pushed, runs, faults>>
  /\ \/ /\ j \in Removed
        /\ row' = [row EXCEPT ![j] = Blank]
        /\ acked' = IF Exists(j) THEN acked \cup {j} ELSE acked
        /\ Release(c) /\ UNCHANGED seen
     \/ /\ j \notin Removed /\ Writes(t, j, Completed)
        /\ acked' = acked \cup {j} /\ Release(c)
     \/ /\ j \notin Removed /\ Reads(t, j)
        /\ UNCHANGED <<consumer, acked>>
     \/ /\ j \notin Removed /\ Misses(t, j)
        /\ consumer' = [consumer EXCEPT ![c].pc = "failing"] /\ UNCHANGED acked

calculateBackoff(attempts) ==
  IF Exponential /\ attempts > 1 THEN Backoff * 2^(attempts - 1) ELSE Backoff

(* The provers know nothing of ^: TLC checks this for the instance.        *)
ASSUME BackoffAssumption == \A n \in 0 .. MaxRuns : calculateBackoff(n) \in Nat

Exhausted(attempts) == attempts >= MaxAttempts

(* Whether to retry or to bury is decided on the record that was read.     *)
NackRead(c) ==
  /\ consumer[c].pc = "failing"
  /\ LET r == row[consumer[c].job] IN
       IF r.state = "none" \/ r.token # consumer[c].token THEN Release(c)
       ELSE consumer' = [consumer EXCEPT ![c].age = 0,
                           ![c].pc = IF Exhausted(r.attempts) THEN "bury" ELSE "nack",
                           ![c].delay = IF Exhausted(r.attempts) THEN 0
                                        ELSE calculateBackoff(r.attempts)]
  /\ UNCHANGED <<row, beat, maint, seen, pushed, acked, runs, faults>>

Delayed(r, runAt) ==
  [r EXCEPT !.state = "delayed", !.runAt = runAt, !.token = Nobody, !.lease = 0, !.val = "error"]

Buried(r) == [r EXCEPT !.state = "failed", !.token = Nobody, !.lease = 0, !.val = "error"]

(* The delay is counted from the clock nack() has read.                    *)
Remaining(c) == IF consumer[c].delay > consumer[c].age THEN consumer[c].delay - consumer[c].age ELSE 0

NackWrite(c) ==
  LET j == consumer[c].job
      t == <<"main", c>>
  IN
  /\ consumer[c].pc \in {"nack", "bury"}
  /\ \/ /\ consumer[c].pc = "nack"
        /\ Writes(t, j, LAMBDA r : Delayed(r, Remaining(c))) /\ Release(c)
     \/ /\ consumer[c].pc = "bury" /\ Writes(t, j, Buried) /\ Release(c)
     \/ Reads(t, j) /\ UNCHANGED consumer
     \/ Misses(t, j) /\ Release(c)
  /\ UNCHANGED <<beat, maint, pushed, acked, runs, faults>>

-----------------------------------------------------------------------------
(* heartbeat(): checked and written like an ack.                           *)

BeatRead(c) ==
  /\ consumer[c].pc = "work" /\ beat[c].pc = "idle"
  /\ row[consumer[c].job].token = consumer[c].token
  /\ beat' = [beat EXCEPT ![c] = [pc |-> "sent", job |-> consumer[c].job,
                                  token |-> consumer[c].token, age |-> 0]]
  /\ UNCHANGED <<row, consumer, maint, seen, pushed, acked, runs, faults>>

Extended(r, age) == [r EXCEPT !.lease = Lease - age]

BeatWrite(c) ==
  LET b == beat[c]
      t == <<"beat", c>>
  IN
  /\ b.pc = "sent"
  /\ \/ /\ Writes(t, b.job, LAMBDA r : Extended(r, b.age))
        /\ beat' = [beat EXCEPT ![c] = NoBeat]
        /\ consumer' = [consumer EXCEPT ![c].until = IF consumer[c].token = b.token
                                                     THEN Lease - b.age ELSE @]
     \/ /\ Reads(t, b.job) /\ UNCHANGED <<consumer, beat>>
     \/ /\ Misses(t, b.job)
        /\ beat' = [beat EXCEPT ![c] = NoBeat] /\ UNCHANGED consumer
  /\ UNCHANGED <<maint, pushed, acked, runs, faults>>

-----------------------------------------------------------------------------
(* retryFailed() and clean(): what they find is not looked at again.       *)

RetryFind(m) ==
  /\ maint[m].pc = "idle"
  /\ LET failed == {j \in Jobs : row[j].state = "failed"} IN
       \E found \in {failed} \cup {{j} : j \in failed} :
         /\ found # {}
         /\ maint' = [maint EXCEPT ![m] = [pc |-> "retry", found |-> found]]
  /\ UNCHANGED <<row, consumer, beat, seen, pushed, acked, runs, faults>>

(* Mutant: the attempts are not reset.                                     *)
RetriedKeepsAttempts(r) == [r EXCEPT !.state = "waiting", !.runAt = 0, !.val = "payload"]

Retried(r) == [r EXCEPT !.state = "waiting", !.runAt = 0, !.attempts = 0, !.val = "payload"]

RetryWrite(m) == \E j \in maint[m].found :
  LET t == <<"maint", m>>
      left == maint[m].found \ {j}
  IN
  /\ maint[m].pc = "retry"
  /\ \/ /\ Writes(t, j, Retried)
        /\ runs' = [runs EXCEPT ![j] = 0]
        /\ maint' = [maint EXCEPT ![m] = IF left = {} THEN NoUpkeep ELSE [@ EXCEPT !.found = left]]
     \/ Reads(t, j) /\ UNCHANGED <<maint, runs>>
     \/ /\ Misses(t, j)
        /\ maint' = [maint EXCEPT ![m] = NoUpkeep] /\ UNCHANGED runs
  /\ UNCHANGED <<consumer, beat, pushed, acked, faults>>

(* Mutant: whatever is not being processed.                                *)
SettledUnlessActive(r) == r.state \notin {"active", "none"}

Settled(r) == r.state \in {"completed", "failed"}

CleanFind(m) ==
  /\ maint[m].pc = "idle"
  /\ LET old == {j \in Jobs : Settled(row[j])} IN
       /\ old # {}
       /\ maint' = [maint EXCEPT ![m] = [pc |-> "clean", found |-> old]]
  /\ UNCHANGED <<row, consumer, beat, seen, pushed, acked, runs, faults>>

CleanDelete(m) ==
  /\ maint[m].pc = "clean"
  /\ row' = [j \in Jobs |-> IF j \in maint[m].found THEN Blank ELSE row[j]]
  /\ maint' = [maint EXCEPT ![m] = NoUpkeep]
  /\ UNCHANGED <<consumer, beat, seen, pushed, acked, runs, faults>>

-----------------------------------------------------------------------------
(* A process dies, with everything it was doing for this consumer.         *)
Crash(c) ==
  /\ faults < MaxFaults /\ consumer[c].pc # "idle"
  /\ faults' = faults + 1
  /\ Release(c)
  /\ beat' = [beat EXCEPT ![c] = NoBeat]
  /\ seen' = [seen EXCEPT ![<<"main", c>>] = NoRow, ![<<"beat", c>>] = NoRow]
  /\ UNCHANGED <<row, maint, pushed, acked, runs>>

(* The database answers a call with an error: pop() goes on with the next  *)
(* candidate, a failed ack() is followed by a nack(), a failed nack() is   *)
(* reported and leaves the job to its lease.                               *)
CallFails(c) ==
  /\ faults < MaxFaults
  /\ faults' = faults + 1
  /\ seen' = [seen EXCEPT ![<<"main", c>>] = NoRow]
  /\ \/ /\ consumer[c].pc = "claim"
        /\ \E j \in Foremost(consumer[c].found) : GoesToNext(c, j)
     \/ consumer[c].pc = "ack" /\ consumer' = [consumer EXCEPT ![c].pc = "failing"]
     \/ consumer[c].pc \in {"failing", "nack", "bury"} /\ Release(c)
  /\ UNCHANGED <<row, beat, maint, pushed, acked, runs>>

(* The clock advances; a call in progress returns within MaxDelay ticks.   *)
Sooner(n, floor) == IF n > floor THEN n - 1 ELSE floor

Older(r) == [r EXCEPT !.runAt = Sooner(@, 0), !.lease = Sooner(@, -MaxDelay)]

Calling(c) == consumer[c].pc \in {"claim", "ack", "nack", "bury"}

Tick ==
  /\ \A c \in Consumers : /\ Calling(c) => consumer[c].age < MaxDelay
                          /\ beat[c].pc = "sent" => beat[c].age < MaxDelay
                          /\ LeaseKept /\ Holding(c) => consumer[c].until > 1
  /\ row' = [j \in Jobs |-> Older(row[j])]
  /\ seen' = [t \in Threads |-> IF seen[t] = NoRow THEN NoRow ELSE Older(seen[t])]
  /\ consumer' = [c \in Consumers |-> [consumer[c] EXCEPT !.until = Sooner(@, 0),
                                                          !.age = IF Calling(c) THEN @ + 1 ELSE 0]]
  /\ beat' = [c \in Consumers |-> [beat[c] EXCEPT !.age = IF beat[c].pc = "sent" THEN @ + 1 ELSE 0]]
  /\ UNCHANGED <<maint, pushed, acked, runs, faults>>

Consume(c) ==
  \/ PopFind(c) \/ Claim(c) \/ ProcessorFails(c) \/ AckRead(c) \/ AckWrite(c)
  \/ NackRead(c) \/ NackWrite(c)

Next ==
  \/ \E j \in Jobs : Push(j)
  \/ \E c \in Consumers : Consume(c) \/ BeatRead(c) \/ BeatWrite(c) \/ Crash(c) \/ CallFails(c)
  \/ \E m \in Maintainers : RetryFind(m) \/ RetryWrite(m) \/ CleanFind(m) \/ CleanDelete(m)
  \/ Tick

Spec == Init /\ [][Next]_vars

(* The clock goes on, a consumer polls forever, calls return, and a        *)
(* processor ends, which it can do between any two heartbeats.             *)
FairSpec ==
  /\ Spec /\ WF_vars(Tick)
  /\ \A c \in Consumers : /\ WF_vars(Consume(c)) /\ WF_vars(BeatWrite(c))
                          /\ SF_vars(ProcessorFails(c) \/ AckRead(c))

-----------------------------------------------------------------------------
(* The types of the variables.                                             *)
TypeOK ==
  /\ row \in [Jobs -> Row]
  /\ consumer \in [Consumers -> Doing]
  /\ beat \in [Consumers -> Beat]
  /\ maint \in [Maintainers -> Upkeep]
  /\ seen \in [Threads -> Row \cup {NoRow}]
  /\ pushed \subseteq Jobs /\ acked \subseteq pushed
  /\ runs \in [Jobs -> 0 .. MaxRuns] /\ faults \in 0 .. MaxFaults

(* A job is processed by one consumer at a time: of two consumers that     *)
(* have it, one has seen the lease it was given run out.                   *)
Exclusive ==
  \A c, d \in Consumers :
    c # d /\ Holding(c) /\ Holding(d) /\ consumer[c].job = consumer[d].job
      => consumer[c].until = 0 \/ consumer[d].until = 0

(* A job whose ack() has returned true is settled for good: no late nack,  *)
(* heartbeat, claim or retry brings it back.                               *)
AckedIsFinal == \A j \in acked : row[j].state \in {"completed", "none"}

(* attempts counts the times the job was handed out, whatever the calls    *)
(* that failed or came late in between, so that maxAttempts means what it  *)
(* says.                                                                   *)
AttemptsCounted == \A j \in Jobs : Exists(j) => row[j].attempts = runs[j]

(* A job is dead-lettered only after maxAttempts attempts.                 *)
BuriedAfterMax == \A j \in Jobs : row[j].state = "failed" => runs[j] >= MaxAttempts

(* No job is dropped before it was acknowledged or dead-lettered: what is  *)
(* deleted was settled.                                                    *)
NeverDropped ==
  [][\A j \in Jobs : row[j].state \in {"waiting", "delayed"} => row'[j].state # "none"]_vars

(* A job is handed out at most maxAttempts times.                          *)
AttemptsBounded == \A j \in Jobs : row[j].attempts <= MaxAttempts

(* A job is not handed out before its runAt, be it the delay it was pushed *)
(* with or the backoff after a failure.                                    *)
DelayRespected ==
  [][\A j \in Jobs : row[j].state = "delayed" /\ row'[j].state = "active" => row[j].runAt = 0]_vars

(* Of the jobs that are ready, the one with the largest number goes first. *)
LargestFirst ==
  [][\A c \in Consumers :
       consumer[c].pc = "claim" /\ consumer'[c].pc = "work" =>
         \A j \in consumer[c].found : Priority[j] <= Priority[consumer'[c].job]]_vars

(* Every job that is pushed is completed or dead-lettered, however its     *)
(* consumers fail.                                                         *)
JobsSettle ==
  \A j \in Jobs : (row[j].state # "none") ~> (row[j].state \in {"completed", "failed", "none"})

=============================================================================
