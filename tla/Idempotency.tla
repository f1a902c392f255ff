----------------------------- MODULE Idempotency -----------------------------
(***************************************************************************)
(* IdempotencyManager (src/idempotency/idempotent.ts): concurrent calls of *)
(* idempotent() for one key, each with a function of its own, and the      *)
(* record under the key: NoRow, or pending, resolved or rejected by a      *)
(* call.  The claim is a Table.update whose mutator sets isClaimer, so it  *)
(* matters how often a driver runs it, and what becomes of its write (see  *)
(* DriverUpdate):                                                          *)
(*                                                                         *)
(*   sqlite    once, together with the write;                              *)
(*   postgres  the same, but on a missing row the write comes later, and   *)
(*             overwrites;                                                 *)
(*   mysql     the same, but on a missing row the write comes later, and   *)
(*             may end in a deadlock;                                      *)
(*   redis     before the write, and again when the row has changed;       *)
(*   mongodb   the same, but the write after a missing row overwrites.     *)
(*                                                                         *)
(* Time is counted in ticks; retryIntervalMs is one.  The table has no     *)
(* cache.  A result is the call whose function has returned it.            *)
(***************************************************************************)
EXTENDS Naturals, FiniteSets

CONSTANTS
  Callers,      (* the calls of idempotent(), in the order they are made   *)
  Providers,    (* the drivers to look at                                  *)
  Timeout,      (* timeoutMs                                               *)
  Ttls,         (* what ttlMs may be; 0: longer than all of this takes     *)
  RejectedTtl,  (* the ttl of a rejected record                            *)
  MaxFaults,    (* the bound on lost connections and crashes               *)
  NoRow         (* no record under the key, or no result                   *)

ASSUME IdempotencyAssumption ==
  /\ Callers \subseteq Nat
  /\ Providers \subseteq {"sqlite", "postgres", "mysql", "redis", "mongodb"}
  /\ Timeout \in Nat /\ Ttls \subseteq Nat /\ RejectedTtl \in Nat \ {0}
  /\ MaxFaults \in Nat
  /\ NoRow \notin Callers
  /\ NoRow \notin [by: Callers, status: {"pending", "resolved", "rejected"}, age: Nat, ttl: Nat]

VARIABLES
  provider,    (* the driver                                               *)
  ttlMs,       (* the ttl of a pending or resolved record                  *)
  record,      (* the row: its age, and what is left of it                 *)
  pc,          (* where every call is                                      *)
  claimer,     (* isClaimer                                                *)
  read,        (* what the mutator has got                                 *)
  claims,      (* it has made a claim of it                                *)
  waited,      (* the time since a call began                              *)
  ran,         (* the time since its function was called                   *)
  executed,    (* the calls whose function has returned a result           *)
  result,      (* what a call has returned                                 *)
  amiss,       (* a function has run for longer than Timeout, a record     *)
               (* that was not rejected has expired, or a claim has been   *)
               (* made and could not be written: not in the code           *)
  faults       (* the faults so far                                        *)

calls == <<pc, claimer, read, claims, waited, ran, executed, result>>
vars  == <<provider, ttlMs, record, calls, amiss, faults>>

Age    == 0 .. Timeout + 1
Record == [by: Callers, status: {"pending", "resolved", "rejected"}, age: Age, ttl: Nat]

-----------------------------------------------------------------------------
Init ==
  /\ provider \in Providers /\ ttlMs \in Ttls /\ record = NoRow /\ amiss = FALSE /\ faults = 0
  /\ pc = [c \in Callers |-> "idle"]
  /\ claimer = [c \in Callers |-> FALSE]
  /\ read = [c \in Callers |-> NoRow]
  /\ claims = [c \in Callers |-> FALSE]
  /\ waited = [c \in Callers |-> 0]
  /\ ran = [c \in Callers |-> 0]
  /\ executed = {}
  /\ result = [c \in Callers |-> NoRow]

Is(r, status) == r # NoRow /\ r.status = status

Fault == faults < MaxFaults /\ faults' = faults + 1

(* isClaimer and existingRecord live as long as one round of the loop.     *)
Leaves(c, where) ==
  /\ pc' = [pc EXCEPT ![c] = where]
  /\ claimer' = [claimer EXCEPT ![c] = FALSE]
  /\ read' = [read EXCEPT ![c] = NoRow]
  /\ claims' = [claims EXCEPT ![c] = FALSE]
  /\ UNCHANGED <<waited, ran>>

Goto(c, where) == Leaves(c, where) /\ UNCHANGED <<executed, result>>

Return(c, r) ==
  /\ Leaves(c, "returned")
  /\ result' = [result EXCEPT ![c] = r]
  /\ UNCHANGED executed

(* The update has ended, well or not.                                      *)
Ends(c) ==
  /\ pc' = [pc EXCEPT ![c] = "claimed"]
  /\ UNCHANGED <<claimer, read, claims, waited, ran, executed, result>>

Writes(c, status, ttl) ==
  record' = [by |-> c, status |-> status, age |-> 0, ttl |-> ttl]

Call(c) ==
  /\ pc[c] = "idle" /\ (\A d \in Callers : d < c => pc[d] # "idle")
  /\ Goto(c, "reading")
  /\ UNCHANGED <<provider, ttlMs, record, amiss, faults>>

(* The fast read path.                                                     *)
Read(c) ==
  /\ pc[c] = "reading"
  /\ IF Is(record, "resolved") THEN Return(c, record.by) ELSE Goto(c, "claiming")
  /\ UNCHANGED <<provider, ttlMs, record, amiss, faults>>

-----------------------------------------------------------------------------
(* The claim.                                                              *)

(* Mutant: the age of a pending record is compared with >=.                *)
ClaimableEarly(r) ==
  \/ r = NoRow \/ Is(r, "rejected")
  \/ Is(r, "pending") /\ r.age >= Timeout

(* Mutant: what is not pending is claimed.                                 *)
ClaimableUnlessPending(r) == ~Is(r, "pending") \/ r.age > Timeout

Claimable(r) ==
  \/ r = NoRow \/ Is(r, "rejected")
  \/ Is(r, "pending") /\ r.age > Timeout

(* The mutator, on what the row holds now.                                 *)
Mutates(c, where) ==
  /\ pc' = [pc EXCEPT ![c] = where]
  /\ claimer' = [claimer EXCEPT ![c] = @ \/ Claimable(record)]
  /\ read' = [read EXCEPT ![c] = record]
  /\ claims' = [claims EXCEPT ![c] = Claimable(record)]
  /\ UNCHANGED <<waited, ran, executed, result>>

(* Its write: a claim, or the record as it was with its ttl renewed.       *)
Stores(c, r, claim) ==
  IF claim THEN Writes(c, "pending", ttlMs) ELSE record' = [r EXCEPT !.ttl = ttlMs]

(* The mutator runs before the write and apart from it.                    *)
Split ==
  \/ provider \in {"redis", "mongodb"}
  \/ provider \in {"postgres", "mysql"} /\ record = NoRow

Claim(c) ==
  /\ pc[c] = "claiming" /\ ~Split
  /\ Mutates(c, "claimed") /\ Stores(c, record, Claimable(record))
  /\ UNCHANGED <<provider, ttlMs, amiss, faults>>

(* An error of the update is swallowed, and what its mutator has said      *)
(* stands.  If the row was written all the same, that is as above.         *)
ClaimFails(c) ==
  /\ pc[c] = "claiming" /\ Fault
  /\ \/ Ends(c) /\ UNCHANGED amiss
     \/ ~Split /\ Mutates(c, "claimed") /\ amiss' = (amiss \/ Claimable(record))
  /\ UNCHANGED <<provider, ttlMs, record>>

Mutate(c) ==
  /\ pc[c] = "claiming" /\ Split
  /\ Mutates(c, "mutated")
  /\ UNCHANGED <<provider, ttlMs, record, amiss, faults>>

(* The row holds what the mutator has read.                                *)
Unchanged(c) ==
  \/ record = NoRow /\ read[c] = NoRow
  \/ /\ record # NoRow /\ read[c] # NoRow
     /\ record.by = read[c].by /\ record.status = read[c].status

(* Mysql: others have locked the gap that c will fill.                     *)
Contended(c) ==
  provider = "mysql" /\ \E d \in Callers \ {c} : pc[d] = "mutated"

Store(c) ==
  /\ pc[c] = "mutated"
  /\ \/ Unchanged(c) /\ ~Contended(c)
     \/ read[c] = NoRow /\ provider \in {"postgres", "mongodb"}
  /\ Stores(c, record, claims[c])
  /\ Ends(c)
  /\ UNCHANGED <<provider, ttlMs, amiss, faults>>

MutateAgain(c) ==
  /\ pc[c] = "mutated" /\ ~Unchanged(c)
  /\ provider = "redis" \/ (provider = "mongodb" /\ read[c] # NoRow)
  /\ Mutates(c, "mutated")
  /\ UNCHANGED <<provider, ttlMs, record, amiss, faults>>

Deadlock(c) ==
  /\ pc[c] = "mutated" /\ Contended(c)
  /\ Ends(c)
  /\ UNCHANGED <<provider, ttlMs, record, amiss, faults>>

StoreFails(c) ==
  /\ pc[c] = "mutated" /\ Fault
  /\ Ends(c)
  /\ UNCHANGED <<provider, ttlMs, record, amiss>>

Claimed(c) ==
  /\ pc[c] = "claimed"
  /\ IF claimer[c] THEN Goto(c, "running")
     ELSE IF Is(read[c], "resolved") THEN Return(c, read[c].by)
     ELSE Goto(c, "polling")
  /\ UNCHANGED <<provider, ttlMs, record, amiss, faults>>

-----------------------------------------------------------------------------
(* The claimer's function, and the record of what it has done.             *)

FnResolves(c) ==
  /\ pc[c] = "running" /\ Leaves(c, "recording")
  /\ executed' = executed \cup {c}
  /\ UNCHANGED <<provider, ttlMs, record, result, amiss, faults>>

FnRejects(c) ==
  /\ pc[c] = "running" /\ Goto(c, "rejecting")
  /\ UNCHANGED <<provider, ttlMs, record, amiss, faults>>

(* There must be a record to update.                                       *)
Resolve(c) ==
  /\ pc[c] = "recording"
  /\ IF record = NoRow THEN Goto(c, "rejecting") /\ UNCHANGED record
                       ELSE Return(c, c) /\ Writes(c, "resolved", ttlMs)
  /\ UNCHANGED <<provider, ttlMs, amiss, faults>>

(* The result could not be written, or the server's answer is lost: the    *)
(* call counts as rejected.                                                *)
ResolveFails(c) ==
  /\ pc[c] = "recording" /\ Fault
  /\ Goto(c, "rejecting")
  /\ \/ UNCHANGED record
     \/ provider # "sqlite" /\ record # NoRow /\ Writes(c, "resolved", ttlMs)
  /\ UNCHANGED <<provider, ttlMs, amiss>>

Reject(c) ==
  /\ pc[c] = "rejecting"
  /\ IF record = NoRow THEN UNCHANGED record ELSE Writes(c, "rejected", RejectedTtl)
  /\ Goto(c, "threw")
  /\ UNCHANGED <<provider, ttlMs, amiss, faults>>

RejectFails(c) ==
  /\ pc[c] = "rejecting" /\ Fault
  /\ Goto(c, "threw")
  /\ UNCHANGED <<provider, ttlMs, record, amiss>>

Crash(c) ==
  /\ pc[c] \in {"running", "recording"} /\ Fault
  /\ Goto(c, "crashed")
  /\ UNCHANGED <<provider, ttlMs, record, amiss>>

-----------------------------------------------------------------------------
(* Everybody else waits.                                                   *)

(* Mutant: who finds the record still pending polls on.                    *)
PollsOn(c) ==
  /\ pc[c] = "polling"
  /\ \/ Is(record, "resolved") /\ Return(c, record.by)
     \/ /\ record = NoRow \/ Is(record, "rejected")
        /\ Goto(c, IF waited[c] < Timeout THEN "reading" ELSE "threw")
  /\ UNCHANGED <<provider, ttlMs, record, amiss, faults>>

(* When its time is over a caller may have looked once more, or not.       *)
Poll(c) ==
  /\ pc[c] = "polling"
  /\ \/ Is(record, "resolved") /\ Return(c, record.by)
     \/ waited[c] >= Timeout /\ Goto(c, "threw")
     \/ /\ record = NoRow \/ Is(record, "rejected")
        /\ waited[c] < Timeout /\ Goto(c, "reading")
  /\ UNCHANGED <<provider, ttlMs, record, amiss, faults>>

(* An error of a read is the caller's.                                     *)
ReadFails(c) ==
  /\ pc[c] \in {"reading", "polling"} /\ Fault
  /\ Goto(c, "threw")
  /\ UNCHANGED <<provider, ttlMs, record, amiss>>

Waiting == {"reading", "claiming", "mutated", "claimed", "polling"}
Working == {"claimed", "running", "recording", "rejecting"}

Older(n) == IF n <= Timeout THEN n + 1 ELSE n

Tick ==
  /\ record' = IF record = NoRow \/ record.ttl = 1 THEN NoRow
               ELSE [by |-> record.by, status |-> record.status, age |-> Older(record.age),
                     ttl |-> IF record.ttl = 0 THEN 0 ELSE record.ttl - 1]
  /\ waited' = [c \in Callers |-> IF pc[c] \in Waiting THEN Older(waited[c]) ELSE 0]
  /\ ran' = [c \in Callers |-> IF pc[c] \in Working THEN Older(ran[c]) ELSE 0]
  /\ amiss' = \/ amiss \/ \E c \in Callers : ran'[c] > Timeout
              \/ record' = NoRow /\ (Is(record, "pending") \/ Is(record, "resolved"))
  /\ UNCHANGED <<provider, ttlMs, pc, claimer, read, claims, executed, result, faults>>

Next ==
  \/ \E c \in Callers :
       \/ Call(c) \/ Read(c) \/ Claim(c) \/ Mutate(c) \/ Store(c) \/ MutateAgain(c)
       \/ ClaimFails(c) \/ Deadlock(c) \/ StoreFails(c) \/ Claimed(c)
       \/ FnResolves(c) \/ FnRejects(c) \/ Resolve(c) \/ ResolveFails(c)
       \/ Reject(c) \/ RejectFails(c) \/ Crash(c) \/ Poll(c) \/ ReadFails(c)
  \/ Tick

Spec == Init /\ [][Next]_vars

(* The store answers and time passes.  A function need not return.         *)
FairSpec ==
  /\ Spec /\ WF_vars(Tick)
  /\ \A c \in Callers :
       WF_vars(\/ Read(c) \/ Claim(c) \/ Mutate(c) \/ Store(c) \/ MutateAgain(c)
               \/ Deadlock(c) \/ Claimed(c) \/ Resolve(c) \/ Reject(c) \/ Poll(c))

-----------------------------------------------------------------------------
(* The types of the variables.                                             *)
TypeOK ==
  /\ provider \in Providers /\ ttlMs \in Ttls /\ amiss \in BOOLEAN /\ faults \in 0 .. MaxFaults
  /\ record \in Record \cup {NoRow}
  /\ pc \in [Callers -> {"idle", "reading", "claiming", "mutated", "claimed", "running",
                         "recording", "rejecting", "polling", "returned", "threw", "crashed"}]
  /\ claimer \in [Callers -> BOOLEAN] /\ claims \in [Callers -> BOOLEAN]
  /\ read \in [Callers -> Record \cup {NoRow}]
  /\ waited \in [Callers -> Age] /\ ran \in [Callers -> Age]
  /\ executed \subseteq Callers
  /\ result \in [Callers -> Callers \cup {NoRow}]

(* On sqlite, no two functions run at the same time, unless one of them    *)
(* has taken longer than timeoutMs, a record has expired or a claim could  *)
(* not be written, whatever crashes, rejects or cannot be recorded         *)
(* (idempotent.ts:21, "concurrent invocations with the same key wait for   *)
(* the in-flight execution").                                              *)
OneAtATime ==
  provider = "sqlite" /\ ~amiss =>
    \A c, d \in Callers : pc[c] = "running" /\ pc[d] = "running" => c = d

(* Once only (SPEC.md section 20): as long as nothing is amiss and nothing *)
(* fails, one function at most has returned a result, and every call that  *)
(* has returned has returned that result.                                  *)
OnceOnly ==
  ~amiss /\ faults = 0 =>
    /\ Cardinality(executed) <= 1
    /\ \A c \in Callers : pc[c] = "returned" => result[c] \in executed

(* What OnceOnly says holds on sqlite.                                     *)
OnceOnlyOnSqlite == provider = "sqlite" => OnceOnly

(* On sqlite, a result that has been recorded is kept until it expires,    *)
(* and no call records anything else over it, unless one has taken longer  *)
(* than timeoutMs (idempotent.ts:22, "future invocations within ttlMs      *)
(* return the cached result").                                             *)
ResultStays ==
  [][provider = "sqlite" /\ ~amiss' /\ Is(record, "resolved") =>
       Is(record', "resolved") /\ record'.by = record.by]_vars

(* A call that waits for another's function does not wait for ever, even   *)
(* when that function never returns or its process is gone (idempotent.ts: *)
(* 105, 122): it returns, throws, or runs its own.                         *)
WaitersReturn ==
  \A c \in Callers :
    pc[c] = "reading" ~> pc[c] \in {"returned", "threw", "running", "rejecting", "crashed"}

=============================================================================
