---------------------------- MODULE WriteBatcher ----------------------------
(***************************************************************************)
(* The in-memory micro-batch buffer of a table (src/core/batcher.ts).      *)
(*                                                                         *)
(* Calls of enqueue() and enqueueDelete() are collected in a buffer; a     *)
(* timer, a full buffer, a caller held back by backpressure or an explicit *)
(* flush() hands a snapshot of the buffer to the flush handler, and the    *)
(* end of the handler settles the promise of every call of the snapshot.   *)
(* JavaScript runs one callback at a time, so an action is the code        *)
(* between two awaits; everything that awaits the same flush resumes in an *)
(* action of its own, in any order.                                        *)
(*                                                                         *)
(* Calls are numbered in the order in which they arrive.  A value is the   *)
(* number of the call that wrote it.  A key is its rank in the order of    *)
(* compareKeysDeterministic.  The storage behind the handler is one map;   *)
(* TTLs and secondary keys are left out.                                   *)
(***************************************************************************)
EXTENDS Naturals, Sequences, FiniteSets, FiniteSetsExt, Functions

CONSTANTS
  Keys,            (* ranks of the keys written to                         *)
  Calls,           (* numbers of the enqueue() / enqueueDelete() calls     *)
  Flushers,        (* identities of the explicit flush() calls             *)
  MaxBatchSize,    (* buffer length that triggers a flush                  *)
  MaxBufferSize,   (* buffer length that holds a new call back             *)
  Coalesce,        (* TRUE: pendingMap, FALSE: pendingList                 *)
  HandlerMayFail,  (* the flush handler may reject                         *)
  ClearWhen,       (* when the owner of the buffer calls clear() (nothing  *)
                   (* in the library does): "never", "idle", "any"         *)
  None,            (* no value                                             *)
  Seed,            (* a value stored before the first call                 *)
  Background       (* triggerFlush(): a flush nobody awaits                *)

(* Math.max(1, maxBatchSize), Math.max(maxBatchSize, maxBufferSize).       *)
ASSUME BatcherAssumption ==
  /\ Keys \subseteq Nat /\ Calls \subseteq Nat
  /\ MaxBatchSize \in Nat \ {0}
  /\ MaxBufferSize \in Nat /\ MaxBufferSize >= MaxBatchSize
  /\ {Coalesce, HandlerMayFail} \subseteq BOOLEAN
  /\ ClearWhen \in {"never", "idle", "any"}
  /\ None # Seed /\ {None, Seed} \cap Calls = {}
  /\ Calls \cap Flushers = {} /\ Background \notin Calls \cup Flushers

VARIABLES
  store,         (* [Keys -> value], what the handler has persisted        *)
  pending,       (* the buffer: a sequence of entries in insertion order   *)
  inFlight,      (* the snapshot the handler is writing                    *)
  batchSeq,      (* currentSeq when that snapshot was taken                *)
  active,        (* activeFlushPromise: "none", "running", or "stale", a   *)
                 (* settled promise that nothing clears                    *)
  currentSeq,    (* number of writes buffered so far                       *)
  completedSeq,  (* sequence number the last finished batch covered        *)
  timer,         (* the debounce timer is armed                            *)
  waiting,       (* flush() activations awaiting the active flush          *)
  woken,         (* activations whose awaited flush has settled            *)
  call,          (* state of every enqueue() / enqueueDelete() call        *)
  flusher        (* state of every explicit flush() call                   *)

bufferVars == <<pending, inFlight, batchSeq, active, timer>>
vars == <<store, bufferVars, currentSeq, completedSeq, waiting, woken, call, flusher>>

-----------------------------------------------------------------------------
Value   == Calls \cup {None, Seed}
Ops     == {"set", "delete"}
Entry   == [key: Keys, type: Ops, item: Value, had: BOOLEAN,
            callers: SUBSET Calls, direct: SUBSET Calls]
Waiter  == [who: Calls \cup Flushers \cup {Background}, target: Nat]
Woken   == [who: Calls \cup Flushers \cup {Background}, target: Nat, ok: BOOLEAN]
Call    == [st: {"idle", "blocked", "queued", "resolved", "rejected"},
            key: Keys \cup {0}, op: Ops, seq: Nat, dflt: BOOLEAN, res: BOOLEAN]
Flusher == [st: {"idle", "flushing", "returned", "threw"}, since: Nat]

IdleCall == [st |-> "idle", key |-> 0, op |-> "set", seq |-> 0, dflt |-> FALSE, res |-> FALSE]

Callers(buf) == UNION {buf[i].callers : i \in DOMAIN buf}

Init ==
  /\ store \in [Keys -> {None, Seed}]
  /\ pending = <<>> /\ inFlight = <<>>
  /\ batchSeq = 0 /\ currentSeq = 0 /\ completedSeq = 0
  /\ active = "none" /\ timer = FALSE
  /\ waiting = {} /\ woken = {}
  /\ call = [c \in Calls |-> IdleCall]
  /\ flusher = [f \in Flushers |-> [st |-> "idle", since |-> 0]]

-----------------------------------------------------------------------------
(* Buffering a call.  With coalescing there is at most one entry of a key. *)

Slots(k) == {i \in DOMAIN pending : Coalesce /\ pending[i].key = k}

NewEntry(c, k, op) ==
  [key |-> k, type |-> op, item |-> IF op = "set" THEN c ELSE None, had |-> FALSE,
   callers |-> {c}, direct |-> IF op = "delete" THEN {c} ELSE {}]

(* Mutants: a cancelled set loses its resolver; a second set is only       *)
(* remembered by its resolver.                                             *)
MergedEntryDropsCallers(e, c, op) ==
  IF op = "set" THEN [e EXCEPT !.type = "set", !.item = c, !.callers = @ \cup {c}]
  ELSE [e EXCEPT !.type = "delete", !.item = None, !.had = e.type = "set",
                 !.callers = {c}, !.direct = {c}]

MergedEntryKeepsItem(e, c, op) ==
  IF op = "set" THEN [e EXCEPT !.type = "set", !.item = IF @ = None THEN c ELSE @,
                               !.callers = @ \cup {c}]
  ELSE [e EXCEPT !.type = "delete", !.item = None, !.had = e.type = "set",
                 !.callers = @ \cup {c}, !.direct = {c}]

(* A set overwrites the buffered operation.  A delete cancels a buffered   *)
(* set and wraps the resolvers collected so far; onto a buffered delete it *)
(* only adds its own.  "direct" are the deletes that will be told what the *)
(* batch deleted.                                                          *)
MergedEntry(e, c, op) ==
  IF op = "set" THEN [e EXCEPT !.type = "set", !.item = c, !.callers = @ \cup {c}]
  ELSE IF e.type = "set"
  THEN [e EXCEPT !.type = "delete", !.item = None, !.had = TRUE,
                 !.callers = @ \cup {c}, !.direct = {c}]
  ELSE [e EXCEPT !.callers = @ \cup {c}, !.direct = @ \cup {c}]

Buffered(c, k, op) ==
  IF Slots(k) = {} THEN Append(pending, NewEntry(c, k, op))
  ELSE [i \in DOMAIN pending |->
          IF i \in Slots(k) THEN MergedEntry(pending[i], c, op) ELSE pending[i]]

-----------------------------------------------------------------------------
(* flush() and executeFlush().                                             *)

(* The snapshot handed to the handler: sorted by key when coalescing.      *)
Snapshots(buf) ==
  IF ~Coalesce THEN {buf}
  ELSE {[i \in DOMAIN buf |-> buf[p[i]]] :
          p \in {q \in Bijection(DOMAIN buf, DOMAIN buf) :
                   \A i, j \in DOMAIN buf : i < j => buf[q[i]].key < buf[q[j]].key}}

StartBatch(buf, seq) ==
  /\ inFlight' \in Snapshots(buf)
  /\ pending' = <<>> /\ batchSeq' = seq /\ active' = "running"

(* One turn of the loop of flush(), up to its await, by activation w; buf, *)
(* seq and wk are the buffer, currentSeq and woken activations as the code *)
(* before it left them.  With nothing buffered executeFlush() returns at   *)
(* once and its settled promise stays in activeFlushPromise.               *)
AwaitFlush(w, buf, seq, wk) ==
  \/ /\ active = "running"
     /\ waiting' = waiting \cup {w} /\ woken' = wk /\ pending' = buf
     /\ UNCHANGED <<inFlight, batchSeq, active>>
  \/ /\ active = "none" /\ buf # <<>>
     /\ StartBatch(buf, seq)
     /\ waiting' = waiting \cup {w} /\ woken' = wk
  \/ /\ active = "stale" \/ (active = "none" /\ buf = <<>>)
     /\ active' = "stale" /\ pending' = buf
     /\ woken' = wk \cup {[who |-> w.who, target |-> w.target, ok |-> TRUE]}
     /\ UNCHANGED <<inFlight, batchSeq, waiting>>

(* A call of flush().  It awaits the batch that covers currentSeq; with    *)
(* everything completed it awaits an active flush once (target 0).         *)
Flush(who, buf, seq, wk) ==
  /\ timer' = FALSE
  /\ \/ /\ completedSeq < seq
        /\ AwaitFlush([who |-> who, target |-> seq], buf, seq, wk)
     \/ /\ completedSeq >= seq /\ active # "none"
        /\ AwaitFlush([who |-> who, target |-> 0], buf, seq, wk)
     \/ /\ completedSeq >= seq /\ active = "none"
        /\ pending' = buf /\ woken' = wk
        /\ UNCHANGED <<inFlight, batchSeq, active, waiting>>

(* The part of enqueue() and enqueueDelete() after the capacity check,     *)
(* with checkFlushConditions().                                            *)
Enqueue(c, k, op, wk) ==
  LET buf == Buffered(c, k, op)
      seq == currentSeq + 1
      onSet == \E i \in Slots(k) : pending[i].type = "set"
  IN /\ currentSeq' = seq
     /\ call' = [call EXCEPT ![c] = [st |-> "queued", key |-> k, op |-> op, seq |-> seq,
                                     dflt |-> op = "delete" /\ onSet, res |-> FALSE]]
     /\ \/ /\ Len(buf) >= MaxBatchSize
           /\ Flush(Background, buf, seq, wk)
        \/ /\ Len(buf) < MaxBatchSize
           /\ timer' = TRUE /\ pending' = buf /\ woken' = wk
           /\ UNCHANGED <<inFlight, batchSeq, active, waiting>>
     /\ UNCHANGED <<store, completedSeq, flusher>>

(* A call arrives: it is buffered, or held back while the buffer is full.  *)
Invoke(c, k, op) ==
  /\ call[c].st = "idle" /\ \A d \in Calls : d < c => call[d].st # "idle"
  /\ \/ /\ Len(pending) < MaxBufferSize
        /\ Enqueue(c, k, op, woken)
     \/ /\ Len(pending) >= MaxBufferSize
        /\ call' = [call EXCEPT ![c] = [@ EXCEPT !.st = "blocked", !.key = k, !.op = op]]
        /\ Flush(c, pending, currentSeq, woken)
        /\ UNCHANGED <<store, currentSeq, completedSeq, flusher>>

(* Somebody calls flush().                                                 *)
CallFlush(f) ==
  /\ flusher[f].st = "idle"
  /\ flusher' = [flusher EXCEPT ![f] =
       [st |-> IF completedSeq >= currentSeq /\ active = "none" THEN "returned" ELSE "flushing",
        since |-> currentSeq]]
  /\ Flush(f, pending, currentSeq, woken)
  /\ UNCHANGED <<store, currentSeq, completedSeq, call>>

(* The debounce timer fires: triggerFlush().                               *)
TimerFires ==
  /\ timer
  /\ Flush(Background, pending, currentSeq, woken)
  /\ UNCHANGED <<store, currentSeq, completedSeq, call, flusher>>

(* The activation w leaves flush(), returning or throwing: a call that was *)
(* held back is buffered or rejected.                                      *)
LeaveFlush(w) ==
  \/ /\ w.who \in Calls /\ w.ok
     /\ Enqueue(w.who, call[w.who].key, call[w.who].op, woken \ {w})
  \/ /\ w.who \in Calls /\ ~w.ok
     /\ call' = [call EXCEPT ![w.who] = [@ EXCEPT !.st = "rejected"]]
     /\ woken' = woken \ {w}
     /\ UNCHANGED <<store, bufferVars, currentSeq, completedSeq, waiting, flusher>>
  \/ /\ w.who \in Flushers
     /\ flusher' = [flusher EXCEPT ![w.who] =
                      [@ EXCEPT !.st = IF w.ok THEN "returned" ELSE "threw"]]
     /\ woken' = woken \ {w}
     /\ UNCHANGED <<store, bufferVars, currentSeq, completedSeq, waiting, call>>
  \/ /\ w.who = Background
     /\ woken' = woken \ {w}
     /\ UNCHANGED <<store, bufferVars, currentSeq, completedSeq, waiting, call, flusher>>

(* An activation of flush() resumes after its await.                       *)
Resume(w) ==
  /\ w \in woken
  /\ \/ /\ w.ok => completedSeq >= w.target
        /\ LeaveFlush(w)
     \/ /\ w.ok /\ completedSeq < w.target
        /\ AwaitFlush([who |-> w.who, target |-> w.target], pending, currentSeq, woken \ {w})
        /\ UNCHANGED <<store, timer, currentSeq, completedSeq, call, flusher>>

-----------------------------------------------------------------------------
(* The flush handler, and what follows its end in executeFlush().          *)

(* The value of key k once the operations at positions A of the snapshot   *)
(* have been applied in order.                                             *)
ValueAfter(A, k) ==
  LET onK == {i \in A : inFlight[i].key = k}
  IN IF onK = {} THEN store[k] ELSE inFlight[Max(onK)].item

(* deletedKeys: the keys of which some delete of the batch found a value.  *)
DeletedKeys ==
  {k \in Keys : \E i \in DOMAIN inFlight :
     /\ inFlight[i].key = k /\ inFlight[i].type = "delete"
     /\ ValueAfter({j \in DOMAIN inFlight : j < i}, k) # None}

(* What the promise of call c of entry e resolves to.                      *)
ResultOf(c, e) ==
  IF e.type = "delete" /\ c \in e.direct THEN e.had \/ e.key \in DeletedKeys
  ELSE call[c].dflt

(* The finally block: what has accumulated meanwhile is flushed at once if *)
(* it fills a batch, else the timer is armed.                              *)
FollowUp ==
  \/ /\ Len(pending) >= MaxBatchSize
     /\ StartBatch(pending, currentSeq)
     /\ timer' = FALSE
     /\ waiting' = {[who |-> Background, target |-> currentSeq]}
  \/ /\ Len(pending) < MaxBatchSize
     /\ inFlight' = <<>> /\ active' = "none" /\ waiting' = {}
     /\ timer' = (timer \/ pending # <<>>)
     /\ UNCHANGED <<pending, batchSeq>>

(* Mutant: who awaits a batch that fails is never told.                    *)
WokenBySuccess(ok) ==
  {[who |-> w.who, target |-> w.target, ok |-> ok] :
     w \in {v \in waiting : ok /\ ~(v.who = Background /\ v.target <= batchSeq)}}

(* The activations that awaited the batch wake up; those of triggerFlush() *)
(* that are over have nothing left to do.                                  *)
WokenBy(ok) ==
  {[who |-> w.who, target |-> w.target, ok |-> ok] :
     w \in {v \in waiting : ~(v.who = Background /\ (ok => v.target <= batchSeq))}}

(* Mutant: the batch is taken to cover writes buffered while it ran.       *)
FinishCoversLater(ok) ==
  /\ completedSeq' = currentSeq
  /\ woken' = woken \cup WokenBy(ok)
  /\ FollowUp
  /\ UNCHANGED <<currentSeq, flusher>>

Finish(ok) ==
  /\ completedSeq' = batchSeq
  /\ woken' = woken \cup WokenBy(ok)
  /\ FollowUp
  /\ UNCHANGED <<currentSeq, flusher>>

HandlerResolves ==
  /\ active = "running"
  /\ store' = [k \in Keys |-> ValueAfter(DOMAIN inFlight, k)]
  /\ call' = [c \in Calls |->
       IF c \in Callers(inFlight)
       THEN LET e == inFlight[CHOOSE i \in DOMAIN inFlight : c \in inFlight[i].callers]
            IN [call[c] EXCEPT !.st = "resolved", !.res = ResultOf(c, e)]
       ELSE call[c]]
  /\ Finish(TRUE)

(* The handler rejects, having applied a part of the batch: any part when  *)
(* coalescing (an unordered bulk write, or the sets without the deletes),  *)
(* a prefix when the operations run one by one.                            *)
HandlerRejects ==
  /\ HandlerMayFail /\ active = "running"
  /\ \E A \in SUBSET DOMAIN inFlight :
       /\ ~Coalesce => \A i \in A : 1..i \subseteq A
       /\ store' = [k \in Keys |-> ValueAfter(A, k)]
  /\ call' = [c \in Calls |-> IF c \in Callers(inFlight)
                              THEN [call[c] EXCEPT !.st = "rejected"] ELSE call[c]]
  /\ Finish(FALSE)

MayClear == ClearWhen = "any" \/ (ClearWhen = "idle" /\ active = "none")

(* clear(): a public method of the exported class.                         *)
Clear ==
  /\ MayClear
  /\ timer' = FALSE /\ pending' = <<>> /\ completedSeq' = currentSeq
  /\ call' = [c \in Calls |-> IF c \in Callers(pending)
                              THEN [call[c] EXCEPT !.st = "rejected"] ELSE call[c]]
  /\ UNCHANGED <<store, inFlight, batchSeq, active, currentSeq, waiting, woken, flusher>>

-----------------------------------------------------------------------------
Next ==
  \/ \E c \in Calls, k \in Keys, op \in Ops : Invoke(c, k, op)
  \/ \E f \in Flushers : CallFlush(f)
  \/ TimerFires
  \/ \E w \in woken : Resume(w)
  \/ HandlerResolves
  \/ HandlerRejects
  \/ Clear

Spec == Init /\ [][Next]_vars

(* Timers fire, awaited promises resume their continuation, and the        *)
(* storage answers; nobody is obliged to call.                             *)
Fairness ==
  /\ WF_vars(TimerFires)
  /\ WF_vars(\E w \in woken : Resume(w))
  /\ WF_vars(HandlerResolves \/ HandlerRejects)

FairSpec == Spec /\ Fairness

-----------------------------------------------------------------------------
(* The variables hold values of their types.                               *)
TypeOK ==
  /\ store \in [Keys -> Value]
  /\ pending \in Seq(Entry) /\ inFlight \in Seq(Entry)
  /\ batchSeq \in Nat /\ currentSeq \in Nat /\ completedSeq \in Nat
  /\ active \in {"none", "running", "stale"} /\ timer \in BOOLEAN
  /\ waiting \subseteq Waiter /\ woken \subseteq Woken
  /\ call \in [Calls -> Call] /\ flusher \in [Flushers -> Flusher]

Exclusive(buf) ==
  \A i, j \in DOMAIN buf : i # j => buf[i].callers \cap buf[j].callers = {}

Settled(c) == call[c].st \in {"resolved", "rejected"}

(* No promise is lost and none is settled twice: a call is unsettled after *)
(* it was buffered exactly as long as one entry, of the buffer or of the   *)
(* snapshot in flight, holds its resolver; merging, cancelling, snapshots  *)
(* and clear() move resolvers but never drop or copy one.                  *)
PromiseAccounting ==
  /\ \A c \in Calls : call[c].st = "queued" <=> c \in Callers(pending) \cup Callers(inFlight)
  /\ Callers(pending) \cap Callers(inFlight) = {}
  /\ Exclusive(pending) /\ Exclusive(inFlight)

(* Buffered writes never wait for an event that nobody has scheduled: the  *)
(* timer is armed or a batch is running whose end will look at the buffer. *)
FlushScheduled == pending # <<>> => timer \/ active = "running"

(* completedSeq, which decides when flush() may return, is behind every    *)
(* write that has not been settled.                                        *)
SeqBehindUnsettled == \A c \in Calls : call[c].st = "queued" => completedSeq < call[c].seq

(* The barrier of flush(): when an explicit flush() returns, every write   *)
(* buffered before it was called has been settled.                         *)
FlushBarrier ==
  [][\A f \in Flushers : flusher[f].st # "returned" /\ flusher'[f].st = "returned" =>
       \A c \in Calls : call[c].st = "queued" => call[c].seq > flusher'[f].since]_vars

(* While coalescing a key occurs once in the buffer and once in a batch,   *)
(* so the handler may write all sets before all deletes, and a batch takes *)
(* its row locks in the order of the keys.                                 *)
OneOperationPerKey ==
  Coalesce => /\ \A i, j \in DOMAIN pending : pending[i].key = pending[j].key => i = j
              /\ \A i, j \in DOMAIN inFlight : i < j => inFlight[i].key < inFlight[j].key

(* Whatever was merged and however the batches were cut, the storage holds *)
(* of a key what its last settled write left there, unless that one was    *)
(* rejected.                                                               *)
LastWriteWins ==
  \A c \in Calls :
    (/\ call[c].st = "resolved"
     /\ \A d \in Calls : (Settled(d) /\ call[d].key = call[c].key) => call[d].seq <= call[c].seq)
    => store[call[c].key] = IF call[c].op = "set" THEN c ELSE None

(* Every call of enqueue() and enqueueDelete() is answered, and every      *)
(* flush() comes back, also under a steady stream of new writes.           *)
CallsAnswered ==
  /\ \A c \in Calls : (call[c].st # "idle") ~> Settled(c)
  /\ \A f \in Flushers : (flusher[f].st = "flushing") ~> (flusher[f].st \in {"returned", "threw"})

-----------------------------------------------------------------------------
(* What the documentation says and the code does not do.                   *)

(* batcher.ts:37, "Maximum in-memory queue capacity": the buffer is never  *)
(* longer than maxBufferSize.                                              *)
BufferBounded == Len(pending) <= MaxBufferSize

(* batcher.ts:25, "strictly sequential FIFO": a call is not buffered ahead *)
(* of one that arrived before it and is still held back.                   *)
FifoAdmission ==
  [][\A c, d \in Calls :
       call[c].st = "idle" /\ call'[c].st = "queued" => call[d].st # "blocked"]_vars

(* batcher.ts:368, "Guarantees all items enqueued prior to this call have  *)
(* completed disk/db persistence": no write buffered before a flush() that *)
(* returned was rejected.                                                  *)
FlushPersists ==
  \A f \in Flushers : flusher[f].st = "returned" =>
    \A c \in Calls : call[c].seq \in 1..flusher[f].since => call[c].st # "rejected"

(* SPEC.md:50, delete() tells whether an existing key was deleted: the     *)
(* result is TRUE exactly when the preceding write of the key was a set.   *)
DeleteReportsExistence ==
  \A c, d \in Calls :
    (/\ call[c].st = "resolved" /\ call[c].op = "delete"
     /\ call[d].st = "resolved" /\ call[d].key = call[c].key /\ call[d].seq < call[c].seq
     /\ \A e \in Calls : call[e].key = call[c].key =>
                            ~(call[d].seq < call[e].seq /\ call[e].seq < call[c].seq))
    => (call[c].res <=> call[d].op = "set")

=============================================================================
