-------------------------- MODULE WriteBatcherProofs --------------------------
(***************************************************************************)
(* Theorems about WriteBatcher, for every set of keys, calls and flushers, *)
(* every buffer size, and both buffering modes.                            *)
(***************************************************************************)
EXTENDS WriteBatcher, WellFoundedInduction, TLAPS

Everybody == Calls \cup Flushers \cup {Background}

(* At most one entry of a key, as long as entries are merged.              *)
OneSlot(buf) ==
  Coalesce => \A i, j \in DOMAIN buf : buf[i].key = buf[j].key => i = j

Accounted(buf, infl, cl) ==
  /\ \A c \in Calls : cl[c].st = "queued" <=> c \in Callers(buf) \cup Callers(infl)
  /\ Callers(buf) \cap Callers(infl) = {}
  /\ Exclusive(buf) /\ Exclusive(infl)

(* A coalesced batch takes its keys in ascending order.                    *)
Ordered(buf) ==
  Coalesce => \A i, j \in DOMAIN buf : i < j => buf[i].key < buf[j].key

(* A held-back call sits in exactly one activation of flush().             *)
HeldOnce(wt, wk, cl) ==
  /\ \A w \in wt \cup wk : w.who \in Calls => cl[w.who].st = "blocked" /\ cl[w.who].key \in Keys
  /\ \A v, w \in wt : v.who = w.who /\ v.who \in Calls => v = w
  /\ \A v, w \in wk : v.who = w.who /\ v.who \in Calls => v = w
  /\ \A v \in wt, w \in wk : v.who = w.who => v.who \notin Calls

(* Without a running batch nothing is in flight and nobody awaits it.      *)
Quiet == active # "running" => inFlight = <<>> /\ waiting = {}

Inv ==
  /\ TypeOK
  /\ Accounted(pending, inFlight, call)
  /\ OneSlot(pending) /\ Ordered(inFlight)
  /\ HeldOnce(waiting, woken, call)
  /\ Quiet

-----------------------------------------------------------------------------
(* The buffer operations keep the resolvers they are given.                *)

LEMMA BufferedEntry ==
  ASSUME TypeOK, NEW c \in Calls, NEW k \in Keys, NEW op \in Ops,
         NEW e \in Entry
  PROVE  /\ NewEntry(c, k, op) \in Entry
         /\ MergedEntry(e, c, op) \in Entry
         /\ MergedEntry(e, c, op).callers = e.callers \cup {c}
         /\ MergedEntry(e, c, op).key = e.key
  BY DEF NewEntry, MergedEntry, Entry, Ops, Value

LEMMA BufferedAppend ==
  ASSUME TypeOK, NEW c \in Calls, NEW k \in Keys, NEW op \in Ops,
         Slots(k) = {}, OneSlot(pending), Exclusive(pending), c \notin Callers(pending)
  PROVE  LET buf == Buffered(c, k, op)
         IN  /\ buf \in Seq(Entry) /\ buf # <<>>
             /\ Callers(buf) = Callers(pending) \cup {c}
             /\ Exclusive(buf) /\ OneSlot(buf)
<1> DEFINE e == NewEntry(c, k, op)
           buf == Append(pending, e)
           n == Len(pending)
<1>1. Buffered(c, k, op) = buf
  BY DEF Buffered
<1>2. e \in Entry /\ e.callers = {c} /\ e.key = k
  BY DEF NewEntry, Entry, Ops, Value
<1>3. pending \in Seq(Entry)
  BY DEF TypeOK
<1> HIDE DEF e
<1>4. /\ buf \in Seq(Entry) /\ Len(buf) = n + 1 /\ n \in Nat
      /\ DOMAIN pending = 1..n /\ DOMAIN buf = 1..(n + 1)
      /\ \A i \in 1..n : buf[i] = pending[i]
      /\ buf[n + 1] = e
  BY <1>2, <1>3
<1> HIDE DEF buf, n
<1>5. Callers(buf) = Callers(pending) \cup {c}
  <2>1. ASSUME NEW x \in Callers(buf) PROVE x \in Callers(pending) \cup {c}
    BY <1>2, <1>4, <2>1 DEF Callers
  <2>2. ASSUME NEW x \in Callers(pending) PROVE x \in Callers(buf)
    <3>1. PICK i \in 1..n : x \in pending[i].callers
      BY <1>4 DEF Callers
    <3>2. i \in DOMAIN buf /\ x \in buf[i].callers
      BY <1>4, <3>1
    <3>3. QED BY <3>2 DEF Callers
  <2>3. c \in Callers(buf)
    <3>1. n + 1 \in DOMAIN buf /\ c \in buf[n + 1].callers
      BY <1>2, <1>4
    <3>2. QED BY <3>1 DEF Callers
  <2>4. QED BY <2>1, <2>2, <2>3
<1>6. Exclusive(buf)
  <2>1. \A i \in 1..n : c \notin pending[i].callers
    BY <1>4 DEF Callers
  <2>2. QED BY <1>2, <1>4, <2>1 DEF Exclusive
<1>7. OneSlot(buf)
  <2>1. Coalesce => \A i \in 1..n : pending[i].key # k
    BY <1>4 DEF Slots
  <2>2. QED BY <1>2, <1>4, <2>1 DEF OneSlot
<1>8. buf # <<>>
  BY <1>4
<1>9. QED BY <1>1, <1>4, <1>5, <1>6, <1>7, <1>8

LEMMA BufferedMerge ==
  ASSUME TypeOK, NEW c \in Calls, NEW k \in Keys, NEW op \in Ops,
         Slots(k) # {}, OneSlot(pending), Exclusive(pending), c \notin Callers(pending)
  PROVE  LET buf == Buffered(c, k, op)
         IN  /\ buf \in Seq(Entry) /\ buf # <<>>
             /\ Callers(buf) = Callers(pending) \cup {c}
             /\ Exclusive(buf) /\ OneSlot(buf)
<1> DEFINE n == Len(pending)
           buf == [i \in DOMAIN pending |->
                     IF i \in Slots(k) THEN MergedEntry(pending[i], c, op) ELSE pending[i]]
<1>1. Buffered(c, k, op) = buf
  BY DEF Buffered
<1>2. pending \in Seq(Entry) /\ n \in Nat /\ DOMAIN pending = 1..n
  BY DEF TypeOK
<1>3. \A i \in 1..n : pending[i] \in Entry
  BY <1>2
<1>4. PICK s \in 1..n : Slots(k) = {s}
  BY <1>2 DEF Slots, OneSlot
<1>5. /\ DOMAIN buf = 1..n
      /\ \A i \in 1..n : i # s => buf[i] = pending[i]
      /\ buf[s] \in Entry /\ buf[s].key = pending[s].key
      /\ buf[s].callers = pending[s].callers \cup {c}
  BY <1>2, <1>3, <1>4, BufferedEntry
<1>6. buf \in Seq(Entry)
  <2>1. \A i \in 1..n : buf[i] \in Entry
    BY <1>3, <1>5
  <2>2. buf \in [1..n -> Entry]
    BY <1>2, <2>1
  <2>3. QED BY <1>2, <2>2
<1> HIDE DEF buf, n
<1>7. Callers(buf) = Callers(pending) \cup {c}
  <2>1. ASSUME NEW x \in Callers(buf) PROVE x \in Callers(pending) \cup {c}
    BY <1>2, <1>5, <2>1 DEF Callers
  <2>2. ASSUME NEW x \in Callers(pending) \cup {c} PROVE x \in Callers(buf)
    <3>1. CASE x = c
      BY <1>5, <3>1 DEF Callers
    <3>2. CASE x \in Callers(pending)
      <4>1. PICK i \in 1..n : x \in pending[i].callers
        BY <1>2, <3>2 DEF Callers
      <4>2. x \in buf[i].callers
        BY <1>5, <4>1
      <4>3. QED BY <1>5, <4>2 DEF Callers
    <3>3. QED BY <2>2, <3>1, <3>2
  <2>3. QED BY <2>1, <2>2
<1>8. Exclusive(buf)
  <2>1. \A i \in 1..n : c \notin pending[i].callers
    BY <1>2 DEF Callers
  <2>2. QED BY <1>2, <1>5, <2>1 DEF Exclusive
<1>9. OneSlot(buf)
  BY <1>2, <1>5 DEF OneSlot
<1>10. buf # <<>>
  <2>1. s \in DOMAIN buf
    BY <1>5
  <2>2. DOMAIN <<>> = {}
    OBVIOUS
  <2>3. QED BY <2>1, <2>2
<1>11. QED BY <1>1, <1>6, <1>7, <1>8, <1>9, <1>10

LEMMA BufferedFacts ==
  ASSUME TypeOK, NEW c \in Calls, NEW k \in Keys, NEW op \in Ops,
         OneSlot(pending), Exclusive(pending), c \notin Callers(pending)
  PROVE  LET buf == Buffered(c, k, op)
         IN  /\ buf \in Seq(Entry) /\ buf # <<>>
             /\ Callers(buf) = Callers(pending) \cup {c}
             /\ Exclusive(buf) /\ OneSlot(buf)
  BY BufferedAppend, BufferedMerge

LEMMA SnapshotFacts ==
  ASSUME NEW buf \in Seq(Entry), NEW s \in Snapshots(buf), Exclusive(buf)
  PROVE  /\ s \in Seq(Entry)
         /\ Callers(s) = Callers(buf)
         /\ Exclusive(s)
         /\ Ordered(s)
<1>1. CASE ~Coalesce
  BY <1>1 DEF Snapshots, Ordered
<1>2. CASE Coalesce
  <2> DEFINE n == Len(buf)
  <2>1. n \in Nat /\ DOMAIN buf = 1..n /\ \A i \in 1..n : buf[i] \in Entry
    OBVIOUS
  <2>2. PICK p \in Bijection(DOMAIN buf, DOMAIN buf) :
          /\ \A i, j \in DOMAIN buf : i < j => buf[p[i]].key < buf[p[j]].key
          /\ s = [i \in DOMAIN buf |-> buf[p[i]]]
    BY <1>2 DEF Snapshots
  <2>3. /\ p \in [1..n -> 1..n]
        /\ \A i, j \in 1..n : p[i] = p[j] => i = j
        /\ \A j \in 1..n : \E i \in 1..n : p[i] = j
    BY <2>1 DEF Bijection, Injection, Surjection, IsInjective
  <2> HIDE DEF n
  <2>4. DOMAIN s = 1..n /\ \A i \in 1..n : s[i] = buf[p[i]] /\ p[i] \in 1..n
    BY <2>1, <2>2, <2>3
  <2>5. s \in Seq(Entry)
    <3>1. s \in [1..n -> Entry]
      BY <2>1, <2>2, <2>3
    <3>2. QED BY <2>1, <3>1
  <2>6. Callers(s) = Callers(buf)
    <3>1. ASSUME NEW x \in Callers(s) PROVE x \in Callers(buf)
      BY <2>1, <2>4, <3>1 DEF Callers
    <3>2. ASSUME NEW x \in Callers(buf) PROVE x \in Callers(s)
      <4>1. PICK j \in 1..n : x \in buf[j].callers
        BY <2>1, <3>2 DEF Callers
      <4>2. PICK i \in 1..n : p[i] = j
        BY <2>3
      <4>3. i \in DOMAIN s /\ x \in s[i].callers
        BY <2>4, <4>1, <4>2
      <4>4. QED BY <4>3 DEF Callers
    <3>3. QED BY <3>1, <3>2
  <2>7. Exclusive(s)
    <3>1. ASSUME NEW i \in 1..n, NEW j \in 1..n, i # j
          PROVE  s[i].callers \cap s[j].callers = {}
      <4>1. p[i] # p[j] /\ p[i] \in DOMAIN buf /\ p[j] \in DOMAIN buf
        BY <2>1, <2>3, <3>1
      <4>2. buf[p[i]].callers \cap buf[p[j]].callers = {}
        BY <4>1 DEF Exclusive
      <4>3. QED BY <2>4, <4>2
    <3>2. QED BY <2>4, <3>1 DEF Exclusive
  <2>8. \A i, j \in DOMAIN s : i < j => s[i].key < s[j].key
    BY <2>1, <2>2, <2>4
  <2>9. QED BY <2>5, <2>6, <2>7, <2>8 DEF Ordered
<1>3. QED BY <1>1, <1>2

-----------------------------------------------------------------------------
(* A call of flush() and a turn of its loop keep the invariant, for the    *)
(* buffer, sequence number and activations the code before it left behind. *)

LEMMA AwaitFlushKeeps ==
  ASSUME TypeOK, Quiet, Ordered(inFlight), TypeOK',
         NEW who \in Everybody, NEW t \in Nat,
         NEW buf \in Seq(Entry), NEW seq \in Nat, NEW wk \in SUBSET Woken,
         AwaitFlush([who |-> who, target |-> t], buf, seq, wk),
         Accounted(buf, inFlight, call'), OneSlot(buf), HeldOnce(waiting, wk, call'),
         who \in Calls => /\ call'[who].st = "blocked" /\ call'[who].key \in Keys
                          /\ \A w \in waiting \cup wk : w.who # who
  PROVE  Inv'
<1> DEFINE w == [who |-> who, target |-> t]
           v == [who |-> who, target |-> t, ok |-> TRUE]
<1>1. w.who = who /\ v.who = who
  OBVIOUS
<1> HIDE DEF w, v
<1>2. HeldOnce(waiting \cup {w}, wk, call') /\ HeldOnce(waiting, wk \cup {v}, call')
  <2>1. \A u \in {w, v} : u.who \in Calls => /\ call'[u.who].st = "blocked" /\ call'[u.who].key \in Keys
                                             /\ \A x \in waiting \cup wk : x.who # u.who
    BY <1>1
  <2>2. QED BY <2>1 DEF HeldOnce
<1> USE DEF w, v
<1>3. CASE active = "running" /\ waiting' = waiting \cup {w} /\ woken' = wk /\ pending' = buf
           /\ UNCHANGED <<inFlight, batchSeq, active>>
  BY <1>2, <1>3 DEF Inv, Quiet
<1>4. CASE active = "none" /\ StartBatch(buf, seq) /\ waiting' = waiting \cup {w} /\ woken' = wk
  <2>1. inFlight = <<>>
    BY <1>4 DEF Quiet
  <2>2. Callers(<<>>) = {} /\ Exclusive(<<>>) /\ OneSlot(<<>>)
    BY DEF Callers, Exclusive, OneSlot
  <2>3. /\ Callers(inFlight') = Callers(buf) /\ Exclusive(inFlight') /\ Ordered(inFlight')
        /\ pending' = <<>> /\ active' = "running"
    BY <1>4, SnapshotFacts DEF StartBatch, Accounted
  <2>4. Accounted(pending', inFlight', call')
    BY <2>1, <2>2, <2>3 DEF Accounted
  <2>5. QED BY <1>2, <1>4, <2>2, <2>3, <2>4 DEF Inv, Quiet
<1>5. CASE /\ active = "stale" \/ active = "none"
           /\ active' = "stale" /\ pending' = buf /\ woken' = wk \cup {v}
           /\ UNCHANGED <<inFlight, batchSeq, waiting>>
  BY <1>2, <1>5 DEF Inv, Quiet
<1>6. QED BY <1>3, <1>4, <1>5 DEF AwaitFlush

(* Both lemmas below take the state as the code before the flush left it.  *)
LEMMA FlushTypes ==
  ASSUME TypeOK, NEW who \in Everybody,
         NEW buf \in Seq(Entry), NEW seq \in Nat, NEW wk \in SUBSET Woken,
         Flush(who, buf, seq, wk), Exclusive(buf)
  PROVE  /\ pending' \in Seq(Entry) /\ inFlight' \in Seq(Entry) /\ batchSeq' \in Nat
         /\ active' \in {"none", "running", "stale"} /\ timer' \in BOOLEAN
         /\ waiting' \subseteq Waiter /\ woken' \subseteq Woken
<1>1. ASSUME NEW t \in Nat, AwaitFlush([who |-> who, target |-> t], buf, seq, wk)
      PROVE  /\ pending' \in Seq(Entry) /\ inFlight' \in Seq(Entry) /\ batchSeq' \in Nat
             /\ active' \in {"none", "running", "stale"}
             /\ waiting' \subseteq Waiter /\ woken' \subseteq Woken
  <2>1. [who |-> who, target |-> t] \in Waiter /\ [who |-> who, target |-> t, ok |-> TRUE] \in Woken
    BY DEF Waiter, Woken, Everybody
  <2>2. StartBatch(buf, seq) => /\ pending' \in Seq(Entry) /\ inFlight' \in Seq(Entry)
                                /\ batchSeq' \in Nat /\ active' = "running"
    BY SnapshotFacts DEF StartBatch
  <2>3. QED BY <1>1, <2>1, <2>2 DEF AwaitFlush, TypeOK
<1>2. CASE completedSeq < seq
  BY <1>1, <1>2 DEF Flush, TypeOK
<1>3. CASE ~(completedSeq < seq) /\ active # "none"
  BY <1>1, <1>3 DEF Flush, TypeOK
<1>4. CASE ~(completedSeq < seq) /\ active = "none"
  BY <1>4 DEF Flush, TypeOK
<1>5. QED BY <1>2, <1>3, <1>4

LEMMA FlushKeeps ==
  ASSUME TypeOK, Quiet, Ordered(inFlight), NEW who \in Everybody,
         NEW buf \in Seq(Entry), NEW seq \in Nat, NEW wk \in SUBSET Woken,
         Flush(who, buf, seq, wk),
         store' \in [Keys -> Value], call' \in [Calls -> Call],
         flusher' \in [Flushers -> Flusher], currentSeq' = seq, completedSeq' \in Nat,
         Accounted(buf, inFlight, call'), OneSlot(buf), HeldOnce(waiting, wk, call'),
         who \in Calls => /\ call'[who].st = "blocked" /\ call'[who].key \in Keys
                          /\ \A w \in waiting \cup wk : w.who # who
  PROVE  Inv'
<1>1. TypeOK'
  BY FlushTypes DEF TypeOK, Accounted
<1>2. CASE completedSeq < seq
  BY <1>1, <1>2, AwaitFlushKeeps DEF Flush, TypeOK
<1>3. CASE ~(completedSeq < seq) /\ active # "none"
  BY <1>1, <1>3, AwaitFlushKeeps DEF Flush, TypeOK
<1>4. CASE ~(completedSeq < seq) /\ active = "none"
  BY <1>1, <1>4 DEF Flush, TypeOK, Inv, Quiet
<1>5. QED BY <1>2, <1>3, <1>4

LEMMA EnqueueKeeps ==
  ASSUME Inv, NEW c \in Calls, NEW k \in Keys, NEW op \in Ops, NEW wk \in SUBSET woken,
         call[c].st # "queued", \A w \in waiting \cup wk : w.who # c,
         Enqueue(c, k, op, wk)
  PROVE  Inv'
<1> DEFINE buf == Buffered(c, k, op)
<1> USE DEF Inv
<1>1. c \notin Callers(pending) \cup Callers(inFlight)
  BY DEF Accounted
<1>2. /\ buf \in Seq(Entry) /\ buf # <<>> /\ Callers(buf) = Callers(pending) \cup {c}
      /\ Exclusive(buf) /\ OneSlot(buf)
  BY <1>1, BufferedFacts DEF Accounted
<1>3. /\ call' \in [Calls -> Call] /\ call'[c].st = "queued"
      /\ \A d \in Calls \ {c} : call'[d] = call[d]
  <2>1. [st |-> "queued", key |-> k, op |-> op, seq |-> currentSeq + 1,
         dflt |-> op = "delete" /\ (\E i \in Slots(k) : pending[i].type = "set"), res |-> FALSE] \in Call
    BY DEF Call, TypeOK
  <2>2. QED BY <2>1 DEF Enqueue, TypeOK
<1> HIDE DEF buf
<1>4. HeldOnce(waiting, wk, call')
  BY <1>3 DEF HeldOnce
<1>5. Accounted(buf, inFlight, call')
  BY <1>1, <1>2, <1>3 DEF Accounted
<1>6. wk \in SUBSET Woken /\ currentSeq + 1 \in Nat
  BY DEF TypeOK
<1>7. /\ currentSeq' = currentSeq + 1 /\ store' \in [Keys -> Value]
      /\ flusher' \in [Flushers -> Flusher] /\ completedSeq' \in Nat
  BY DEF Enqueue, TypeOK
<1>8. CASE Flush(Background, buf, currentSeq + 1, wk)
  <2>1. Background \in Everybody /\ Background \notin Calls
    BY BatcherAssumption DEF Everybody
  <2>2. QED BY <1>2, <1>3, <1>4, <1>5, <1>6, <1>7, <1>8, <2>1, FlushKeeps
<1>9. CASE /\ timer' = TRUE /\ pending' = buf /\ woken' = wk
           /\ UNCHANGED <<inFlight, batchSeq, active, waiting>>
  BY <1>2, <1>3, <1>4, <1>5, <1>6, <1>7, <1>9 DEF TypeOK, Quiet
<1>10. QED BY <1>8, <1>9 DEF Enqueue, buf

-----------------------------------------------------------------------------
(* Each action keeps the invariant.                                        *)

LEMMA InitInv == Init => Inv
<1> SUFFICES ASSUME Init PROVE Inv
  OBVIOUS
<1>1. TypeOK
  <2>1. store \in [Keys -> Value]
    BY DEF Init, Value
  <2>2. IdleCall \in Call
    BY DEF IdleCall, Call, Ops
  <2>3. call \in [Calls -> Call]
    BY <2>2 DEF Init
  <2>4. flusher \in [Flushers -> Flusher]
    BY DEF Init, Flusher
  <2>5. pending \in Seq(Entry) /\ inFlight \in Seq(Entry)
    BY DEF Init
  <2>6. QED BY <2>1, <2>3, <2>4, <2>5 DEF Init, TypeOK
<1>2. Callers(<<>>) = {} /\ Exclusive(<<>>) /\ OneSlot(<<>>) /\ Ordered(<<>>)
  BY DEF Callers, Exclusive, OneSlot, Ordered
<1>3. \A c \in Calls : call[c].st = "idle"
  BY DEF Init, IdleCall
<1>4. Accounted(pending, inFlight, call)
  BY <1>2, <1>3 DEF Init, Accounted
<1>5. QED BY <1>1, <1>2, <1>4 DEF Init, Inv, HeldOnce, Quiet

LEMMA InvokeKeeps ==
  ASSUME Inv, NEW c \in Calls, NEW k \in Keys, NEW op \in Ops, Invoke(c, k, op)
  PROVE  Inv'
<1>1. \A w \in waiting \cup woken : w.who # c
  BY DEF Inv, HeldOnce, Invoke
<1>2. CASE Enqueue(c, k, op, woken)
  BY <1>1, <1>2, EnqueueKeeps DEF Invoke
<1>3. CASE /\ call' = [call EXCEPT ![c] = [@ EXCEPT !.st = "blocked", !.key = k, !.op = op]]
           /\ Flush(c, pending, currentSeq, woken)
           /\ UNCHANGED <<store, currentSeq, completedSeq, flusher>>
  <2>1. /\ call' \in [Calls -> Call] /\ call'[c].st = "blocked" /\ call'[c].key \in Keys
        /\ \A d \in Calls \ {c} : call'[d] = call[d]
    BY <1>3 DEF Inv, TypeOK, Call
  <2>2. HeldOnce(waiting, woken, call')
    BY <1>1, <2>1 DEF Inv, HeldOnce
  <2>3. Accounted(pending, inFlight, call')
    BY <2>1 DEF Inv, Accounted, Invoke
  <2>4. /\ pending \in Seq(Entry) /\ currentSeq \in Nat /\ woken \in SUBSET Woken
        /\ store' \in [Keys -> Value] /\ flusher' \in [Flushers -> Flusher]
        /\ currentSeq' = currentSeq /\ completedSeq' \in Nat /\ c \in Everybody
    BY <1>3 DEF Inv, TypeOK, Everybody
  <2>5. QED BY <1>1, <1>3, <2>1, <2>2, <2>3, <2>4, FlushKeeps DEF Inv
<1>4. QED BY <1>2, <1>3 DEF Invoke

(* Flushes that no call of enqueue() waits for.                            *)
LEMMA OtherFlushKeeps ==
  ASSUME Inv, NEW who \in Flushers \cup {Background}, Flush(who, pending, currentSeq, woken),
         flusher' \in [Flushers -> Flusher], UNCHANGED <<store, currentSeq, completedSeq, call>>
  PROVE  Inv'
<1>1. who \in Everybody /\ who \notin Calls
  BY BatcherAssumption DEF Everybody
<1>2. /\ pending \in Seq(Entry) /\ currentSeq \in Nat /\ woken \in SUBSET Woken
      /\ store' \in [Keys -> Value] /\ call' \in [Calls -> Call] /\ completedSeq' \in Nat
      /\ currentSeq' = currentSeq /\ call' = call
  BY DEF Inv, TypeOK
<1>3. QED BY <1>1, <1>2, FlushKeeps DEF Inv

LEMMA CallFlushKeeps ==
  ASSUME Inv, NEW f \in Flushers, CallFlush(f)
  PROVE  Inv'
<1>1. flusher' \in [Flushers -> Flusher]
  BY DEF Inv, TypeOK, CallFlush, Flusher
<1>2. QED BY <1>1, OtherFlushKeeps DEF CallFlush

LEMMA TimerFiresKeeps ==
  ASSUME Inv, TimerFires
  PROVE  Inv'
<1>1. flusher' \in [Flushers -> Flusher]
  BY DEF Inv, TypeOK, TimerFires
<1>2. QED BY <1>1, OtherFlushKeeps DEF TimerFires

LEMMA ResumeKeeps ==
  ASSUME Inv, NEW w \in woken, Resume(w)
  PROVE  Inv'
<1> DEFINE wk == woken \ {w}
<1> USE DEF Inv
<1>1. wk \in SUBSET woken /\ wk \in SUBSET Woken /\ w \in Woken /\ w.who \in Everybody
      /\ w.target \in Nat
  BY DEF TypeOK, Woken, Everybody
<1>2. HeldOnce(waiting, wk, call)
  BY DEF HeldOnce
<1>3. w.who \in Calls => /\ call[w.who].st = "blocked" /\ call[w.who].key \in Keys
                         /\ \A v \in waiting \cup wk : v.who # w.who
  BY DEF HeldOnce
<1> HIDE DEF wk
<1>4. CASE LeaveFlush(w)
  <2>1. CASE w.who \in Calls /\ Enqueue(w.who, call[w.who].key, call[w.who].op, wk)
    <3>1. call[w.who].op \in Ops
      BY <2>1 DEF TypeOK, Call
    <3>2. QED BY <1>1, <1>3, <2>1, <3>1, EnqueueKeeps
  <2>2. CASE /\ w.who \in Calls
             /\ call' = [call EXCEPT ![w.who] = [@ EXCEPT !.st = "rejected"]]
             /\ woken' = wk
             /\ UNCHANGED <<store, bufferVars, currentSeq, completedSeq, waiting, flusher>>
    <3>1. /\ call' \in [Calls -> Call] /\ call'[w.who].st = "rejected"
          /\ \A d \in Calls \ {w.who} : call'[d] = call[d]
      BY <2>2 DEF TypeOK, Call
    <3>2. TypeOK' /\ OneSlot(pending') /\ Ordered(inFlight') /\ Quiet'
      BY <1>1, <2>2, <3>1 DEF TypeOK, bufferVars, Quiet
    <3>3. Accounted(pending', inFlight', call')
      BY <1>3, <2>2, <3>1 DEF Accounted, bufferVars
    <3>4. HeldOnce(waiting', woken', call')
      BY <1>2, <1>3, <2>2, <3>1 DEF HeldOnce
    <3>5. QED BY <3>2, <3>3, <3>4
  <2>3. CASE /\ woken' = wk /\ flusher' \in [Flushers -> Flusher]
             /\ UNCHANGED <<store, bufferVars, currentSeq, completedSeq, waiting, call>>
    BY <1>1, <1>2, <2>3 DEF TypeOK, bufferVars, Quiet
  <2>4. CASE /\ w.who \in Flushers /\ woken' = wk
             /\ flusher' = [flusher EXCEPT ![w.who] =
                              [@ EXCEPT !.st = IF w.ok THEN "returned" ELSE "threw"]]
             /\ UNCHANGED <<store, bufferVars, currentSeq, completedSeq, waiting, call>>
    <3>1. flusher' \in [Flushers -> Flusher]
      BY <2>4 DEF TypeOK, Flusher
    <3>2. QED BY <2>3, <2>4, <3>1
  <2>5. CASE /\ woken' = wk
             /\ UNCHANGED <<store, bufferVars, currentSeq, completedSeq, waiting, call, flusher>>
    BY <2>3, <2>5 DEF TypeOK
  <2>6. QED BY <1>4, <2>1, <2>2, <2>4, <2>5 DEF LeaveFlush, wk
<1>5. CASE /\ AwaitFlush([who |-> w.who, target |-> w.target], pending, currentSeq, wk)
           /\ UNCHANGED <<store, timer, currentSeq, completedSeq, call, flusher>>
  <2>1. TypeOK'
    <3>1. [who |-> w.who, target |-> w.target] \in Waiter
          /\ [who |-> w.who, target |-> w.target, ok |-> TRUE] \in Woken
      BY <1>1 DEF Waiter, Woken, Everybody
    <3>2. StartBatch(pending, currentSeq) =>
            /\ pending' \in Seq(Entry) /\ inFlight' \in Seq(Entry)
            /\ batchSeq' \in Nat /\ active' = "running"
      BY SnapshotFacts DEF StartBatch, TypeOK, Accounted
    <3>3. QED BY <1>1, <1>5, <3>1, <3>2 DEF AwaitFlush, TypeOK
  <2>2. pending \in Seq(Entry) /\ currentSeq \in Nat /\ call' = call
    BY <1>5 DEF TypeOK
  <2>3. QED BY <1>1, <1>2, <1>3, <1>5, <2>1, <2>2, AwaitFlushKeeps
<1>6. QED BY <1>4, <1>5 DEF Resume, wk

(* The end of a batch: its calls are settled, the others are as they were. *)
LEMMA FinishKeeps ==
  ASSUME Inv, active = "running", NEW ok \in BOOLEAN, Finish(ok),
         store' \in [Keys -> Value], call' \in [Calls -> Call],
         \A c \in Callers(inFlight) : call'[c].st # "queued",
         \A c \in Calls \ Callers(inFlight) : call'[c] = call[c]
  PROVE  Inv'
<1> USE DEF Inv
<1>1. woken' \subseteq Woken
  BY DEF Finish, WokenBy, TypeOK, Waiter, Woken
<1>2. Background \notin Calls
  BY BatcherAssumption
<1>3. HeldOnce(waiting', woken', call')
  <2>1. \A w \in waiting' : w.who \notin Calls
    BY <1>2 DEF Finish, FollowUp
  <2>2. \A w \in woken' : w \in woken \/ \E v \in waiting : w.who = v.who /\ w.ok = ok
                                                        /\ w = [who |-> v.who, target |-> v.target, ok |-> ok]
    BY DEF Finish, WokenBy
  <2>3. \A w \in woken' : w.who \in Calls => call'[w.who].st = "blocked" /\ call'[w.who].key \in Keys
    BY <2>2 DEF HeldOnce, Accounted
  <2>4. \A v, w \in woken' : v.who = w.who /\ v.who \in Calls => v = w
    <3>1. ASSUME NEW v \in woken', NEW w \in woken', v.who = w.who, v.who \in Calls
          PROVE  v = w
      <4>1. CASE v \in woken /\ w \in woken
        BY <3>1, <4>1 DEF HeldOnce
      <4>2. CASE v \in woken /\ w \notin woken
        BY <2>2, <3>1, <4>2 DEF HeldOnce
      <4>3. CASE v \notin woken /\ w \in woken
        BY <2>2, <3>1, <4>3 DEF HeldOnce
      <4>4. CASE v \notin woken /\ w \notin woken
        BY <2>2, <3>1, <4>4 DEF HeldOnce
      <4>5. QED BY <4>1, <4>2, <4>3, <4>4
    <3>2. QED BY <3>1
  <2>5. QED BY <2>1, <2>3, <2>4 DEF HeldOnce
<1>4. Callers(<<>>) = {} /\ Exclusive(<<>>) /\ OneSlot(<<>>) /\ Ordered(<<>>)
  BY DEF Callers, Exclusive, OneSlot, Ordered
<1>5. Accounted(pending, <<>>, call')
  <2>1. \A c \in Calls : call'[c].st = "queued" <=> c \in Callers(pending)
    BY DEF Accounted
  <2>2. QED BY <1>4, <2>1 DEF Accounted
<1>6. currentSeq' \in Nat /\ completedSeq' \in Nat /\ flusher' \in [Flushers -> Flusher]
  BY DEF Finish, TypeOK
<1>7. CASE /\ StartBatch(pending, currentSeq) /\ timer' = FALSE
           /\ waiting' = {[who |-> Background, target |-> currentSeq]}
  <2>1. /\ inFlight' \in Seq(Entry) /\ Callers(inFlight') = Callers(pending)
        /\ Exclusive(inFlight') /\ Ordered(inFlight') /\ pending' = <<>> /\ active' = "running"
    BY <1>7, SnapshotFacts DEF StartBatch, Accounted, TypeOK
  <2>2. Accounted(pending', inFlight', call')
    BY <1>4, <1>5, <2>1 DEF Accounted
  <2>3. waiting' \subseteq Waiter
    BY <1>7 DEF Waiter, TypeOK
  <2>4. batchSeq' \in Nat /\ timer' \in BOOLEAN /\ pending' \in Seq(Entry)
    <3>1. <<>> \in Seq(Entry)
      OBVIOUS
    <3>2. QED BY <1>7, <2>1, <3>1 DEF StartBatch, TypeOK
  <2>5. TypeOK'
    BY <1>1, <1>6, <2>1, <2>3, <2>4 DEF TypeOK
  <2>6. QED BY <1>3, <1>4, <2>1, <2>2, <2>5 DEF Quiet
<1>8. CASE /\ inFlight' = <<>> /\ active' = "none" /\ waiting' = {}
           /\ timer' = (timer \/ pending # <<>>)
           /\ UNCHANGED <<pending, batchSeq>>
  <2>1. inFlight' \in Seq(Entry) /\ timer' \in BOOLEAN /\ waiting' \subseteq Waiter
    BY <1>8 DEF TypeOK
  <2>2. TypeOK'
    BY <1>1, <1>6, <1>8, <2>1 DEF TypeOK
  <2>3. QED BY <1>3, <1>4, <1>5, <1>8, <2>2 DEF Quiet
<1>9. QED BY <1>7, <1>8 DEF Finish, FollowUp

(* A set of positions has a largest one.                                   *)
LEMMA LargestPosition ==
  ASSUME NEW n \in Nat, NEW S, S \subseteq 1..n, S # {}
  PROVE  \E m \in S : \A i \in S : m >= i
<1> DEFINE R == {p \in Nat \X Nat : p[1] < p[2]}
           T == {t \in Nat : \E i \in S : t + i = n}
<1>1. IsWellFoundedOn(R, Nat)
  <2>1. OpToRel(<, Nat) = R
    BY DEF OpToRel
  <2>2. QED BY <2>1, NatLessThanWellFounded
<1>2. \A i \in S : i \in Nat /\ n - i \in T
  OBVIOUS
<1>3. T \subseteq Nat /\ T # {}
  BY <1>2
<1>4. PICK x \in T : \A y \in T : ~ (<<y, x>> \in R)
  <2> HIDE DEF R, T
  <2>1. QED BY <1>1, <1>3, WFMin
<1>5. \A y \in T : ~ (y < x)
  BY <1>3, <1>4
<1>6. PICK m \in S : x + m = n
  BY DEF T
<1>7. ASSUME NEW i \in S PROVE m >= i
  BY <1>2, <1>5, <1>6
<1>8. QED BY <1>7

(* What the handler stores of a key is a value.                            *)
LEMMA ValueAfterType ==
  ASSUME TypeOK, NEW A \in SUBSET DOMAIN inFlight, NEW k \in Keys
  PROVE  ValueAfter(A, k) \in Value
<1> DEFINE onK == {i \in A : inFlight[i].key = k}
<1>1. CASE onK = {}
  BY <1>1 DEF ValueAfter, TypeOK
<1>2. CASE onK # {}
  <2>1. onK \subseteq 1..Len(inFlight) /\ Len(inFlight) \in Nat
    BY DEF TypeOK
  <2>2. Max(onK) \in onK
    <3>1. \E m \in onK : \A i \in onK : m >= i
      BY <1>2, <2>1, LargestPosition
    <3>2. QED BY <3>1 DEF Max
  <2>3. inFlight[Max(onK)] \in Entry
    BY <2>1, <2>2 DEF TypeOK
  <2>4. QED BY <1>2, <2>3 DEF ValueAfter, Entry
<1>3. QED BY <1>1, <1>2

LEMMA CallersAreCalls ==
  ASSUME NEW buf \in Seq(Entry)
  PROVE  Callers(buf) \subseteq Calls
<1>1. \A i \in DOMAIN buf : buf[i] \in Entry
  OBVIOUS
<1>2. QED BY <1>1 DEF Callers, Entry

LEMMA HandlerKeeps ==
  ASSUME Inv, HandlerResolves \/ HandlerRejects
  PROVE  Inv'
<1>1. call \in [Calls -> Call] /\ Callers(inFlight) \subseteq Calls /\ DOMAIN inFlight \subseteq DOMAIN inFlight
  BY CallersAreCalls DEF Inv, TypeOK
<1>2. CASE HandlerResolves
  <2>1. store' \in [Keys -> Value]
    BY <1>1, <1>2, ValueAfterType DEF Inv, HandlerResolves
  <2>2. ASSUME NEW c \in Calls, c \in Callers(inFlight)
        PROVE  call'[c] \in Call /\ call'[c].st = "resolved"
    <3> DEFINE e == inFlight[CHOOSE i \in DOMAIN inFlight : c \in inFlight[i].callers]
    <3>1. e \in Entry
      <4>1. \E i \in DOMAIN inFlight : c \in inFlight[i].callers
        BY <2>2 DEF Callers
      <4>2. (CHOOSE i \in DOMAIN inFlight : c \in inFlight[i].callers) \in DOMAIN inFlight
        BY <4>1
      <4>3. QED BY <4>2 DEF Inv, TypeOK
    <3>2. call'[c] = [call[c] EXCEPT !.st = "resolved", !.res = ResultOf(c, e)]
      BY <1>2, <2>2 DEF HandlerResolves
    <3> HIDE DEF e
    <3>3. ResultOf(c, e) \in BOOLEAN
      BY <1>1, <3>1 DEF ResultOf, Call, Entry
    <3>4. QED BY <1>1, <3>2, <3>3 DEF Call
  <2>3. \A c \in Calls \ Callers(inFlight) : call'[c] = call[c]
    BY <1>2 DEF HandlerResolves
  <2>4. call' \in [Calls -> Call]
    <3> DEFINE R(c) == IF c \in Callers(inFlight)
                       THEN LET e == inFlight[CHOOSE i \in DOMAIN inFlight : c \in inFlight[i].callers]
                            IN [call[c] EXCEPT !.st = "resolved", !.res = ResultOf(c, e)]
                       ELSE call[c]
    <3>1. call' = [c \in Calls |-> R(c)]
      BY <1>2 DEF HandlerResolves
    <3>2. \A c \in Calls : call'[c] \in Call
      BY <1>1, <2>2, <2>3
    <3> HIDE DEF R
    <3>3. QED BY <3>1, <3>2
  <2>5. QED BY <1>1, <1>2, <2>1, <2>2, <2>3, <2>4, FinishKeeps DEF HandlerResolves
<1>3. CASE HandlerRejects
  <2>1. store' \in [Keys -> Value]
    BY <1>3, ValueAfterType DEF Inv, HandlerRejects
  <2>2. /\ call' \in [Calls -> Call]
        /\ \A c \in Callers(inFlight) : call'[c].st # "queued"
        /\ \A c \in Calls \ Callers(inFlight) : call'[c] = call[c]
    BY <1>1, <1>3 DEF HandlerRejects, Call
  <2>3. QED BY <1>3, <2>1, <2>2, FinishKeeps DEF HandlerRejects
<1>4. QED BY <1>2, <1>3

LEMMA ClearKeeps ==
  ASSUME Inv, Clear
  PROVE  Inv'
<1>1. call \in [Calls -> Call] /\ Callers(pending) \subseteq Calls
  BY CallersAreCalls DEF Inv, TypeOK
<1>2. /\ call' \in [Calls -> Call]
      /\ \A c \in Callers(pending) : call'[c].st = "rejected" /\ call[c].st = "queued"
      /\ \A c \in Calls \ Callers(pending) : call'[c] = call[c]
  BY <1>1 DEF Clear, Call, Inv, Accounted
<1>3. /\ <<>> \in Seq(Entry) /\ Callers(<<>>) = {} /\ Exclusive(<<>>) /\ OneSlot(<<>>)
      /\ pending' = <<>>
  BY DEF Callers, Exclusive, OneSlot, Clear
<1>4. TypeOK' /\ OneSlot(pending') /\ Ordered(inFlight') /\ Quiet'
  BY <1>2, <1>3 DEF Inv, TypeOK, Quiet, Clear
<1>5. Accounted(pending', inFlight', call')
  <2>1. \A c \in Calls : call'[c].st = "queued" <=> c \in Callers(inFlight)
    BY <1>2 DEF Inv, Accounted
  <2>2. QED BY <1>3, <2>1 DEF Inv, Accounted, Clear
<1>6. HeldOnce(waiting', woken', call')
  <2>1. \A c \in Calls : call[c].st = "blocked" => call'[c] = call[c]
    BY <1>2
  <2>2. QED BY <2>1 DEF Inv, HeldOnce, Clear
<1>7. QED BY <1>4, <1>5, <1>6 DEF Inv

LEMMA StutterKeeps ==
  ASSUME Inv, UNCHANGED vars
  PROVE  Inv'
  BY DEF Inv, TypeOK, Accounted, Quiet, vars, bufferVars

LEMMA NextKeeps == Inv /\ [Next]_vars => Inv'
<1> SUFFICES ASSUME Inv, [Next]_vars PROVE Inv'
  OBVIOUS
<1>1. CASE \E c \in Calls, k \in Keys, op \in Ops : Invoke(c, k, op)
  BY <1>1, InvokeKeeps
<1>2. CASE \E f \in Flushers : CallFlush(f)
  BY <1>2, CallFlushKeeps
<1>3. CASE TimerFires
  BY <1>3, TimerFiresKeeps
<1>4. CASE \E w \in woken : Resume(w)
  BY <1>4, ResumeKeeps
<1>5. CASE HandlerResolves \/ HandlerRejects
  BY <1>5, HandlerKeeps
<1>6. CASE Clear
  BY <1>6, ClearKeeps
<1>7. CASE UNCHANGED vars
  BY <1>7, StutterKeeps
<1>8. QED BY <1>1, <1>2, <1>3, <1>4, <1>5, <1>6, <1>7 DEF Next

(* Inv is inductive, so it holds throughout every behaviour.              *)
THEOREM Invariance == Spec => []Inv
  BY InitInv, NextKeeps, PTL DEF Spec

(* The variables hold values of their types, whatever is called when.      *)
THEOREM TypeCorrect == Spec => []TypeOK
<1>1. Inv => TypeOK
  BY DEF Inv
<1>2. QED BY <1>1, Invariance, PTL

(* Every promise of enqueue() and enqueueDelete() that is not settled is   *)
(* held by exactly one entry, of the buffer or of the batch in flight:     *)
(* none is lost and none is settled twice, in both buffering modes, with   *)
(* failing handlers and with clear().                                      *)
THEOREM NoPromiseLost == Spec => []PromiseAccounting
<1>1. Inv => PromiseAccounting
  BY DEF Inv, Accounted, PromiseAccounting
<1>2. QED BY <1>1, Invariance, PTL

(* While coalescing, a key has one operation in the buffer, and a batch    *)
(* takes its keys in ascending order, so that two batches lock their rows  *)
(* in the same order.                                                      *)
THEOREM OneOperation == Spec => []OneOperationPerKey
<1>1. Inv => OneOperationPerKey
  BY DEF Inv, OneSlot, Ordered, OneOperationPerKey
<1>2. QED BY <1>1, Invariance, PTL

-----------------------------------------------------------------------------
(* The last write wins: what an entry will store is what its last caller   *)
(* asked for, and entries of a key are stored in the order of their calls. *)

Asked(c, cl) == IF cl[c].op = "set" THEN c ELSE None

(* Calls are numbered as they are buffered, and settled in that order.     *)
Numbered(cl, cur) ==
  /\ \A c \in Calls : /\ cl[c].seq <= cur
                      /\ cl[c].st \in {"queued", "resolved"} => cl[c].seq # 0 /\ cl[c].key \in Keys
  /\ \A c, d \in Calls : cl[c].seq = cl[d].seq /\ cl[c].seq # 0 => c = d
  /\ \A c, d \in Calls : cl[c].st = "resolved" /\ cl[d].st = "queued" => cl[c].seq < cl[d].seq

(* An entry does what the last of its callers asked, to the key of all.    *)
Tells(buf, cl) ==
  \A i \in DOMAIN buf :
    /\ \A d \in buf[i].callers : cl[d].key = buf[i].key
    /\ \E c \in buf[i].callers :
         /\ buf[i].type = cl[c].op /\ buf[i].item = Asked(c, cl)
         /\ \A d \in buf[i].callers : cl[d].seq <= cl[c].seq

(* The entries of a key are in the order of the calls.                     *)
InTurn(buf, cl) ==
  \A i, j \in DOMAIN buf : i < j /\ buf[i].key = buf[j].key =>
    \A c \in buf[i].callers, d \in buf[j].callers : cl[c].seq < cl[d].seq

Traced(buf, infl, cl, cur) ==
  /\ Numbered(cl, cur)
  /\ Tells(buf, cl) /\ InTurn(buf, cl)
  /\ Tells(infl, cl) /\ InTurn(infl, cl)
  /\ \A c \in Callers(infl), d \in Callers(buf) : cl[c].seq < cl[d].seq

LastInv == Traced(pending, inFlight, call, currentSeq) /\ LastWriteWins

-----------------------------------------------------------------------------
LEMMA NothingTraced ==
  ASSUME NEW cl
  PROVE  Tells(<<>>, cl) /\ InTurn(<<>>, cl) /\ Callers(<<>>) = {}
  BY DEF Tells, InTurn, Callers

(* Only keys, operations and numbers of its callers matter.                *)
LEMMA SameTells ==
  ASSUME NEW buf, NEW cl, NEW cl2,
         \A c \in Callers(buf) : cl2[c].key = cl[c].key /\ cl2[c].op = cl[c].op /\ cl2[c].seq = cl[c].seq,
         Tells(buf, cl), InTurn(buf, cl)
  PROVE  Tells(buf, cl2) /\ InTurn(buf, cl2)
<1>1. \A i \in DOMAIN buf : buf[i].callers \subseteq Callers(buf)
  BY DEF Callers
<1>2. \A c \in Callers(buf) : Asked(c, cl2) = Asked(c, cl)
  BY DEF Asked
<1>3. Tells(buf, cl2)
  <2> SUFFICES ASSUME NEW i \in DOMAIN buf
               PROVE  /\ \A d \in buf[i].callers : cl2[d].key = buf[i].key
                      /\ \E c \in buf[i].callers :
                           /\ buf[i].type = cl2[c].op /\ buf[i].item = Asked(c, cl2)
                           /\ \A d \in buf[i].callers : cl2[d].seq <= cl2[c].seq
    BY DEF Tells
  <2>1. PICK c \in buf[i].callers :
          /\ buf[i].type = cl[c].op /\ buf[i].item = Asked(c, cl)
          /\ \A d \in buf[i].callers : cl[d].seq <= cl[c].seq
    BY DEF Tells
  <2>2. \A d \in buf[i].callers : cl2[d].key = buf[i].key
    BY <1>1 DEF Tells
  <2>3. QED BY <1>1, <1>2, <2>1, <2>2
<1>4. InTurn(buf, cl2)
  BY <1>1 DEF InTurn
<1>5. QED BY <1>3, <1>4

LEMMA SnapshotTells ==
  ASSUME NEW buf \in Seq(Entry), NEW s \in Snapshots(buf), Exclusive(buf), NEW cl,
         Tells(buf, cl), InTurn(buf, cl), \A c \in Calls : cl[c].seq \in Nat
  PROVE  Tells(s, cl) /\ InTurn(s, cl)
<1>1. CASE ~Coalesce
  BY <1>1 DEF Snapshots
<1>2. CASE Coalesce
  <2>1. PICK p \in Bijection(DOMAIN buf, DOMAIN buf) : s = [i \in DOMAIN buf |-> buf[p[i]]]
    BY <1>2 DEF Snapshots
  <2>2. \A i \in DOMAIN buf : p[i] \in DOMAIN buf
    BY DEF Bijection, Injection
  <2>3. DOMAIN s = DOMAIN buf /\ \A i \in DOMAIN s : s[i] = buf[p[i]]
    BY <2>1
  <2>4. Tells(s, cl)
    BY <2>2, <2>3 DEF Tells
  <2>5. s \in Seq(Entry) /\ Ordered(s)
    BY SnapshotFacts
  <2>6. \A i \in DOMAIN s : s[i].key \in Nat
    <3>1. \A i \in DOMAIN s : s[i] \in Entry
      BY <2>5
    <3>2. QED BY <3>1, BatcherAssumption DEF Entry
  <2>7. InTurn(s, cl)
    BY <1>2, <2>5, <2>6 DEF InTurn, Ordered
  <2>8. QED BY <2>4, <2>7
<1>3. QED BY <1>1, <1>2

(* A batch starts, or the buffer stays, whatever the flush was for.        *)
Moves(buf) ==
  \/ pending' = buf /\ inFlight' = inFlight
  \/ pending' = <<>> /\ inFlight' \in Snapshots(buf) /\ inFlight = <<>>

LEMMA FlushMoves ==
  ASSUME Quiet, NEW who, NEW t, NEW buf, NEW seq, NEW wk,
         Flush(who, buf, seq, wk) \/ AwaitFlush([who |-> who, target |-> t], buf, seq, wk)
  PROVE  Moves(buf)
<1>1. ASSUME NEW u, AwaitFlush(u, buf, seq, wk)
      PROVE  Moves(buf)
  BY <1>1 DEF AwaitFlush, StartBatch, Moves, Quiet
<1>2. QED BY <1>1 DEF Flush, Moves

LEMMA MovesTraced ==
  ASSUME NEW buf \in Seq(Entry), Exclusive(buf), NEW cl, NEW cur, \A c \in Calls : cl[c].seq \in Nat,
         Traced(buf, inFlight, cl, cur), Moves(buf)
  PROVE  Traced(pending', inFlight', cl, cur)
<1>1. CASE pending' = buf /\ inFlight' = inFlight
  BY <1>1
<1>2. CASE pending' = <<>> /\ inFlight' \in Snapshots(buf)
  <2>1. Tells(inFlight', cl) /\ InTurn(inFlight', cl)
    BY <1>2, SnapshotTells DEF Traced
  <2>2. QED BY <1>2, <2>1, NothingTraced DEF Traced
<1>3. QED BY <1>1, <1>2 DEF Moves

-----------------------------------------------------------------------------
(* A write is buffered.                                                    *)
LEMMA BufferedTells ==
  ASSUME Inv, Traced(pending, inFlight, call, currentSeq),
         NEW c \in Calls, NEW k \in Keys, NEW op \in Ops, c \notin Callers(pending) \cup Callers(inFlight),
         NEW cl \in [Calls -> Call], cl[c].key = k, cl[c].op = op, cl[c].seq = currentSeq + 1,
         \A d \in Calls \ {c} : cl[d] = call[d]
  PROVE  Tells(Buffered(c, k, op), cl) /\ InTurn(Buffered(c, k, op), cl)
<1> DEFINE buf == Buffered(c, k, op)
           n == Len(pending)
<1>1. /\ pending \in Seq(Entry) /\ n \in Nat /\ DOMAIN pending = 1..n
      /\ currentSeq \in Nat /\ \A d \in Calls : call[d].seq \in Nat /\ cl[d].seq \in Nat
  BY DEF Inv, TypeOK, Call
<1>2. \A i \in 1..n : pending[i] \in Entry
  BY <1>1
<1>3. \A i \in 1..n : pending[i].callers \subseteq Calls \ {c}
  BY <1>1, <1>2 DEF Entry, Callers
<1>4. \A d \in Calls \ {c} : cl[d].seq < cl[c].seq
  BY <1>1 DEF Traced, Numbered
<1>5. Tells(pending, cl) /\ InTurn(pending, cl)
  <2>1. \A d \in Callers(pending) : cl[d] = call[d]
    BY <1>1, <1>3 DEF Callers
  <2>2. QED BY <2>1, SameTells DEF Traced
<1>6. CASE Slots(k) = {}
  <2> DEFINE e == NewEntry(c, k, op)
  <2>1. buf = Append(pending, e)
    BY <1>6 DEF Buffered
  <2>2. e.callers = {c} /\ e.key = k /\ e.type = op /\ e.item = Asked(c, cl)
    BY DEF NewEntry, Asked
  <2> HIDE DEF e, buf
  <2>3. DOMAIN buf = 1..(n + 1) /\ buf[n + 1] = e /\ \A i \in 1..n : buf[i] = pending[i]
    BY <1>1, <2>1
  <2>4. Tells(buf, cl)
    <3>1. ASSUME NEW i \in 1..(n + 1)
          PROVE  /\ \A d \in buf[i].callers : cl[d].key = buf[i].key
                 /\ \E x \in buf[i].callers :
                      /\ buf[i].type = cl[x].op /\ buf[i].item = Asked(x, cl)
                      /\ \A d \in buf[i].callers : cl[d].seq <= cl[x].seq
      <4>1. CASE i = n + 1
        BY <1>1, <2>2, <2>3, <4>1
      <4>2. CASE i \in 1..n
        BY <1>1, <1>5, <2>3, <4>2 DEF Tells
      <4>3. QED BY <1>1, <4>1, <4>2
    <3>2. QED BY <2>3, <3>1 DEF Tells
  <2>5. InTurn(buf, cl)
    <3>1. ASSUME NEW i \in 1..(n + 1), NEW j \in 1..(n + 1), i < j, buf[i].key = buf[j].key,
                 NEW x \in buf[i].callers, NEW d \in buf[j].callers
          PROVE  cl[x].seq < cl[d].seq
      <4>1. i \in 1..n /\ x \in pending[i].callers
        BY <1>1, <2>3, <3>1
      <4>2. CASE j = n + 1
        BY <1>3, <1>4, <2>2, <2>3, <4>1, <4>2
      <4>3. CASE j \in 1..n
        BY <1>1, <1>5, <2>3, <3>1, <4>1, <4>3 DEF InTurn
      <4>4. QED BY <1>1, <4>2, <4>3
    <3>2. QED BY <2>3, <3>1 DEF InTurn
  <2>6. QED BY <2>4, <2>5 DEF buf
<1>7. CASE Slots(k) # {}
  <2>1. PICK s \in 1..n : Slots(k) = {s}
    BY <1>1, <1>7 DEF Slots, OneSlot, Inv
  <2>2. Coalesce /\ pending[s].key = k
    BY <2>1 DEF Slots
  <2> DEFINE e == MergedEntry(pending[s], c, op)
  <2>3. /\ DOMAIN buf = 1..n /\ buf[s] = e
        /\ \A i \in 1..n : i # s => buf[i] = pending[i]
    BY <1>1, <1>7, <2>1 DEF Buffered
  <2>4. e.callers = pending[s].callers \cup {c} /\ e.key = k
    BY <1>2, <2>2, BufferedEntry DEF Inv
  <2>5. e.type = op /\ e.item = Asked(c, cl)
    <3>1. pending[s] \in Entry /\ (pending[s].type = "delete" => pending[s].item = None)
      BY <1>1, <1>2 DEF Traced, Tells, Asked
    <3>2. CASE op = "set"
      BY <3>1, <3>2 DEF MergedEntry, Asked, Entry
    <3>3. CASE op = "delete" /\ pending[s].type = "set"
      BY <3>1, <3>3 DEF MergedEntry, Asked, Entry
    <3>4. CASE op = "delete" /\ pending[s].type = "delete"
      BY <3>1, <3>4 DEF MergedEntry, Asked, Entry
    <3>5. QED BY <3>1, <3>2, <3>3, <3>4 DEF Entry, Ops
  <2>6. OneSlot(buf)
    <3>1. OneSlot(pending) /\ Exclusive(pending) /\ TypeOK
      BY DEF Inv, Accounted
    <3>2. QED BY <3>1, BufferedFacts
  <2> HIDE DEF e, buf
  <2>7. InTurn(buf, cl)
    BY <2>2, <2>3, <2>6 DEF InTurn, OneSlot
  <2>8. Tells(buf, cl)
    <3>1. ASSUME NEW i \in 1..n
          PROVE  /\ \A d \in buf[i].callers : cl[d].key = buf[i].key
                 /\ \E x \in buf[i].callers :
                      /\ buf[i].type = cl[x].op /\ buf[i].item = Asked(x, cl)
                      /\ \A d \in buf[i].callers : cl[d].seq <= cl[x].seq
      <4>1. CASE i = s
        <5>1. \A d \in pending[s].callers : cl[d].key = k /\ cl[d].seq <= cl[c].seq
          BY <1>1, <1>3, <1>4, <1>5, <2>2 DEF Tells
        <5>2. cl[c].seq <= cl[c].seq
          BY <1>1
        <5>3. QED BY <2>3, <2>4, <2>5, <4>1, <5>1, <5>2
      <4>2. CASE i # s
        BY <1>1, <1>5, <2>3, <4>2 DEF Tells
      <4>3. QED BY <4>1, <4>2
    <3>2. QED BY <2>3, <3>1 DEF Tells
  <2>9. QED BY <2>7, <2>8 DEF buf
<1>8. QED BY <1>6, <1>7

(* What was stored and settled before stays the last, if nothing is stored *)
(* and no further call is resolved.                                        *)
LEMMA LastStays ==
  ASSUME LastWriteWins, UNCHANGED store,
         \A c \in Calls : call'[c].st = "resolved" => call'[c] = call[c],
         \A c \in Calls : Settled(c) => call'[c] = call[c]
  PROVE  LastWriteWins'
<1> SUFFICES ASSUME NEW c \in Calls, call'[c].st = "resolved",
                    \A d \in Calls : Settled(d)' /\ call'[d].key = call'[c].key
                                       => call'[d].seq <= call'[c].seq
             PROVE  store'[call'[c].key] = IF call'[c].op = "set" THEN c ELSE None
  BY DEF LastWriteWins
<1>1. call'[c] = call[c]
  OBVIOUS
<1>2. \A d \in Calls : Settled(d) /\ call[d].key = call[c].key => call[d].seq <= call[c].seq
  BY <1>1 DEF Settled
<1>3. QED BY <1>1, <1>2 DEF LastWriteWins

LEMMA EnqueueTraces ==
  ASSUME Inv, LastInv, NEW c \in Calls, NEW k \in Keys, NEW op \in Ops, NEW wk \in SUBSET woken,
         ~Settled(c), call[c].st # "queued", Enqueue(c, k, op, wk), call' \in [Calls -> Call]
  PROVE  LastInv'
<1> DEFINE buf == Buffered(c, k, op)
<1>1. c \notin Callers(pending) \cup Callers(inFlight)
  BY DEF Inv, Accounted
<1>2. /\ buf \in Seq(Entry) /\ Callers(buf) = Callers(pending) \cup {c} /\ Exclusive(buf)
  BY <1>1, BufferedFacts DEF Inv, Accounted
<1>3. /\ call'[c].seq = currentSeq + 1 /\ call'[c].key = k /\ call'[c].op = op /\ call'[c].st = "queued"
      /\ \A d \in Calls \ {c} : call'[d] = call[d]
      /\ currentSeq' = currentSeq + 1 /\ store' = store
  BY DEF Enqueue, Inv, TypeOK
<1>4. /\ currentSeq \in Nat /\ \A d \in Calls : call[d].seq \in Nat /\ call'[d].seq \in Nat
      /\ Callers(pending) \subseteq Calls /\ Callers(inFlight) \subseteq Calls
  BY CallersAreCalls DEF Inv, TypeOK, Call
<1>5. Tells(buf, call') /\ InTurn(buf, call')
  BY <1>1, <1>3, BufferedTells DEF LastInv
<1> HIDE DEF buf
<1>6. Numbered(call', currentSeq + 1)
  <2>1. \A d \in Calls \ {c} : call[d].seq < call'[c].seq
    BY <1>3, <1>4 DEF LastInv, Traced, Numbered
  <2>2. /\ \A d \in Calls : call'[d].seq <= currentSeq + 1
        /\ \A d \in Calls : call'[d].st \in {"queued", "resolved"} => call'[d].seq # 0 /\ call'[d].key \in Keys
    BY <1>3, <1>4, <2>1 DEF LastInv, Traced, Numbered
  <2>3. \A d, e \in Calls : call'[d].seq = call'[e].seq /\ call'[d].seq # 0 => d = e
    BY <1>3, <1>4, <2>1 DEF LastInv, Traced, Numbered
  <2>4. \A d, e \in Calls : call'[d].st = "resolved" /\ call'[e].st = "queued" => call'[d].seq < call'[e].seq
    BY <1>3, <1>4, <2>1 DEF LastInv, Traced, Numbered
  <2>5. QED BY <2>2, <2>3, <2>4 DEF Numbered
<1>7. Tells(inFlight, call') /\ InTurn(inFlight, call')
  <2>1. \A d \in Callers(inFlight) : call'[d] = call[d]
    BY <1>1, <1>3, <1>4
  <2>2. QED BY <2>1, SameTells DEF LastInv, Traced
<1>8. \A x \in Callers(inFlight), d \in Callers(buf) : call'[x].seq < call'[d].seq
  <2>1. \A x \in Calls : call[x].seq < currentSeq + 1
    BY <1>4 DEF LastInv, Traced, Numbered
  <2>2. QED BY <1>1, <1>2, <1>3, <1>4, <2>1 DEF LastInv, Traced
<1>9. Traced(buf, inFlight, call', currentSeq')
  BY <1>3, <1>5, <1>6, <1>7, <1>8 DEF Traced
<1>10. Moves(buf)
  BY FlushMoves DEF Enqueue, buf, Moves, Inv
<1>11. Traced(pending, inFlight, call, currentSeq)'
  BY <1>2, <1>4, <1>9, <1>10, MovesTraced
<1>12. LastWriteWins'
  BY <1>3, LastStays DEF LastInv, Settled
<1>13. QED BY <1>11, <1>12 DEF LastInv

(* Steps that buffer nothing and settle nothing, but may start a batch, or *)
(* turn a held-back call away.                                             *)
LEMMA OthersTrace ==
  ASSUME Inv, LastInv, call' \in [Calls -> Call], Moves(pending), UNCHANGED <<store, currentSeq>>,
         \A c \in Calls : call[c].st \notin {"idle", "blocked"} => call'[c] = call[c],
         \A c \in Calls : call[c].st \in {"idle", "blocked"} =>
                            call'[c].seq = call[c].seq /\ call'[c].st \in {"idle", "blocked", "rejected"}
  PROVE  LastInv'
<1>1. /\ pending \in Seq(Entry) /\ inFlight \in Seq(Entry) /\ Exclusive(pending)
      /\ \A d \in Calls : call[d].seq \in Nat /\ call'[d].seq \in Nat
      /\ Callers(pending) \subseteq Calls /\ Callers(inFlight) \subseteq Calls
  BY CallersAreCalls DEF Inv, TypeOK, Accounted, Call
<1>2. Numbered(call', currentSeq)
  <2>1. \A c \in Calls : call'[c].seq = call[c].seq
    BY DEF Inv, TypeOK, Call
  <2>2. \A c \in Calls : call'[c].st \in {"queued", "resolved"} => call'[c] = call[c]
    BY DEF Inv, TypeOK, Call
  <2>3. QED BY <2>1, <2>2 DEF LastInv, Traced, Numbered
<1>3. \A c \in Callers(pending) \cup Callers(inFlight) : call'[c] = call[c]
  BY <1>1 DEF Inv, Accounted
<1>4. /\ Tells(pending, call') /\ InTurn(pending, call')
      /\ Tells(inFlight, call') /\ InTurn(inFlight, call')
  BY <1>3, SameTells DEF LastInv, Traced
<1>5. Traced(pending, inFlight, call', currentSeq)
  BY <1>2, <1>3, <1>4 DEF LastInv, Traced
<1>6. Traced(pending, inFlight, call, currentSeq)'
  BY <1>1, <1>5, MovesTraced
<1>7. LastWriteWins'
  <2>1. \A c \in Calls : call[c].st \in {"idle", "blocked"} \/ call'[c] = call[c]
    OBVIOUS
  <2>2. QED BY <2>1, LastStays DEF LastInv, Settled
<1>8. QED BY <1>6, <1>7 DEF LastInv

LEMMA InvokeTraces ==
  ASSUME Inv, LastInv, Inv', NEW c \in Calls, NEW k \in Keys, NEW op \in Ops, Invoke(c, k, op)
  PROVE  LastInv'
<1>1. call' \in [Calls -> Call] /\ call \in [Calls -> Call] /\ call[c].st = "idle"
  BY DEF Inv, TypeOK, Invoke
<1>2. CASE Enqueue(c, k, op, woken)
  BY <1>1, <1>2, EnqueueTraces DEF Settled
<1>3. CASE /\ call' = [call EXCEPT ![c] = [@ EXCEPT !.st = "blocked", !.key = k, !.op = op]]
           /\ Flush(c, pending, currentSeq, woken)
           /\ UNCHANGED <<store, currentSeq, completedSeq, flusher>>
  <2>1. Moves(pending)
    BY <1>3, FlushMoves DEF Inv
  <2>2. /\ \A d \in Calls \ {c} : call'[d] = call[d]
        /\ call'[c].seq = call[c].seq /\ call'[c].st = "blocked"
    BY <1>1, <1>3 DEF Call
  <2>3. QED BY <1>1, <1>3, <2>1, <2>2, OthersTrace DEF Call
<1>4. QED BY <1>2, <1>3 DEF Invoke

LEMMA ResumeTraces ==
  ASSUME Inv, LastInv, Inv', NEW w \in woken, Resume(w)
  PROVE  LastInv'
<1>1. call' \in [Calls -> Call] /\ call \in [Calls -> Call]
  BY DEF Inv, TypeOK
<1>2. w.who \in Calls => call[w.who].st = "blocked" /\ call[w.who].key \in Keys /\ call[w.who].op \in Ops
  BY <1>1 DEF Inv, HeldOnce, Call
<1>3. CASE w.who \in Calls /\ Enqueue(w.who, call[w.who].key, call[w.who].op, woken \ {w})
  BY <1>1, <1>2, <1>3, EnqueueTraces DEF Settled
<1>4. CASE /\ w.who \in Calls
           /\ call' = [call EXCEPT ![w.who] = [@ EXCEPT !.st = "rejected"]]
           /\ UNCHANGED <<store, bufferVars, currentSeq>>
  <2>1. Moves(pending)
    BY <1>4 DEF Moves, bufferVars
  <2>2. /\ \A d \in Calls \ {w.who} : call'[d] = call[d]
        /\ call'[w.who].seq = call[w.who].seq /\ call'[w.who].st = "rejected"
    BY <1>1, <1>4 DEF Call
  <2>3. QED BY <1>1, <1>2, <1>4, <2>1, <2>2, OthersTrace DEF Call
<1>5. CASE UNCHANGED <<store, bufferVars, currentSeq, call>>
  <2>1. Moves(pending)
    BY <1>5 DEF Moves, bufferVars
  <2>2. QED BY <1>1, <1>5, <2>1, OthersTrace
<1>6. CASE /\ AwaitFlush([who |-> w.who, target |-> w.target], pending, currentSeq, woken \ {w})
           /\ UNCHANGED <<store, currentSeq, call>>
  <2>1. Moves(pending)
    BY <1>6, FlushMoves DEF Inv
  <2>2. QED BY <1>1, <1>6, <2>1, OthersTrace
<1>7. QED BY <1>3, <1>4, <1>5, <1>6 DEF Resume, LeaveFlush

LEMMA FlushTraces ==
  ASSUME Inv, LastInv, NEW who, Flush(who, pending, currentSeq, woken), UNCHANGED <<store, currentSeq, call>>
  PROVE  LastInv'
<1>1. Moves(pending) /\ call' \in [Calls -> Call]
  BY FlushMoves DEF Inv, TypeOK
<1>2. QED BY <1>1, OthersTrace

(* Of the operations on a key the last that is applied leaves its value.   *)
LEMMA ValueAfterLast ==
  ASSUME TypeOK, NEW A \in SUBSET DOMAIN inFlight, NEW k, \E i \in A : inFlight[i].key = k
  PROVE  \E m \in A : /\ inFlight[m].key = k /\ ValueAfter(A, k) = inFlight[m].item
                      /\ \A i \in A : inFlight[i].key = k => i <= m
<1> DEFINE onK == {i \in A : inFlight[i].key = k}
<1>1. onK \subseteq 1..Len(inFlight) /\ Len(inFlight) \in Nat /\ onK # {}
  BY DEF TypeOK
<1>2. PICK m \in onK : \A i \in onK : m >= i
  BY <1>1, LargestPosition
<1>3. Max(onK) \in onK /\ \A i \in onK : Max(onK) >= i
  BY <1>2 DEF Max
<1>4. ValueAfter(A, k) = inFlight[Max(onK)].item
  BY <1>1 DEF ValueAfter
<1>5. QED BY <1>1, <1>3, <1>4

(* The end of a batch: its calls are settled, whether it was stored or not.*)
LEMMA FinishTraces ==
  ASSUME Inv, LastInv, Inv', active = "running", NEW ok \in BOOLEAN, Finish(ok),
         \A c \in Callers(inFlight) :
           /\ call'[c].st \in {"resolved", "rejected"}
           /\ call'[c].key = call[c].key /\ call'[c].op = call[c].op /\ call'[c].seq = call[c].seq,
         \A c \in Calls \ Callers(inFlight) : call'[c] = call[c]
  PROVE  Traced(pending, inFlight, call, currentSeq)'
<1>1. /\ pending \in Seq(Entry) /\ Exclusive(pending)
      /\ \A d \in Calls : call[d].seq \in Nat /\ call'[d].seq \in Nat
      /\ Callers(pending) \subseteq Calls /\ Callers(inFlight) \subseteq Calls
  BY CallersAreCalls DEF Inv, TypeOK, Accounted, Call
<1>2. \A c \in Calls : call'[c].key = call[c].key /\ call'[c].op = call[c].op /\ call'[c].seq = call[c].seq
  OBVIOUS
<1>3. Numbered(call', currentSeq)
  <2>1. \A c \in Calls : call'[c].st = "queued" => call[c].st = "queued" /\ c \in Callers(pending)
    BY DEF Inv, Accounted
  <2>2. \A c \in Calls : call'[c].st = "resolved" => call[c].st = "resolved" \/ c \in Callers(inFlight)
    OBVIOUS
  <2>3. \A c \in Callers(inFlight) : call[c].st = "queued"
    BY <1>1 DEF Inv, Accounted
  <2>4. \A c, d \in Calls : call'[c].st = "resolved" /\ call'[d].st = "queued" => call[c].seq < call[d].seq
    BY <2>1, <2>2 DEF LastInv, Traced, Numbered
  <2>5. \A c \in Calls : call'[c].st \in {"queued", "resolved"} => call[c].seq # 0 /\ call[c].key \in Keys
    BY <2>1, <2>2, <2>3 DEF LastInv, Traced, Numbered
  <2>6. QED BY <1>2, <2>4, <2>5 DEF LastInv, Traced, Numbered
<1>4. Tells(pending, call') /\ InTurn(pending, call')
  BY <1>1, <1>2, SameTells DEF LastInv, Traced
<1>5. currentSeq' = currentSeq
  BY DEF Finish
<1>6. CASE StartBatch(pending, currentSeq)
  <2>1. Tells(inFlight', call') /\ InTurn(inFlight', call') /\ pending' = <<>>
    BY <1>1, <1>4, <1>6, SnapshotTells DEF StartBatch
  <2>2. QED BY <1>3, <1>5, <2>1, NothingTraced DEF Traced
<1>7. CASE inFlight' = <<>> /\ pending' = pending
  BY <1>3, <1>4, <1>5, <1>7, NothingTraced DEF Traced
<1>8. QED BY <1>6, <1>7 DEF Finish, FollowUp

LEMMA ResolvesTraces ==
  ASSUME Inv, LastInv, Inv', HandlerResolves
  PROVE  LastInv'
<1>1. /\ call \in [Calls -> Call] /\ Callers(inFlight) \subseteq Calls /\ TypeOK
      /\ \A c \in Calls : call[c].seq \in Nat
  BY CallersAreCalls DEF Inv, TypeOK, Call
<1>2. \A c \in Callers(inFlight) :
        /\ call'[c].st = "resolved"
        /\ call'[c].key = call[c].key /\ call'[c].op = call[c].op /\ call'[c].seq = call[c].seq
  <2> SUFFICES ASSUME NEW c \in Callers(inFlight)
               PROVE  /\ call'[c].st = "resolved"
                      /\ call'[c].key = call[c].key /\ call'[c].op = call[c].op /\ call'[c].seq = call[c].seq
    OBVIOUS
  <2>1. PICK r : call'[c] = [call[c] EXCEPT !.st = "resolved", !.res = r]
    BY <1>1 DEF HandlerResolves
  <2>2. call[c] \in Call
    BY <1>1
  <2>3. QED BY <2>1, <2>2 DEF Call
<1>3. \A c \in Calls \ Callers(inFlight) : call'[c] = call[c]
  BY DEF HandlerResolves
<1>4. Traced(pending, inFlight, call, currentSeq)'
  BY <1>2, <1>3, FinishTraces DEF HandlerResolves
<1>5. ASSUME NEW c \in Calls, call'[c].st = "resolved",
             \A d \in Calls : Settled(d)' /\ call'[d].key = call'[c].key => call'[d].seq <= call'[c].seq
      PROVE  store'[call'[c].key] = IF call'[c].op = "set" THEN c ELSE None
  <2> DEFINE k == call[c].key
             A == DOMAIN inFlight
  <2>1. call'[c].key = k /\ call'[c].op = call[c].op /\ call'[c].seq = call[c].seq
    BY <1>2, <1>3
  <2>2. k \in Keys /\ call[c].seq # 0
    <3>1. call[c].st \in {"queued", "resolved"}
      BY <1>3, <1>5 DEF Inv, Accounted
    <3>2. QED BY <3>1 DEF LastInv, Traced, Numbered
  <2>3. store'[k] = ValueAfter(A, k)
    BY <2>2 DEF HandlerResolves
  <2>4. CASE \E i \in A : inFlight[i].key = k
    <3>1. PICK m \in A : /\ inFlight[m].key = k /\ ValueAfter(A, k) = inFlight[m].item
                         /\ \A i \in A : inFlight[i].key = k => i <= m
      BY <1>1, <2>4, ValueAfterLast
    <3>2. PICK x \in inFlight[m].callers : /\ inFlight[m].item = Asked(x, call)
                                           /\ \A d \in inFlight[m].callers : call[d].seq <= call[x].seq
      BY <3>1 DEF LastInv, Traced, Tells
    <3>3. x \in Callers(inFlight) /\ x \in Calls /\ call[x].key = k
      BY <1>1, <3>1, <3>2 DEF LastInv, Traced, Tells, Callers
    <3>4. call[x].seq <= call[c].seq
      BY <1>2, <1>5, <2>1, <3>3 DEF Settled
    <3>5. CASE c \in Callers(inFlight)
      <4>1. PICK i \in A : c \in inFlight[i].callers
        BY <3>5 DEF Callers
      <4>2. inFlight[i].key = k
        BY <4>1 DEF LastInv, Traced, Tells
      <4>3. i <= m /\ i \in Nat /\ m \in Nat
        BY <1>1, <3>1, <4>2 DEF TypeOK
      <4>4. call[c].seq <= call[x].seq
        <5>1. CASE i = m
          BY <3>2, <4>1, <5>1
        <5>2. CASE i < m
          <6>1. call[c].seq < call[x].seq
            BY <3>1, <3>2, <4>1, <4>2, <5>2 DEF LastInv, Traced, InTurn
          <6>2. QED BY <1>1, <3>3, <6>1
        <5>3. QED BY <4>3, <5>1, <5>2
      <4>5. x = c
        BY <1>1, <2>2, <3>3, <3>4, <4>4 DEF LastInv, Traced, Numbered
      <4>6. QED BY <2>1, <2>3, <3>1, <3>2, <4>5 DEF Asked
    <3>6. CASE c \notin Callers(inFlight)
      <4>1. call[c].st = "resolved" /\ call[x].st = "queued"
        BY <1>3, <1>5, <3>3, <3>6 DEF Inv, Accounted
      <4>2. call[c].seq < call[x].seq
        BY <3>3, <4>1 DEF LastInv, Traced, Numbered
      <4>3. QED BY <1>1, <3>3, <3>4, <4>2
    <3>7. QED BY <3>5, <3>6
  <2>5. CASE ~ \E i \in A : inFlight[i].key = k
    <3>1. c \notin Callers(inFlight)
      BY <2>5 DEF LastInv, Traced, Tells, Callers
    <3>2. call'[c] = call[c] /\ store'[k] = store[k]
      BY <1>3, <2>3, <2>5, <3>1 DEF ValueAfter
    <3>3. \A d \in Calls : Settled(d) => call'[d] = call[d]
      BY <1>3 DEF Settled, Inv, Accounted
    <3>4. \A d \in Calls : Settled(d) /\ call[d].key = call[c].key => call[d].seq <= call[c].seq
      BY <1>5, <3>2, <3>3 DEF Settled
    <3>5. QED BY <1>5, <3>2, <3>4 DEF LastInv, LastWriteWins
  <2>6. QED BY <2>4, <2>5
<1>6. QED BY <1>4, <1>5 DEF LastInv, LastWriteWins

LEMMA RejectsTraces ==
  ASSUME Inv, LastInv, Inv', HandlerRejects
  PROVE  LastInv'
<1>1. /\ call \in [Calls -> Call] /\ Callers(inFlight) \subseteq Calls /\ TypeOK
      /\ \A c \in Calls : call[c].seq \in Nat
  BY CallersAreCalls DEF Inv, TypeOK, Call
<1>2. \A c \in Callers(inFlight) :
        /\ call'[c].st = "rejected"
        /\ call'[c].key = call[c].key /\ call'[c].op = call[c].op /\ call'[c].seq = call[c].seq
  BY <1>1 DEF HandlerRejects, Call
<1>3. \A c \in Calls \ Callers(inFlight) : call'[c] = call[c]
  BY DEF HandlerRejects
<1>4. Traced(pending, inFlight, call, currentSeq)'
  BY <1>2, <1>3, FinishTraces DEF HandlerRejects
<1>5. ASSUME NEW c \in Calls, call'[c].st = "resolved",
             \A d \in Calls : Settled(d)' /\ call'[d].key = call'[c].key => call'[d].seq <= call'[c].seq
      PROVE  store'[call'[c].key] = IF call'[c].op = "set" THEN c ELSE None
  <2> DEFINE k == call[c].key
  <2>1. c \notin Callers(inFlight) /\ call'[c] = call[c]
    BY <1>2, <1>3, <1>5
  <2>2. k \in Keys
    BY <1>5, <2>1 DEF LastInv, Traced, Numbered
  <2>3. ~ \E i \in DOMAIN inFlight : inFlight[i].key = k
    <3> SUFFICES ASSUME NEW i \in DOMAIN inFlight, inFlight[i].key = k PROVE FALSE
      OBVIOUS
    <3>1. PICK x \in inFlight[i].callers : call[x].key = k
      BY DEF LastInv, Traced, Tells
    <3>2. x \in Callers(inFlight) /\ x \in Calls
      BY <1>1, <3>1 DEF Callers
    <3>3. call[x].st = "queued" /\ call[c].st = "resolved"
      BY <1>5, <2>1, <3>2 DEF Inv, Accounted
    <3>4. call[c].seq < call[x].seq
      BY <3>2, <3>3 DEF LastInv, Traced, Numbered
    <3>5. call[x].seq <= call[c].seq
      BY <1>2, <1>5, <2>1, <3>1, <3>2 DEF Settled
    <3>6. QED BY <1>1, <3>2, <3>4, <3>5
  <2>4. store'[k] = store[k]
    <3>1. PICK A \in SUBSET DOMAIN inFlight : store' = [q \in Keys |-> ValueAfter(A, q)]
      BY DEF HandlerRejects
    <3>2. QED BY <2>2, <2>3, <3>1 DEF ValueAfter
  <2>5. \A d \in Calls : Settled(d) => call'[d] = call[d]
    BY <1>3 DEF Settled, Inv, Accounted
  <2>6. \A d \in Calls : Settled(d) /\ call[d].key = call[c].key => call[d].seq <= call[c].seq
    BY <1>5, <2>1, <2>5 DEF Settled
  <2>7. QED BY <1>5, <2>1, <2>4, <2>6 DEF LastInv, LastWriteWins
<1>6. QED BY <1>4, <1>5 DEF LastInv, LastWriteWins

LEMMA ClearTraces ==
  ASSUME Inv, LastInv, Inv', Clear
  PROVE  LastInv'
<1>1. /\ call \in [Calls -> Call] /\ Callers(pending) \subseteq Calls /\ Callers(inFlight) \subseteq Calls
      /\ \A c \in Calls : call[c].seq \in Nat
  BY CallersAreCalls DEF Inv, TypeOK, Call
<1>2. /\ \A c \in Callers(pending) :
           /\ call[c].st = "queued" /\ call'[c].st = "rejected"
           /\ call'[c].key = call[c].key /\ call'[c].op = call[c].op /\ call'[c].seq = call[c].seq
      /\ \A c \in Calls \ Callers(pending) : call'[c] = call[c]
  BY <1>1 DEF Clear, Call, Inv, Accounted
<1>3. pending' = <<>> /\ UNCHANGED <<store, inFlight, currentSeq>>
  BY DEF Clear
<1>4. \A c \in Calls : call'[c].key = call[c].key /\ call'[c].op = call[c].op /\ call'[c].seq = call[c].seq
  BY <1>2
<1>5. Tells(inFlight, call') /\ InTurn(inFlight, call')
  BY <1>1, <1>4, SameTells DEF LastInv, Traced
<1>6. Numbered(call', currentSeq)
  <2>1. \A c \in Calls : call'[c].st \in {"queued", "resolved"} => call'[c] = call[c]
    BY <1>2
  <2>2. QED BY <1>4, <2>1 DEF LastInv, Traced, Numbered
<1>7. Traced(pending, inFlight, call, currentSeq)'
  BY <1>3, <1>5, <1>6, NothingTraced DEF Traced
<1>8. LastWriteWins'
  BY <1>2, <1>3, LastStays DEF LastInv, Settled
<1>9. QED BY <1>7, <1>8 DEF LastInv

LEMMA InitTraces == Init => LastInv
<1> SUFFICES ASSUME Init PROVE LastInv
  OBVIOUS
<1>1. \A c \in Calls : call[c].st = "idle" /\ call[c].seq = 0
  BY DEF Init, IdleCall
<1>2. Numbered(call, currentSeq)
  BY <1>1 DEF Init, Numbered
<1>3. LastWriteWins
  BY <1>1 DEF LastWriteWins
<1>4. QED BY <1>2, <1>3, NothingTraced DEF Init, Traced, LastInv

LEMMA NextTraces == Inv /\ Inv' /\ LastInv /\ [Next]_vars => LastInv'
<1> SUFFICES ASSUME Inv, Inv', LastInv, [Next]_vars PROVE LastInv'
  OBVIOUS
<1>1. CASE \E c \in Calls, k \in Keys, op \in Ops : Invoke(c, k, op)
  BY <1>1, InvokeTraces
<1>2. CASE \E f \in Flushers : CallFlush(f)
  BY <1>2, FlushTraces DEF CallFlush
<1>3. CASE TimerFires
  BY <1>3, FlushTraces DEF TimerFires
<1>4. CASE \E w \in woken : Resume(w)
  BY <1>4, ResumeTraces
<1>5. CASE HandlerResolves
  BY <1>5, ResolvesTraces
<1>6. CASE HandlerRejects
  BY <1>6, RejectsTraces
<1>7. CASE Clear
  BY <1>7, ClearTraces
<1>8. CASE UNCHANGED vars
  BY <1>8 DEF vars, bufferVars, LastInv, Traced, LastWriteWins, Settled
<1>9. QED BY <1>1, <1>2, <1>3, <1>4, <1>5, <1>6, <1>7, <1>8 DEF Next

(* Whatever was merged and however the batches were cut, failed or were    *)
(* cleared, the storage holds of a key what its last settled write left    *)
(* there, unless that one was rejected.                                    *)
THEOREM LastWins == Spec => []LastWriteWins
<1>1. Inv /\ LastInv /\ [Next]_vars => (Inv /\ LastInv)'
  BY NextKeeps, NextTraces
<1>2. LastInv => LastWriteWins
  BY DEF LastInv
<1>3. QED BY <1>1, <1>2, InitInv, InitTraces, PTL DEF Spec

-----------------------------------------------------------------------------
(***************************************************************************)
(* The barrier of flush() and the scheduling of flushes, for a batcher on  *)
(* which nobody calls clear() while a batch is in flight.  The sequence    *)
(* numbers divide the writes into those that are settled (up to            *)
(* completedSeq), those in flight (up to batchSeq) and those in the buffer *)
(* (up to currentSeq); an activation of flush() awaits a number that this  *)
(* division gives a meaning.                                               *)
(***************************************************************************)

(* The writes up to Covered are settled or in flight.                      *)
Covered == IF active = "none" THEN completedSeq ELSE batchSeq

(* The division, for a buffer, a number of writes and calls.               *)
Divided(buf, cur, cl) ==
  /\ active \in {"none", "running"}
  /\ active = "running" => completedSeq < batchSeq
  /\ IF buf = <<>> THEN Covered = cur ELSE Covered < cur
  /\ \A c \in Callers(buf) : Covered < cl[c].seq
  /\ \A c \in Callers(inFlight) : completedSeq < cl[c].seq /\ cl[c].seq <= Covered
  /\ \A c \in Calls : cl[c].seq <= cur

(* What the activations ws await; a flusher awaits what it has seen.       *)
Targets(ws, fl, cur) ==
  \A w \in ws : /\ w.target <= cur
                /\ w.who \in Flushers => fl[w.who].st # "idle" /\ w.target = fl[w.who].since

SeqInv ==
  /\ Divided(pending, currentSeq, call)
  /\ Targets(waiting, flusher, currentSeq)
  /\ Targets(woken, flusher, currentSeq)
  /\ FlushScheduled

-----------------------------------------------------------------------------
LEMMA CallersOf ==
  ASSUME TypeOK, NEW c \in Calls, NEW k \in Keys, NEW op \in Ops,
         OneSlot(pending), Exclusive(pending), c \notin Callers(pending)
  PROVE  /\ Callers(Buffered(c, k, op)) = Callers(pending) \cup {c}
         /\ Buffered(c, k, op) \in Seq(Entry) /\ Buffered(c, k, op) # <<>>
         /\ Exclusive(Buffered(c, k, op))
  BY BufferedFacts

(* A turn of flush()'s loop that awaits a number not yet completed.        *)
LEMMA AwaitFlushDivides ==
  ASSUME Inv, NEW who \in Everybody, NEW t \in Nat,
         NEW buf \in Seq(Entry), NEW seq \in Nat, NEW wk,
         AwaitFlush([who |-> who, target |-> t], buf, seq, wk),
         currentSeq' = seq, completedSeq' = completedSeq,
         call' \in [Calls -> Call], Exclusive(buf),
         Divided(buf, seq, call'), completedSeq < t, t <= seq,
         Targets(waiting, flusher', seq), Targets(wk, flusher', seq),
         who \in Flushers => flusher'[who].st # "idle" /\ t = flusher'[who].since
  PROVE  SeqInv'
<1>1. completedSeq \in Nat /\ batchSeq \in Nat /\ \A c \in Calls : call'[c].seq \in Nat
  BY DEF Inv, TypeOK, Call
<1>2. Targets(waiting \cup {[who |-> who, target |-> t]}, flusher', seq)
  BY DEF Targets
<1>3. CASE /\ active = "running" /\ waiting' = waiting \cup {[who |-> who, target |-> t]}
           /\ woken' = wk /\ pending' = buf /\ UNCHANGED <<inFlight, batchSeq, active>>
  BY <1>2, <1>3 DEF SeqInv, Divided, Covered, FlushScheduled
<1>4. CASE /\ active = "none" /\ StartBatch(buf, seq) /\ buf # <<>>
           /\ waiting' = waiting \cup {[who |-> who, target |-> t]} /\ woken' = wk
  <2>1. /\ Callers(inFlight') = Callers(buf) /\ pending' = <<>> /\ batchSeq' = seq
        /\ active' = "running"
    BY <1>4, SnapshotFacts DEF StartBatch
  <2>2. Callers(<<>>) = {} /\ Callers(buf) \subseteq Calls
    BY CallersAreCalls DEF Callers
  <2>3. Divided(pending, currentSeq, call)'
    BY <1>1, <1>4, <2>1, <2>2 DEF Divided, Covered
  <2>4. QED BY <1>2, <1>4, <2>1, <2>3 DEF SeqInv, FlushScheduled
<1>5. CASE active = "none" /\ buf = <<>>
  BY <1>1, <1>5 DEF Divided, Covered
<1>6. QED BY <1>3, <1>4, <1>5 DEF AwaitFlush, Divided, Covered

LEMMA FlushDivides ==
  ASSUME Inv, NEW who \in Everybody,
         NEW buf \in Seq(Entry), NEW seq \in Nat, NEW wk,
         Flush(who, buf, seq, wk),
         currentSeq' = seq, completedSeq' = completedSeq,
         call' \in [Calls -> Call], Exclusive(buf), Divided(buf, seq, call'),
         Targets(waiting, flusher', seq), Targets(wk, flusher', seq),
         who \in Flushers => flusher'[who].st # "idle" /\ seq = flusher'[who].since
  PROVE  SeqInv'
<1>1. completedSeq \in Nat /\ batchSeq \in Nat
  BY DEF Inv, TypeOK
<1>2. CASE completedSeq < seq
  BY <1>1, <1>2, AwaitFlushDivides DEF Flush
<1>3. CASE ~(completedSeq < seq) /\ active # "none"
  BY <1>1, <1>3 DEF Divided, Covered
<1>4. CASE ~(completedSeq < seq) /\ active = "none"
  BY <1>1, <1>4 DEF Flush, Divided, Covered, SeqInv, FlushScheduled
<1>5. QED BY <1>2, <1>3, <1>4

LEMMA EnqueueDivides ==
  ASSUME Inv, SeqInv, NEW c \in Calls, NEW k \in Keys, NEW op \in Ops, NEW wk \in SUBSET woken,
         call[c].st # "queued", Enqueue(c, k, op, wk), call' \in [Calls -> Call]
  PROVE  SeqInv'
<1> DEFINE buf == Buffered(c, k, op)
<1>1. c \notin Callers(pending) \cup Callers(inFlight)
  BY DEF Inv, Accounted
<1>2. /\ buf \in Seq(Entry) /\ buf # <<>> /\ Callers(buf) = Callers(pending) \cup {c}
      /\ Exclusive(buf)
  BY <1>1, CallersOf DEF Inv, Accounted
<1>3. /\ call'[c].seq = currentSeq + 1 /\ \A d \in Calls \ {c} : call'[d] = call[d]
      /\ currentSeq' = currentSeq + 1 /\ completedSeq' = completedSeq /\ flusher' = flusher
  BY DEF Enqueue, Inv, TypeOK
<1>4. /\ completedSeq \in Nat /\ batchSeq \in Nat /\ currentSeq \in Nat
      /\ \A d \in Calls : call[d].seq \in Nat
      /\ Callers(pending) \subseteq Calls /\ Callers(inFlight) \subseteq Calls
  BY CallersAreCalls DEF Inv, TypeOK, Call
<1> HIDE DEF buf
<1>5. Divided(buf, currentSeq + 1, call')
  BY <1>1, <1>2, <1>3, <1>4 DEF SeqInv, Divided, Covered
<1>6. Targets(waiting, flusher', currentSeq + 1) /\ Targets(wk, flusher', currentSeq + 1)
  <2>1. \A w \in waiting \cup woken : w.target \in Nat
    BY DEF Inv, TypeOK, Waiter, Woken
  <2>2. QED BY <1>3, <1>4, <2>1 DEF SeqInv, Targets
<1>7. CASE Flush(Background, buf, currentSeq + 1, wk)
  <2>1. Background \in Everybody /\ Background \notin Flushers
    BY BatcherAssumption DEF Everybody
  <2>2. QED BY <1>2, <1>3, <1>4, <1>5, <1>6, <1>7, <2>1, FlushDivides
<1>8. CASE /\ timer' = TRUE /\ pending' = buf /\ woken' = wk
           /\ UNCHANGED <<inFlight, batchSeq, active, waiting>>
  BY <1>3, <1>5, <1>6, <1>8 DEF SeqInv, Divided, Covered, FlushScheduled
<1>9. QED BY <1>7, <1>8 DEF Enqueue, buf

-----------------------------------------------------------------------------
(* Each action keeps the division.                                         *)

LEMMA InitSeqInv == Init => SeqInv
<1> SUFFICES ASSUME Init PROVE SeqInv
  OBVIOUS
<1>1. Callers(<<>>) = {} /\ \A c \in Calls : call[c].seq = 0
  BY DEF Callers, Init, IdleCall
<1>2. QED BY <1>1 DEF Init, SeqInv, Divided, Covered, Targets, FlushScheduled

LEMMA InvokeDivides ==
  ASSUME Inv, SeqInv, Inv', NEW c \in Calls, NEW k \in Keys, NEW op \in Ops, Invoke(c, k, op)
  PROVE  SeqInv'
<1>1. call' \in [Calls -> Call]
  BY DEF Inv, TypeOK
<1>2. CASE Enqueue(c, k, op, woken)
  BY <1>1, <1>2, EnqueueDivides DEF Invoke
<1>3. CASE /\ call' = [call EXCEPT ![c] = [@ EXCEPT !.st = "blocked", !.key = k, !.op = op]]
           /\ Flush(c, pending, currentSeq, woken)
           /\ UNCHANGED <<store, currentSeq, completedSeq, flusher>>
  <2>1. \A d \in Calls : call'[d].seq = call[d].seq
    BY <1>3 DEF Inv, TypeOK, Call
  <2>2. /\ Callers(pending) \subseteq Calls /\ Callers(inFlight) \subseteq Calls
        /\ pending \in Seq(Entry) /\ currentSeq \in Nat /\ Exclusive(pending)
    BY CallersAreCalls DEF Inv, TypeOK, Accounted
  <2>3. Divided(pending, currentSeq, call')
    BY <2>1, <2>2 DEF SeqInv, Divided, Covered
  <2>4. c \in Everybody /\ c \notin Flushers
    BY BatcherAssumption DEF Everybody
  <2>5. QED BY <1>1, <1>3, <2>2, <2>3, <2>4, FlushDivides DEF SeqInv
<1>4. QED BY <1>2, <1>3 DEF Invoke

LEMMA CallFlushDivides ==
  ASSUME Inv, SeqInv, Inv', NEW f \in Flushers, CallFlush(f)
  PROVE  SeqInv'
<1>1. /\ f \in Everybody /\ pending \in Seq(Entry) /\ currentSeq \in Nat
      /\ Exclusive(pending) /\ call' \in [Calls -> Call]
  BY DEF Everybody, Inv, TypeOK, Accounted
<1>2. /\ flusher[f].st = "idle"
      /\ flusher'[f].st # "idle" /\ flusher'[f].since = currentSeq
      /\ \A g \in Flushers \ {f} : flusher'[g] = flusher[g]
      /\ UNCHANGED <<store, currentSeq, completedSeq, call>>
  BY DEF CallFlush, Inv, TypeOK, Flusher
<1>3. Targets(waiting, flusher', currentSeq) /\ Targets(woken, flusher', currentSeq)
  BY <1>2 DEF SeqInv, Targets
<1>4. Divided(pending, currentSeq, call')
  BY <1>2 DEF SeqInv
<1>5. QED BY <1>1, <1>2, <1>3, <1>4, FlushDivides DEF CallFlush

LEMMA TimerFiresDivides ==
  ASSUME Inv, SeqInv, Inv', TimerFires
  PROVE  SeqInv'
<1>1. /\ Background \in Everybody /\ Background \notin Flushers /\ pending \in Seq(Entry)
      /\ currentSeq \in Nat /\ Exclusive(pending) /\ call' \in [Calls -> Call]
  BY BatcherAssumption DEF Everybody, Inv, TypeOK, Accounted
<1>2. UNCHANGED <<currentSeq, completedSeq, call, flusher>>
  BY DEF TimerFires
<1>3. QED BY <1>1, <1>2, FlushDivides DEF TimerFires, SeqInv

LEMMA ResumeDivides ==
  ASSUME Inv, SeqInv, Inv', NEW w \in woken, Resume(w)
  PROVE  SeqInv'
<1>1. /\ w.who \in Everybody /\ w.target \in Nat /\ pending \in Seq(Entry)
      /\ currentSeq \in Nat /\ Exclusive(pending) /\ call' \in [Calls -> Call]
      /\ woken \ {w} \in SUBSET woken
  BY DEF Everybody, Inv, TypeOK, Woken, Accounted
<1>2. /\ Callers(pending) \subseteq Calls /\ Callers(inFlight) \subseteq Calls
  BY CallersAreCalls DEF Inv, TypeOK
<1>3. CASE LeaveFlush(w)
  <2>1. CASE w.who \in Calls /\ Enqueue(w.who, call[w.who].key, call[w.who].op, woken \ {w})
    <3>1. /\ call[w.who].st # "queued" /\ call[w.who].key \in Keys /\ call[w.who].op \in Ops
      BY <2>1 DEF Inv, HeldOnce, TypeOK, Call
    <3>2. QED BY <1>1, <2>1, <3>1, EnqueueDivides
  <2>2. CASE /\ \A c \in Calls : call'[c].seq = call[c].seq
             /\ \A f \in Flushers : flusher[f].st # "idle" => /\ flusher'[f].st # "idle"
                                                              /\ flusher'[f].since = flusher[f].since
             /\ woken' = woken \ {w}
             /\ UNCHANGED <<store, bufferVars, currentSeq, completedSeq, waiting>>
    <3>1. Divided(pending, currentSeq, call)'
      BY <1>2, <2>2 DEF SeqInv, Divided, Covered, bufferVars
    <3>2. Targets(waiting, flusher, currentSeq)' /\ Targets(woken, flusher, currentSeq)'
      BY <2>2 DEF SeqInv, Targets
    <3>3. QED BY <2>2, <3>1, <3>2 DEF SeqInv, FlushScheduled, bufferVars
  <2>3. CASE /\ w.who \in Calls
             /\ call' = [call EXCEPT ![w.who] = [@ EXCEPT !.st = "rejected"]]
             /\ woken' = woken \ {w}
             /\ UNCHANGED <<store, bufferVars, currentSeq, completedSeq, waiting, flusher>>
    <3>1. \A c \in Calls : call'[c].seq = call[c].seq
      BY <2>3 DEF Inv, TypeOK, Call
    <3>2. QED BY <2>2, <2>3, <3>1
  <2>4. CASE /\ w.who \in Flushers
             /\ flusher' = [flusher EXCEPT ![w.who] =
                              [@ EXCEPT !.st = IF w.ok THEN "returned" ELSE "threw"]]
             /\ woken' = woken \ {w}
             /\ UNCHANGED <<store, bufferVars, currentSeq, completedSeq, waiting, call>>
    <3>1. \A f \in Flushers : flusher[f].st # "idle" => /\ flusher'[f].st # "idle"
                                                        /\ flusher'[f].since = flusher[f].since
      BY <2>4 DEF Inv, TypeOK, Flusher
    <3>2. QED BY <2>2, <2>4, <3>1
  <2>5. CASE /\ woken' = woken \ {w}
             /\ UNCHANGED <<store, bufferVars, currentSeq, completedSeq, waiting, call, flusher>>
    BY <2>2, <2>5
  <2>6. QED BY <1>3, <2>1, <2>3, <2>4, <2>5 DEF LeaveFlush
<1>4. CASE /\ w.ok /\ completedSeq < w.target
           /\ AwaitFlush([who |-> w.who, target |-> w.target], pending, currentSeq, woken \ {w})
           /\ UNCHANGED <<store, timer, currentSeq, completedSeq, call, flusher>>
  <2>1. /\ Targets(waiting, flusher', currentSeq) /\ Targets(woken \ {w}, flusher', currentSeq)
        /\ w.target <= currentSeq /\ Divided(pending, currentSeq, call')
        /\ w.who \in Flushers => flusher'[w.who].st # "idle" /\ w.target = flusher'[w.who].since
    BY <1>4 DEF SeqInv, Targets
  <2>2. QED BY <1>1, <1>4, <2>1, AwaitFlushDivides
<1>5. QED BY <1>3, <1>4 DEF Resume

LEMMA FinishDivides ==
  ASSUME Inv, SeqInv, Inv', active = "running", NEW ok \in BOOLEAN, Finish(ok),
         \A c \in Calls : call'[c].seq = call[c].seq
  PROVE  SeqInv'
<1>1. /\ Callers(pending) \subseteq Calls /\ pending \in Seq(Entry) /\ Exclusive(pending)
      /\ batchSeq \in Nat /\ currentSeq \in Nat /\ Callers(<<>>) = {}
      /\ \A c \in Calls : call[c].seq \in Nat
  BY CallersAreCalls DEF Inv, TypeOK, Accounted, Call, Callers
<1>2. completedSeq' = batchSeq /\ currentSeq' = currentSeq /\ flusher' = flusher
  BY DEF Finish
<1>3. Targets(woken, flusher, currentSeq)'
  <2>1. \A w \in woken' : w \in woken \/ \E v \in waiting : w.who = v.who /\ w.target = v.target
    BY DEF Finish, WokenBy
  <2>2. QED BY <1>2, <2>1 DEF SeqInv, Targets
<1>4. CASE /\ pending # <<>> /\ StartBatch(pending, currentSeq) /\ timer' = FALSE
           /\ waiting' = {[who |-> Background, target |-> currentSeq]}
  <2>1. /\ Callers(inFlight') = Callers(pending) /\ pending' = <<>> /\ batchSeq' = currentSeq
        /\ active' = "running"
    BY <1>1, <1>4, SnapshotFacts DEF StartBatch
  <2>2. Divided(pending, currentSeq, call)'
    BY <1>1, <1>2, <1>4, <2>1 DEF SeqInv, Divided, Covered
  <2>3. Targets(waiting, flusher, currentSeq)'
    BY <1>1, <1>2, <1>4, BatcherAssumption DEF Targets
  <2>4. QED BY <1>3, <2>1, <2>2, <2>3 DEF SeqInv, FlushScheduled
<1>5. CASE /\ inFlight' = <<>> /\ active' = "none" /\ waiting' = {}
           /\ timer' = (timer \/ pending # <<>>)
           /\ UNCHANGED <<pending, batchSeq>>
  <2>1. Divided(pending, currentSeq, call)'
    BY <1>1, <1>2, <1>5 DEF SeqInv, Divided, Covered
  <2>2. QED BY <1>3, <1>5, <2>1 DEF SeqInv, FlushScheduled, Targets
<1>6. Len(pending) >= MaxBatchSize => pending # <<>>
  BY BatcherAssumption
<1>7. QED BY <1>4, <1>5, <1>6 DEF Finish, FollowUp

LEMMA HandlerDivides ==
  ASSUME Inv, SeqInv, Inv', HandlerResolves \/ HandlerRejects
  PROVE  SeqInv'
<1>1. call \in [Calls -> Call]
  BY DEF Inv, TypeOK
<1>2. CASE HandlerResolves
  <2>1. \A c \in Calls : call'[c].seq = call[c].seq
    BY <1>1, <1>2 DEF HandlerResolves, Call
  <2>2. QED BY <1>2, <2>1, FinishDivides DEF HandlerResolves
<1>3. CASE HandlerRejects
  <2>1. \A c \in Calls : call'[c].seq = call[c].seq
    BY <1>1, <1>3 DEF HandlerRejects, Call
  <2>2. QED BY <1>3, <2>1, FinishDivides DEF HandlerRejects
<1>4. QED BY <1>2, <1>3

(* Without a batch in flight clear() leaves nothing that is not settled.   *)
LEMMA ClearDivides ==
  ASSUME ClearWhen # "any", Inv, SeqInv, Inv', Clear
  PROVE  SeqInv'
<1>1. /\ active = "none" /\ pending' = <<>> /\ completedSeq' = currentSeq
      /\ UNCHANGED <<inFlight, batchSeq, active, currentSeq, waiting, woken, flusher>>
  BY DEF Clear, MayClear
<1>2. inFlight = <<>> /\ Callers(<<>>) = {}
  BY <1>1 DEF Inv, Quiet, Callers
<1>3. \A c \in Calls : call'[c].seq = call[c].seq
  BY DEF Clear, Inv, TypeOK, Call
<1>4. Divided(pending, currentSeq, call)'
  BY <1>1, <1>2, <1>3 DEF SeqInv, Divided, Covered
<1>5. QED BY <1>1, <1>4 DEF SeqInv, Targets, FlushScheduled

LEMMA NextDivides ==
  ASSUME ClearWhen # "any"
  PROVE  Inv /\ Inv' /\ SeqInv /\ [Next]_vars => SeqInv'
<1> SUFFICES ASSUME Inv, Inv', SeqInv, [Next]_vars PROVE SeqInv'
  OBVIOUS
<1>1. CASE \E c \in Calls, k \in Keys, op \in Ops : Invoke(c, k, op)
  BY <1>1, InvokeDivides
<1>2. CASE \E f \in Flushers : CallFlush(f)
  BY <1>2, CallFlushDivides
<1>3. CASE TimerFires
  BY <1>3, TimerFiresDivides
<1>4. CASE \E w \in woken : Resume(w)
  BY <1>4, ResumeDivides
<1>5. CASE HandlerResolves \/ HandlerRejects
  BY <1>5, HandlerDivides
<1>6. CASE UNCHANGED vars
  BY <1>6 DEF vars, bufferVars, SeqInv, Divided, Covered, Targets, FlushScheduled
<1>7. CASE Clear
  BY <1>7, ClearDivides
<1>8. QED BY <1>1, <1>2, <1>3, <1>4, <1>5, <1>6, <1>7 DEF Next

(* Unless clear() meets a batch in flight, the division of the writes is inductive relative to    *)
(* Inv.                                                                    *)
THEOREM SeqInvariance ==
  ASSUME ClearWhen # "any"
  PROVE  Spec => [](Inv /\ SeqInv)
<1>1. Inv /\ SeqInv /\ [Next]_vars => (Inv /\ SeqInv)'
  BY NextKeeps, NextDivides
<1>2. QED BY <1>1, InitInv, InitSeqInv, PTL DEF Spec

(* Unless clear() meets a batch in flight, buffered writes always have a timer or a running batch *)
(* that will come to them.                                                 *)
THEOREM AlwaysScheduled ==
  ASSUME ClearWhen # "any"
  PROVE  Spec => []FlushScheduled
<1>1. SeqInv => FlushScheduled
  BY DEF SeqInv
<1>2. QED BY <1>1, SeqInvariance, PTL

LEMMA DividedBehind == Inv /\ SeqInv => SeqBehindUnsettled
<1> SUFFICES ASSUME Inv, SeqInv, NEW c \in Calls, call[c].st = "queued"
             PROVE  completedSeq < call[c].seq
  BY DEF SeqBehindUnsettled
<1>1. completedSeq \in Nat /\ batchSeq \in Nat /\ call[c].seq \in Nat
  BY DEF Inv, TypeOK, Call
<1>2. c \in Callers(pending) \cup Callers(inFlight)
  BY DEF Inv, Accounted
<1>3. QED BY <1>1, <1>2 DEF SeqInv, Divided, Covered

(* Unless clear() meets a batch in flight, completedSeq never runs ahead of an unsettled write.   *)
THEOREM CompletedBehind ==
  ASSUME ClearWhen # "any"
  PROVE  Spec => []SeqBehindUnsettled
  BY DividedBehind, SeqInvariance, PTL

(* Unless clear() meets a batch in flight, an explicit flush() returns only when every write      *)
(* buffered before it was called has been settled.                         *)
THEOREM Barrier ==
  ASSUME ClearWhen # "any"
  PROVE  Spec => FlushBarrier
<1> DEFINE A == \A f \in Flushers : flusher[f].st # "returned" /\ flusher'[f].st = "returned" =>
                  \A c \in Calls : call[c].st = "queued" => call[c].seq > flusher'[f].since
<1>1. Inv /\ SeqInv /\ [Next]_vars => [A]_vars
  <2> SUFFICES ASSUME Inv, SeqInv, Next, NEW f \in Flushers,
                      flusher[f].st # "returned", flusher'[f].st = "returned",
                      NEW c \in Calls, call[c].st = "queued"
               PROVE  call[c].seq > flusher'[f].since
    BY DEF A
  <2>1. /\ completedSeq < call[c].seq /\ completedSeq \in Nat /\ call[c].seq \in Nat
        /\ currentSeq \in Nat /\ flusher \in [Flushers -> Flusher]
    BY DividedBehind DEF SeqBehindUnsettled, Inv, TypeOK, Call
  <2>2. CASE \E g \in Flushers : CallFlush(g)
    <3>1. completedSeq >= currentSeq /\ flusher'[f].since = currentSeq
      BY <2>1, <2>2 DEF CallFlush, Flusher
    <3>2. QED BY <2>1, <3>1
  <2>3. CASE \E w \in woken : Resume(w)
    <3>1. PICK w \in woken : Resume(w)
      BY <2>3
    <3>2. w.who = f /\ w.ok /\ flusher'[f].since = flusher[f].since
      BY <2>1, <3>1 DEF Resume, LeaveFlush, Enqueue, Flusher
    <3>3. completedSeq >= w.target
      BY <3>1, <3>2 DEF Resume
    <3>4. w.target = flusher[f].since
      BY <3>2 DEF SeqInv, Targets
    <3>5. flusher[f].since \in Nat
      BY <2>1 DEF Flusher
    <3>6. QED BY <2>1, <3>2, <3>3, <3>4, <3>5
  <2>4. CASE flusher' = flusher
    BY <2>4
  <2>5. QED
    BY <2>2, <2>3, <2>4 DEF Next, Invoke, Enqueue, TimerFires, HandlerResolves, HandlerRejects, Finish, Clear
<1>2. QED BY <1>1, SeqInvariance, PTL DEF Spec, FlushBarrier

=============================================================================
