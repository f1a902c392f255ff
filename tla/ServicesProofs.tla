--------------------------- MODULE ServicesProofs ---------------------------
(***************************************************************************)
(* Proofs about the services built on tables, for any number of processes, *)
(* calls, tiers, chunks, values and workers.  A service has an invariant   *)
(* of its own; then they are put together.  The last part is about         *)
(* SchemaTable, for any number of calls, keys, marks and attempts.         *)
(***************************************************************************)
EXTENDS Services, SchemaTable, SequenceTheorems, TLAPS

-----------------------------------------------------------------------------
(* PubSub                                                                  *)

(* What the proofs need to know of the types.                              *)
Counters ==
  /\ now \in Nat /\ now > 0
  /\ stamp \in [Messages -> Nat] /\ last \in [Processes -> Nat]
  /\ listeners \in [Handlers -> Nat]
  /\ heard \in [Handlers -> [Messages -> Nat]]
  /\ posts \subseteq Messages
  /\ polls \in [Processes -> SUBSET SUBSET Messages]

(* What was stored or found was published.                                 *)
Stamped ==
  /\ \A m \in sending \cup posts : stamp[m] # 0
  /\ \A p \in Processes : \A F \in polls[p] : \A m \in F : stamp[m] # 0

(* What a handler has heard from another process lies behind the           *)
(* high-water mark of its own.                                             *)
Behind ==
  \A h \in Handlers, m \in Messages :
    Sender[m] # Home[h] /\ heard[h][m] > 0 => stamp[m] # 0 /\ stamp[m] <= last[Home[h]]

MessageInv == Counters /\ sending \subseteq Messages /\ Stamped /\ Behind

-----------------------------------------------------------------------------
(* The high-water mark of a process that delivers is the latest timestamp  *)
(* of what it processes, if it processes anything.                         *)
LEMMA MarkMoves ==
  ASSUME MessageInv, NEW p \in Processes, NEW F \in polls[p],
         IF P!Beyond(F, p) = {} THEN UNCHANGED last
         ELSE \E m \in P!Beyond(F, p) : /\ \A k \in P!Beyond(F, p) : stamp[k] <= stamp[m]
                                      /\ last' = [last EXCEPT ![p] = stamp[m]]
  PROVE  /\ last' \in [Processes -> Nat]
         /\ \A q \in Processes : last[q] <= last'[q]
         /\ \A k \in P!Beyond(F, p) : stamp[k] <= last'[p]
<1>1. P!Beyond(F, p) \subseteq Messages
  BY DEF MessageInv, Counters, P!Beyond
<1>2. CASE P!Beyond(F, p) = {}
  BY <1>2 DEF MessageInv, Counters
<1>3. CASE P!Beyond(F, p) # {}
  <2>1. PICK m \in P!Beyond(F, p) : /\ \A k \in P!Beyond(F, p) : stamp[k] <= stamp[m]
                                  /\ last' = [last EXCEPT ![p] = stamp[m]]
    BY <1>3
  <2>2. stamp[m] \in Nat /\ stamp[m] > last[p]
    BY <1>1 DEF MessageInv, Counters, P!Beyond
  <2>3. QED
    BY <2>1, <2>2 DEF MessageInv, Counters
<1>4. QED
  BY <1>2, <1>3

-----------------------------------------------------------------------------
LEMMA MessageInit ==
  P!Init => MessageInv
BY ServicesAssumption DEF P!PubSubAssumption, P!Init, MessageInv, Counters, Stamped, Behind

(* Every step keeps the invariant, and is heard in order.                  *)
LEMMA MessageStep ==
  ASSUME MessageInv, P!Next
  PROVE  MessageInv' /\ \A h \in Handlers, m \in Messages, k \in Messages :
                   /\ Sender[m] # Home[h] /\ Sender[k] # Home[h]
                   /\ heard[h][k] > 0 /\ heard'[h][m] > heard[h][m]
                   => stamp[k] < stamp[m]
<1> USE ServicesAssumption DEF P!PubSubAssumption
<1>1. ASSUME NEW m \in Messages, P!Publish(m)
      PROVE  MessageInv' /\ \A h \in Handlers, x \in Messages : Sender[x] # Home[h] => heard'[h][x] = heard[h][x]
  <2>1. m \notin sending \cup posts /\ stamp[m] = 0
    BY <1>1 DEF P!Publish, P!Published, MessageInv, Stamped
  <2>2. \A h \in Handlers, x \in Messages : heard'[h][x] \in Nat
                                            /\ (Sender[x] # Home[h] => heard'[h][x] = heard[h][x])
    BY <1>1 DEF P!Publish, MessageInv, Counters
  <2>3. heard' \in [Handlers -> [Messages -> Nat]]
    <3>1. \A h \in Handlers : heard'[h] \in [Messages -> Nat]
      BY <1>1 DEF P!Publish, MessageInv, Counters
    <3>2. QED
      BY <1>1, <3>1 DEF P!Publish
  <2>4. /\ stamp' \in [Messages -> Nat] /\ stamp'[m] # 0
        /\ \A x \in Messages \ {m} : stamp'[x] = stamp[x]
    BY <1>1 DEF P!Publish, MessageInv, Counters
  <2>5. Counters' /\ sending' \subseteq Messages
    BY <1>1, <2>3, <2>4 DEF P!Publish, MessageInv, Counters
  <2>6. Stamped'
    BY <1>1, <2>4 DEF P!Publish, MessageInv, Counters, Stamped
  <2>7. Behind'
    BY <1>1, <2>1, <2>2, <2>4 DEF P!Publish, MessageInv, Counters, Behind
  <2>8. QED
    BY <2>2, <2>5, <2>6, <2>7 DEF MessageInv
<1>2. ASSUME NEW p \in Processes, P!PollDelivers(p)
      PROVE  MessageInv' /\ \A h \in Handlers, m \in Messages, k \in Messages :
                       /\ Sender[m] # Home[h] /\ Sender[k] # Home[h]
                       /\ heard[h][k] > 0 /\ heard'[h][m] > heard[h][m]
                       => stamp[k] < stamp[m]
  <2>1. PICK F \in polls[p] :
          /\ polls' = [polls EXCEPT ![p] = @ \ {F}]
          /\ \E X \in SUBSET P!Beyond(F, p) :
               heard' = [h \in Handlers |-> [m \in Messages |->
                 IF Home[h] = p /\ m \in X /\ P!Reaches(m, h) THEN heard[h][m] + 1 ELSE heard[h][m]]]
          /\ IF P!Beyond(F, p) = {} THEN UNCHANGED last
             ELSE \E m \in P!Beyond(F, p) : /\ \A k \in P!Beyond(F, p) : stamp[k] <= stamp[m]
                                          /\ last' = [last EXCEPT ![p] = stamp[m]]
          /\ UNCHANGED <<now, stamp, sending, posts, listeners>>
    BY <1>2 DEF P!PollDelivers
  <2>2. /\ last' \in [Processes -> Nat]
        /\ \A q \in Processes : last[q] <= last'[q]
        /\ \A k \in P!Beyond(F, p) : stamp[k] <= last'[p]
    BY <2>1, MarkMoves
  <2>3. \A h \in Handlers, m \in Messages :
          heard'[h][m] # heard[h][m] => Home[h] = p /\ m \in P!Beyond(F, p)
    BY <2>1 DEF MessageInv, Counters
  <2>4. heard' \in [Handlers -> [Messages -> Nat]]
    BY <2>1 DEF MessageInv, Counters
  <2>5. \A m \in P!Beyond(F, p) : stamp[m] \in Nat /\ stamp[m] # 0 /\ stamp[m] > last[p]
    BY DEF MessageInv, Counters, Stamped, P!Beyond
  <2>6. polls' \in [Processes -> SUBSET SUBSET Messages] /\ \A q \in Processes : polls'[q] \subseteq polls[q]
    BY <2>1 DEF MessageInv, Counters
  <2>7. Counters' /\ sending' \subseteq Messages /\ Stamped'
    BY <2>1, <2>2, <2>4, <2>6 DEF MessageInv, Counters, Stamped
  <2>8. Behind'
    <3>1. SUFFICES ASSUME NEW h \in Handlers, NEW m \in Messages, Sender[m] # Home[h], heard'[h][m] > 0
                   PROVE  stamp[m] # 0 /\ stamp[m] <= last'[Home[h]]
      BY <2>1 DEF Behind
    <3>2. Home[h] \in Processes /\ stamp[m] \in Nat /\ last[Home[h]] \in Nat /\ last'[Home[h]] \in Nat
      BY <2>2 DEF MessageInv, Counters
    <3>3. CASE heard'[h][m] # heard[h][m]
      BY <2>2, <2>3, <2>5, <3>3
    <3>4. CASE heard'[h][m] = heard[h][m]
      BY <2>2, <3>1, <3>2, <3>4 DEF MessageInv, Behind
    <3>5. QED
      BY <3>3, <3>4
  <2>9. ASSUME NEW h \in Handlers, NEW m \in Messages, NEW k \in Messages,
               Sender[m] # Home[h], Sender[k] # Home[h], heard[h][k] > 0, heard'[h][m] > heard[h][m]
        PROVE  stamp[k] < stamp[m]
    <3>1. Home[h] = p /\ m \in P!Beyond(F, p)
      BY <2>3, <2>9 DEF MessageInv, Counters
    <3>2. stamp[k] <= last[p] /\ last[p] \in Nat /\ stamp[k] \in Nat
      BY <2>9, <3>1 DEF MessageInv, Counters, Behind
    <3>3. QED
      BY <2>5, <3>1, <3>2
  <2>10. QED
    BY <2>7, <2>8, <2>9 DEF MessageInv
<1>3. CASE \E m \in Messages : P!Stores(m) \/ P!StoreFails(m) \/ P!Expires(m)
  <2>1. /\ UNCHANGED <<now, stamp, last, listeners, heard, polls>>
        /\ posts' \cup sending' \subseteq posts \cup sending
    BY <1>3 DEF P!Stores, P!StoreFails, P!Expires
  <2>2. QED
    BY <2>1 DEF MessageInv, Counters, Stamped, Behind
<1>4. CASE \E h \in Handlers : P!Subscribe(h) \/ P!Unsubscribe(h)
  <2>1. UNCHANGED <<now, stamp, last, heard, polls, posts, sending>> /\ listeners' \in [Handlers -> Nat]
    <3>1. ASSUME NEW h \in Handlers, P!Subscribe(h)
          PROVE  UNCHANGED <<now, stamp, last, heard, polls, posts, sending>> /\ listeners' \in [Handlers -> Nat]
      BY <3>1 DEF P!Subscribe, MessageInv, Counters
    <3>2. ASSUME NEW h \in Handlers, P!Unsubscribe(h)
          PROVE  UNCHANGED <<now, stamp, last, heard, polls, posts, sending>> /\ listeners' \in [Handlers -> Nat]
      BY <3>2 DEF P!Unsubscribe, MessageInv, Counters
    <3>3. QED BY <1>4, <3>1, <3>2
  <2>2. QED
    BY <2>1 DEF MessageInv, Counters, Stamped, Behind
<1>5. ASSUME NEW p \in Processes, P!Close(p) \/ P!PollFails(p)
      PROVE  MessageInv' /\ heard' = heard
  <2>1. /\ UNCHANGED <<now, stamp, last, heard, posts, sending>> /\ listeners' \in [Handlers -> Nat]
        /\ polls' \in [Processes -> SUBSET SUBSET Messages]
        /\ \A q \in Processes : polls'[q] \subseteq polls[q]
    <3>1. CASE P!Close(p)
      BY <3>1 DEF P!Close, MessageInv, Counters
    <3>2. CASE P!PollFails(p)
      BY <3>2 DEF P!PollFails, MessageInv, Counters
    <3>3. QED
      BY <1>5, <3>1, <3>2
  <2>2. QED
    BY <2>1 DEF MessageInv, Counters, Stamped, Behind
<1>6. ASSUME NEW p \in Processes, P!PollFinds(p)
      PROVE  MessageInv' /\ heard' = heard
  <2>1. PICK F \in P!Listing({m \in posts : stamp[m] > last[p]}) : polls' = [polls EXCEPT ![p] = @ \cup {F}]
    BY <1>6 DEF P!PollFinds
  <2>2. F \subseteq posts
    BY DEF P!Listing
  <2>3. UNCHANGED <<now, stamp, last, heard, posts, sending, listeners>>
    BY <1>6 DEF P!PollFinds
  <2>4. polls' \in [Processes -> SUBSET SUBSET Messages]
    BY <2>1, <2>2 DEF MessageInv, Counters
  <2>5. \A q \in Processes : \A G \in polls'[q] : \A m \in G : stamp[m] # 0
    BY <2>1, <2>2 DEF MessageInv, Counters, Stamped
  <2>6. QED
    BY <2>3, <2>4, <2>5 DEF MessageInv, Counters, Stamped, Behind
<1>7. ASSUME P!Tick PROVE MessageInv' /\ heard' = heard
  BY <1>7 DEF P!Tick, MessageInv, Counters, Stamped, Behind
<1>8. ASSUME heard' = heard
      PROVE  \A h \in Handlers, m \in Messages : ~(heard'[h][m] > heard[h][m])
  BY <1>8 DEF MessageInv, Counters
<1>9. \A h \in Handlers, m \in Messages : heard[h][m] \in Nat
  BY DEF MessageInv, Counters
<1>10. CASE \E m \in Messages : P!Publish(m)
  BY <1>1, <1>9, <1>10
<1>11. CASE \E m \in Messages : P!Stores(m) \/ P!StoreFails(m) \/ P!Expires(m)
  BY <1>3, <1>8, <1>11 DEF P!Stores, P!StoreFails, P!Expires
<1>12. CASE \E h \in Handlers : P!Subscribe(h) \/ P!Unsubscribe(h)
  BY <1>4, <1>8, <1>12 DEF P!Subscribe, P!Unsubscribe
<1>13. QED
  BY <1>2, <1>5, <1>6, <1>7, <1>8, <1>10, <1>11, <1>12 DEF P!Next

-----------------------------------------------------------------------------
(* RateLimiter                                                             *)

(* A window is longer than a call may be under way, and so much longer     *)
(* that a call which ends in the next one cannot owe it a token.           *)
CallsAreQuick == MaxDelay <= Window /\ Limit * MaxDelay < Window

Consumer == [pc: {"idle", "read", "add", "granted", "refused", "failed"},
             at: Nat, tokens: Nat, prev: Nat, before: Nat]

(* Types; a call under way began in a window that has one before.          *)
LimitTypes ==
  /\ clock \in Nat /\ Window <= clock /\ clock <= LastTime /\ resets \in Nat
  /\ counter \in [L!Windows -> [count: Nat, until: Nat]]
  /\ consumer \in [Consumptions -> Consumer]
  /\ granted \in [L!Windows -> Nat]
  /\ \A c \in Consumptions : consumer[c].pc \in {"read", "add"} =>
       Window <= consumer[c].at /\ consumer[c].at <= clock /\ clock <= consumer[c].at + MaxDelay

(* The counter of a window that has granted tokens has counted them, and   *)
(* lives until the window after is over.                                   *)
AllCounted ==
  resets = 0 => \A w \in L!Windows : granted[w] # 0 =>
    granted[w] <= counter[w].count /\ granted[w] <= Limit /\ (w + 2) * Window <= counter[w].until

(* Who has read has read of all that the window before had granted, or     *)
(* its share is less than a token.                                         *)
AllSeen ==
  resets = 0 => \A c \in Consumptions : consumer[c].pc = "add" =>
    consumer[c].before <= consumer[c].prev \/ L!Weighted(consumer[c].before, consumer[c].at) = 0

LimitInv == LimitTypes /\ (CallsAreQuick => AllCounted /\ AllSeen)

LEMMA LimitConstants ==
  /\ Limit \in Nat /\ LastTime \in Nat /\ MaxDelay \in Nat /\ Tokens \subseteq Nat
  /\ Window \in Nat /\ Window > 0 /\ Window <= LastTime
BY ServicesAssumption DEF L!RateLimiterAssumption

(* Division.                                                               *)
LEMMA Quotients ==
  ASSUME NEW p \in Nat, p > 0, NEW a \in Nat
  PROVE  /\ a \div p \in Nat /\ a % p \in 0..(p - 1)
         /\ a = (p * (a \div p)) + (a % p)
OBVIOUS

LEMMA QuotientsGrow ==
  ASSUME NEW p \in Nat, p > 0, NEW a \in Nat, NEW b \in Nat, a <= b
  PROVE  a \div p <= b \div p
<1> DEFINE q == a \div p
<1> DEFINE r == b \div p
<1>1. q \in Nat /\ r \in Nat /\ p * q <= a /\ b < (p * r) + p
  BY Quotients
<1> HIDE DEF q, r
<1>2. CASE q >= r + 1
  <2>1. p * q >= p * (r + 1)
    BY <1>1, <1>2
  <2>2. p * (r + 1) = (p * r) + p
    BY <1>1
  <2>3. p * q \in Nat /\ p * r \in Nat
    BY <1>1
  <2>4. QED BY <1>1, <2>1, <2>2, <2>3
<1>3. QED BY <1>1, <1>2 DEF q, r

LEMMA LessThanOne ==
  ASSUME NEW p \in Nat, p > 0, NEW a \in Nat, a < p
  PROVE  a \div p = 0
<1> DEFINE q == a \div p
<1>1. q \in Nat /\ p * q <= a
  BY Quotients
<1> HIDE DEF q
<1>2. CASE q >= 1
  <2>1. p * q >= p
    BY <1>1, <1>2
  <2>2. QED BY <1>1, <2>1
<1>3. QED BY <1>1, <1>2 DEF q

LEMMA ProductsGrow ==
  ASSUME NEW a \in Nat, NEW b \in Nat, NEW k \in Nat, a <= b
  PROVE  a * k <= b * k /\ k * a <= k * b /\ a * k \in Nat
OBVIOUS

(* Where a time lies.                                                      *)
LEMMA WindowOfTime ==
  ASSUME NEW t \in Nat, Window <= t, t <= LastTime
  PROVE  /\ L!WindowOf(t) \in L!Windows /\ L!WindowOf(t) - 1 \in L!Windows
         /\ L!WindowOf(t) \in Nat /\ L!WindowOf(t) >= 1
         /\ L!ElapsedAt(t) \in 0..(Window - 1)
         /\ t = (L!WindowOf(t) * Window) + L!ElapsedAt(t)
<1> DEFINE w == L!WindowOf(t)
<1>1. /\ w \in Nat /\ L!ElapsedAt(t) \in 0..(Window - 1)
      /\ t = (Window * w) + L!ElapsedAt(t)
  BY Quotients, LimitConstants DEF L!WindowOf, L!ElapsedAt
<1>2. w <= LastTime \div Window /\ LastTime \div Window \in Nat
  BY QuotientsGrow, Quotients, LimitConstants DEF L!WindowOf
<1> HIDE DEF w
<1>3. w # 0
  BY <1>1, LimitConstants
<1>4. Window * w = w * Window
  BY <1>1, LimitConstants
<1>5. QED BY <1>1, <1>2, <1>3, <1>4, LimitConstants DEF L!Windows, w

(* The share of more tokens is no less.                                    *)
LEMMA SharesGrow ==
  ASSUME NEW t \in Nat, NEW a \in Nat, NEW b \in Nat, a <= b
  PROVE  L!Weighted(a, t) <= L!Weighted(b, t) /\ L!Weighted(a, t) \in Nat
<1>1. Window - L!ElapsedAt(t) \in Nat
  BY Quotients, LimitConstants DEF L!ElapsedAt
<1>2. a * (Window - L!ElapsedAt(t)) \in Nat /\ b * (Window - L!ElapsedAt(t)) \in Nat
      /\ a * (Window - L!ElapsedAt(t)) <= b * (Window - L!ElapsedAt(t))
  BY <1>1, ProductsGrow
<1>3. QED BY <1>2, QuotientsGrow, Quotients, LimitConstants DEF L!Weighted

LEMMA LimitInit == L!Init => LimitInv
<1> SUFFICES ASSUME L!Init PROVE LimitInv
  OBVIOUS
<1>1. L!Idle \in Consumer /\ L!Idle.pc = "idle"
  BY DEF L!Idle, Consumer
<1>2. LimitTypes
  BY <1>1, LimitConstants DEF L!Init, LimitTypes
<1>3. AllCounted /\ AllSeen
  BY <1>1 DEF L!Init, AllCounted, AllSeen
<1>4. QED BY <1>2, <1>3 DEF LimitInv

(* A call goes to n.                                                       *)
LEMMA ConsumerMoves ==
  ASSUME LimitTypes, NEW c \in Consumptions, NEW n \in Consumer, consumer' = [consumer EXCEPT ![c] = n]
  PROVE  /\ consumer' \in [Consumptions -> Consumer] /\ consumer'[c] = n
         /\ \A d \in Consumptions : d = c \/ consumer'[d] = consumer[d]
BY DEF LimitTypes

(* Calls that change no counter.                                           *)
LEMMA ConsumerAlone ==
  ASSUME LimitInv, NEW c \in Consumptions, NEW n \in Consumer, consumer' = [consumer EXCEPT ![c] = n],
         UNCHANGED <<clock, counter, granted, resets>>,
         n.pc \notin {"read", "add"}
  PROVE  LimitInv'
<1>1. /\ consumer' \in [Consumptions -> Consumer] /\ consumer'[c] = n
      /\ \A d \in Consumptions : d = c \/ consumer'[d] = consumer[d]
  BY ConsumerMoves DEF LimitInv
<1>2. LimitTypes'
  BY <1>1 DEF LimitInv, LimitTypes
<1>3. AllCounted => AllCounted'
  BY DEF AllCounted
<1>4. AllSeen => AllSeen'
  BY <1>1 DEF AllSeen, L!Weighted, L!ElapsedAt
<1>5. QED BY <1>2, <1>3, <1>4 DEF LimitInv

LEMMA BeginsStep ==
  ASSUME LimitInv, NEW c \in Consumptions, L!Begins(c)
  PROVE  LimitInv'
<1>1. UNCHANGED <<clock, counter, granted, resets>>
  BY DEF L!Begins
<1>2. PICK t \in Tokens : consumer' = [consumer EXCEPT ![c] = [L!Idle EXCEPT !.pc = "read", !.at = clock, !.tokens = t]]
  BY DEF L!Begins
<1> DEFINE n == [L!Idle EXCEPT !.pc = "read", !.at = clock, !.tokens = t]
<1>3. n \in Consumer /\ n.pc = "read" /\ n.at = clock
  BY LimitConstants DEF L!Idle, Consumer, LimitInv, LimitTypes
<1>4. consumer' = [consumer EXCEPT ![c] = n]
  BY <1>2
<1> HIDE DEF n
<1>5. /\ consumer' \in [Consumptions -> Consumer] /\ consumer'[c] = n
      /\ \A d \in Consumptions : d = c \/ consumer'[d] = consumer[d]
  BY <1>3, <1>4, ConsumerMoves DEF LimitInv
<1>6. LimitTypes'
  BY <1>1, <1>3, <1>5, LimitConstants DEF LimitInv, LimitTypes
<1>7. AllCounted => AllCounted'
  BY <1>1 DEF AllCounted
<1>8. AllSeen => AllSeen'
  BY <1>1, <1>3, <1>5 DEF AllSeen, L!Weighted, L!ElapsedAt
<1>9. QED BY <1>6, <1>7, <1>8 DEF LimitInv

LEMMA ReadsStep ==
  ASSUME LimitInv, NEW c \in Consumptions, L!Reads(c)
  PROVE  LimitInv'
<1> DEFINE at == consumer[c].at
<1> DEFINE u == L!WindowOf(at) - 1
<1> DEFINE n == [consumer[c] EXCEPT !.pc = "add", !.prev = L!Counted(u), !.before = granted[u]]
<1>1. /\ consumer[c] \in Consumer /\ consumer[c].pc = "read" /\ at \in Nat
      /\ Window <= at /\ at <= clock /\ clock <= at + MaxDelay /\ clock \in Nat /\ clock <= LastTime
      /\ UNCHANGED <<clock, counter, granted, resets>>
  BY DEF L!Reads, LimitInv, LimitTypes, Consumer
<1>2. /\ u \in L!Windows /\ L!WindowOf(at) \in Nat /\ L!WindowOf(at) >= 1
      /\ L!ElapsedAt(at) \in 0..(Window - 1)
      /\ at = (L!WindowOf(at) * Window) + L!ElapsedAt(at)
  BY <1>1, WindowOfTime, LimitConstants
<1>3. /\ granted[u] \in Nat /\ counter[u].count \in Nat /\ counter[u].until \in Nat
      /\ L!Counted(u) \in Nat
  BY <1>2 DEF LimitInv, LimitTypes, L!Counted
<1>4. n \in Consumer /\ n.pc = "add" /\ n.at = at /\ n.prev = L!Counted(u) /\ n.before = granted[u]
  BY <1>1, <1>3 DEF Consumer
<1>5. consumer' = [consumer EXCEPT ![c] = n]
  BY DEF L!Reads, LimitInv, LimitTypes
<1> HIDE DEF n
<1>6. /\ consumer' \in [Consumptions -> Consumer] /\ consumer'[c] = n
      /\ \A d \in Consumptions : d = c \/ consumer'[d] = consumer[d]
  BY <1>4, <1>5, ConsumerMoves DEF LimitInv
<1>7. LimitTypes'
  BY <1>1, <1>4, <1>6 DEF LimitInv, LimitTypes
<1>8. AllCounted => AllCounted'
  BY <1>1 DEF AllCounted
<1>9. ASSUME CallsAreQuick, AllCounted, resets = 0
      PROVE  granted[u] <= L!Counted(u) \/ L!Weighted(granted[u], at) = 0
  <2>1. CASE granted[u] = 0
    BY <1>3, <2>1
  <2>2. CASE granted[u] # 0
    <3> DEFINE w == L!WindowOf(at)
    <3> DEFINE x == w * Window
    <3>1. granted[u] <= counter[u].count /\ granted[u] <= Limit /\ (u + 2) * Window <= counter[u].until
      BY <1>2, <1>9, <2>2 DEF AllCounted
    <3>2. x \in Nat /\ (u + 2) * Window = x + Window
      BY <1>2, LimitConstants
    <3>3. at = x + L!ElapsedAt(at)
      BY <1>2
    <3> HIDE DEF x, w, u
    <3>4. CASE clock < x + Window
      BY <1>1, <1>3, <3>1, <3>2, <3>4, LimitConstants DEF L!Counted
    <3>5. CASE clock >= x + Window
      <4> DEFINE r == Window - L!ElapsedAt(at)
      <4>1. r \in Nat /\ r <= MaxDelay
        BY <1>1, <1>2, <3>2, <3>3, <3>5, LimitConstants
      <4>2. granted[u] * r <= Limit * r /\ granted[u] * r \in Nat
        BY <1>3, <3>1, <4>1, ProductsGrow, LimitConstants
      <4>3. Limit * r <= Limit * MaxDelay /\ Limit * r \in Nat /\ Limit * MaxDelay \in Nat
        BY <4>1, ProductsGrow, LimitConstants
      <4>4. granted[u] * r < Window
        <5> HIDE DEF r
        <5>1. Limit * MaxDelay < Window
          BY <1>9 DEF CallsAreQuick
        <5>2. QED BY <4>2, <4>3, <5>1, LimitConstants
      <4>5. (granted[u] * r) \div Window = 0
        BY <4>2, <4>4, LessThanOne, LimitConstants
      <4>6. QED BY <4>5 DEF L!Weighted
    <3>6. QED BY <1>1, <3>2, <3>4, <3>5, LimitConstants
  <2>3. QED BY <2>1, <2>2
<1>10. CallsAreQuick /\ AllCounted /\ AllSeen => AllSeen'
  BY <1>1, <1>4, <1>6, <1>9 DEF AllSeen, L!Weighted, L!ElapsedAt
<1>11. QED BY <1>7, <1>8, <1>10 DEF LimitInv

(* The call that is granted is within the limit, and counted.              *)
LEMMA AddsStep ==
  ASSUME LimitInv, NEW c \in Consumptions, L!Adds(c)
  PROVE  /\ LimitInv'
         /\ CallsAreQuick /\ resets = 0 /\ consumer'[c].pc = "granted" =>
              L!Weighted(consumer[c].before, consumer[c].at)
                + granted'[L!WindowOf(consumer[c].at)] <= Limit
<1> DEFINE at == consumer[c].at
<1> DEFINE w == L!WindowOf(at)
<1> DEFINE cur == L!Counted(w) + consumer[c].tokens
<1> DEFINE ok == L!Estimate(consumer[c].prev, cur, at) <= Limit
<1> DEFINE n == IF ok THEN [L!Idle EXCEPT !.pc = "granted", !.at = at] ELSE [L!Idle EXCEPT !.pc = "refused"]
<1> DEFINE g == IF ok THEN granted[w] + consumer[c].tokens ELSE granted[w]
<1>1. /\ consumer[c] \in Consumer /\ consumer[c].pc = "add" /\ at \in Nat
      /\ consumer[c].tokens \in Nat /\ consumer[c].prev \in Nat /\ consumer[c].before \in Nat
      /\ Window <= at /\ at <= clock /\ clock <= at + MaxDelay /\ clock \in Nat /\ clock <= LastTime
      /\ UNCHANGED <<clock, resets>>
  BY DEF L!Adds, LimitInv, LimitTypes, Consumer
<1>2. /\ w \in L!Windows /\ w \in Nat /\ w >= 1
      /\ L!ElapsedAt(at) \in 0..(Window - 1)
      /\ at = (w * Window) + L!ElapsedAt(at)
  BY <1>1, WindowOfTime, LimitConstants
<1>3. /\ granted[w] \in Nat /\ counter[w].count \in Nat /\ counter[w].until \in Nat
      /\ L!Counted(w) \in Nat /\ cur \in Nat
  BY <1>1, <1>2 DEF LimitInv, LimitTypes, L!Counted
<1>4. n \in Consumer /\ n.pc \in {"granted", "refused"} /\ (n.pc = "granted" <=> ok)
  BY <1>1 DEF Consumer, L!Idle
<1>5. consumer' = [consumer EXCEPT ![c] = n]
  BY DEF L!Adds, L!Ends, LimitInv, LimitTypes
<1>6. granted' = [granted EXCEPT ![w] = g]
  BY <1>2 DEF L!Adds, LimitInv, LimitTypes
<1>7. counter' = [counter EXCEPT ![w] = [count |-> cur, until |-> clock + 2 * Window]]
  BY DEF L!Adds
<1>8. g \in Nat /\ clock + 2 * Window \in Nat
  BY <1>1, <1>3, LimitConstants
<1>9. /\ consumer' \in [Consumptions -> Consumer] /\ consumer'[c] = n
      /\ \A d \in Consumptions : d = c \/ consumer'[d] = consumer[d]
  <2> HIDE DEF n
  <2>1. QED BY <1>4, <1>5, ConsumerMoves DEF LimitInv
<1>10. /\ granted' \in [L!Windows -> Nat] /\ granted'[w] = g
       /\ \A v \in L!Windows : v = w \/ granted'[v] = granted[v]
  <2> HIDE DEF g, w
  <2>1. QED BY <1>2, <1>6, <1>8 DEF LimitInv, LimitTypes
<1>11. /\ counter' \in [L!Windows -> [count: Nat, until: Nat]]
       /\ counter'[w].count = cur /\ counter'[w].until = clock + 2 * Window
       /\ \A v \in L!Windows : v = w \/ counter'[v] = counter[v]
  <2> HIDE DEF cur, w
  <2>1. QED BY <1>2, <1>3, <1>7, <1>8 DEF LimitInv, LimitTypes
<1>12. LimitTypes'
  <2> HIDE DEF n, g, cur, w, at
  <2>1. QED BY <1>1, <1>4, <1>9, <1>10, <1>11 DEF LimitInv, LimitTypes
<1>13. ASSUME CallsAreQuick, resets = 0
       PROVE  /\ granted[w] <= L!Counted(w) /\ (w + 2) * Window <= clock + 2 * Window
              /\ granted[w] <= Limit
  <2> DEFINE x == w * Window
  <2>1. x \in Nat /\ (w + 2) * Window = x + 2 * Window /\ at = x + L!ElapsedAt(at)
    BY <1>2, LimitConstants
  <2>2. granted[w] # 0 => granted[w] <= counter[w].count /\ (w + 2) * Window <= counter[w].until
                          /\ granted[w] <= Limit
    BY <1>2, <1>13 DEF LimitInv, AllCounted
  <2> HIDE DEF x, w, cur
  <2>3. clock < x + 2 * Window /\ x + 2 * Window <= clock + 2 * Window
    <3>1. MaxDelay <= Window
      BY <1>13 DEF CallsAreQuick
    <3>2. QED BY <1>1, <1>2, <2>1, <3>1, LimitConstants
  <2>4. granted[w] # 0 => L!Counted(w) = counter[w].count
    BY <1>1, <1>3, <2>1, <2>2, <2>3, LimitConstants DEF L!Counted
  <2>5. QED BY <1>3, <2>1, <2>2, <2>3, <2>4, LimitConstants
<1>14. /\ L!Weighted(consumer[c].prev, at) \in Nat
       /\ consumer[c].before <= consumer[c].prev =>
            L!Weighted(consumer[c].before, at) <= L!Weighted(consumer[c].prev, at)
       /\ L!Weighted(consumer[c].before, at) \in Nat
  <2> DEFINE p == consumer[c].prev
  <2> DEFINE b == consumer[c].before
  <2>1. at \in Nat /\ p \in Nat /\ b \in Nat /\ p <= p /\ b <= b
    BY <1>1
  <2> HIDE DEF at, p, b
  <2>2. L!Weighted(p, at) \in Nat /\ L!Weighted(b, at) \in Nat
    BY <2>1, SharesGrow
  <2>3. b <= p => L!Weighted(b, at) <= L!Weighted(p, at)
    BY <2>1, SharesGrow
  <2>4. QED BY <2>2, <2>3 DEF p, b
<1>15. ok <=> L!Weighted(consumer[c].prev, at) + cur <= Limit
  BY DEF L!Estimate
<1>16. CallsAreQuick /\ resets = 0 => g <= cur /\ g <= Limit
  <2> HIDE DEF ok
  <2>1. CASE ok
    BY <1>1, <1>3, <1>13, <1>14, <1>15, <2>1, LimitConstants
  <2>2. CASE ~ok
    BY <1>1, <1>3, <1>13, <2>2, LimitConstants
  <2>3. QED BY <2>1, <2>2
<1>17. CallsAreQuick /\ AllCounted => AllCounted'
  <2> SUFFICES ASSUME CallsAreQuick, AllCounted, resets = 0, NEW v \in L!Windows, granted'[v] # 0
               PROVE  granted'[v] <= counter'[v].count /\ granted'[v] <= Limit
                      /\ (v + 2) * Window <= counter'[v].until
    BY <1>1 DEF AllCounted
  <2> HIDE DEF w, g, cur
  <2>1. CASE v = w
    BY <1>10, <1>11, <1>13, <1>16, <2>1
  <2>2. CASE v # w
    BY <1>10, <1>11, <2>2 DEF AllCounted
  <2>3. QED BY <2>1, <2>2
<1>18. AllSeen => AllSeen'
  <2> HIDE DEF n
  <2>1. QED BY <1>1, <1>4, <1>9 DEF AllSeen, L!Weighted, L!ElapsedAt
<1>19. ASSUME CallsAreQuick, resets = 0, consumer'[c].pc = "granted"
       PROVE  L!Weighted(consumer[c].before, at) + granted'[w] <= Limit
  <2>1. ok
    BY <1>4, <1>9, <1>19
  <2>2. consumer[c].before <= consumer[c].prev \/ L!Weighted(consumer[c].before, at) = 0
    BY <1>1, <1>19 DEF LimitInv, AllSeen
  <2>3. g <= cur /\ g <= Limit /\ granted'[w] = g
    BY <1>10, <1>16, <1>19
  <2> HIDE DEF ok, g, w, cur, at
  <2>4. CASE consumer[c].before <= consumer[c].prev
    BY <1>3, <1>8, <1>14, <1>15, <2>1, <2>3, <2>4, LimitConstants
  <2>5. CASE L!Weighted(consumer[c].before, at) = 0
    BY <1>8, <2>3, <2>5, LimitConstants
  <2>6. QED BY <2>2, <2>4, <2>5
<1>20. QED BY <1>12, <1>17, <1>18, <1>19 DEF LimitInv

LEMMA ConsumerFails ==
  ASSUME LimitInv, NEW c \in Consumptions, L!Fails(c)
  PROVE  LimitInv'
<1> DEFINE n == [L!Idle EXCEPT !.pc = "failed"]
<1>1. n \in Consumer /\ n.pc = "failed"
  BY DEF Consumer, L!Idle
<1>2. consumer' = [consumer EXCEPT ![c] = n] /\ UNCHANGED <<clock, counter, granted, resets>>
  BY DEF L!Fails, L!Ends
<1> HIDE DEF n
<1>3. QED BY <1>1, <1>2, ConsumerAlone

LEMMA LimitOthers ==
  ASSUME LimitInv, L!Reset \/ L!Tick
  PROVE  LimitInv' /\ UNCHANGED consumer
<1>1. CASE L!Reset
  <2>1. resets \in Nat /\ resets' = resets + 1 /\ UNCHANGED <<clock, consumer, granted>>
    BY <1>1 DEF L!Reset, LimitInv, LimitTypes
  <2>2. counter' \in [L!Windows -> [count: Nat, until: Nat]]
    BY <1>1 DEF L!Reset, LimitInv, LimitTypes
  <2>3. LimitTypes'
    BY <2>1, <2>2 DEF LimitInv, LimitTypes
  <2>4. resets' # 0
    BY <2>1
  <2>5. AllCounted' /\ AllSeen'
    BY <2>4 DEF AllCounted, AllSeen
  <2>6. QED BY <2>1, <2>3, <2>5 DEF LimitInv
<1>2. CASE L!Tick
  <2>1. /\ clock \in Nat /\ clock < LastTime /\ clock' = clock + 1
        /\ UNCHANGED <<counter, consumer, granted, resets>>
        /\ \A c \in Consumptions : consumer[c].pc \in {"read", "add"} => clock < consumer[c].at + MaxDelay
    BY <1>2 DEF L!Tick, LimitInv, LimitTypes
  <2>2. \A c \in Consumptions : consumer[c].pc \in {"read", "add"} =>
          Window <= consumer[c].at /\ consumer[c].at <= clock' /\ clock' <= consumer[c].at + MaxDelay
    BY <2>1, LimitConstants DEF LimitInv, LimitTypes, Consumer
  <2>3. LimitTypes'
    BY <2>1, <2>2, LimitConstants DEF LimitInv, LimitTypes
  <2>4. AllCounted => AllCounted'
    BY <2>1 DEF AllCounted
  <2>5. AllSeen => AllSeen'
    BY <2>1 DEF AllSeen, L!Weighted, L!ElapsedAt
  <2>6. QED BY <2>1, <2>3, <2>4, <2>5 DEF LimitInv
<1>3. QED BY <1>1, <1>2

LEMMA LimitStep ==
  ASSUME LimitInv, L!Next
  PROVE  /\ LimitInv'
         /\ CallsAreQuick => (resets = 0 => \A c \in Consumptions :
              consumer[c].pc = "add" /\ consumer'[c].pc = "granted" =>
                L!Weighted(consumer[c].before, consumer[c].at)
                  + granted'[L!WindowOf(consumer[c].at)] <= Limit)
<1>1. \A c \in Consumptions : consumer[c] \in Consumer
  BY DEF LimitInv, LimitTypes
<1>2. ASSUME NEW c \in Consumptions, L!Begins(c) \/ L!Reads(c) \/ L!Fails(c)
      PROVE  LimitInv' /\ \A d \in Consumptions : ~(consumer[d].pc = "add" /\ consumer'[d].pc = "granted")
  <2>1. LimitInv'
    BY <1>2, BeginsStep, ReadsStep, ConsumerFails
  <2>2. consumer'[c].pc # "granted"
    <3>1. CASE L!Begins(c)
      BY <1>1, <3>1 DEF L!Begins, L!Idle, LimitInv, LimitTypes, Consumer
    <3>2. CASE L!Reads(c)
      <4>1. consumer' = [consumer EXCEPT ![c] = consumer'[c]] /\ consumer'[c].pc = "add"
        BY <1>1, <3>2 DEF L!Reads, LimitInv, LimitTypes, Consumer
      <4>2. QED BY <4>1
    <3>3. CASE L!Fails(c)
      BY <1>1, <3>3 DEF L!Fails, L!Ends, L!Idle, LimitInv, LimitTypes, Consumer
    <3>4. QED BY <1>2, <3>1, <3>2, <3>3
  <2>3. \A d \in Consumptions : d = c \/ consumer'[d] = consumer[d]
    BY <1>2 DEF L!Begins, L!Reads, L!Fails, L!Ends, LimitInv, LimitTypes
  <2>4. QED BY <2>1, <2>2, <2>3
<1>3. ASSUME NEW c \in Consumptions, L!Adds(c)
      PROVE  /\ LimitInv'
             /\ CallsAreQuick => (resets = 0 => \A d \in Consumptions :
                  consumer[d].pc = "add" /\ consumer'[d].pc = "granted" =>
                    L!Weighted(consumer[d].before, consumer[d].at)
                      + granted'[L!WindowOf(consumer[d].at)] <= Limit)
  <2>1. \A d \in Consumptions : d = c \/ consumer'[d] = consumer[d]
    BY <1>3 DEF L!Adds, L!Ends, LimitInv, LimitTypes
  <2>2. \A d \in Consumptions : consumer[d].pc = "add" /\ consumer'[d].pc = "granted" => d = c
    BY <2>1
  <2>3. QED BY <1>3, <2>2, AddsStep
<1>4. CASE L!Reset \/ L!Tick
  BY <1>4, LimitOthers
<1>5. QED BY <1>2, <1>3, <1>4 DEF L!Next

-----------------------------------------------------------------------------
(* TieredCache                                                             *)

CacheJob == [op: {"none", "get", "set", "delete", "wrap"},
             pc: {"idle", "read", "backfill", "hit", "fn", "write", "join", "done", "failed"},
             at: Nat, hit: Nat, val: C!Jobs \cup {None}, todo: SUBSET Tiers]

AtWork == {"read", "backfill", "hit", "fn", "write"}

(* Types; and what a job is about to do is about a tier that there is.     *)
CacheTypes ==
  /\ setting \in CacheSettings
  /\ tier \in [Tiers -> C!Jobs \cup {None}]
  /\ job \in [C!Jobs -> CacheJob]
  /\ inFlight \in CacheCalls \cup {None}
  /\ latest \in C!Jobs \cup {None}
  /\ \A j \in C!Jobs :
       /\ job[j].pc \in {"read", "backfill"} => job[j].at \in Tiers
       /\ job[j].pc = "backfill" => job[j].hit \in Tiers /\ job[j].at < job[j].hit
       /\ job[j].todo # {} => job[j].pc \in {"write", "failed"}

(* The wrap() that others join is the one that is at work.                 *)
OneWrap ==
  /\ inFlight # None => job[inFlight].op = "wrap" /\ job[inFlight].pc \in AtWork
  /\ \A c \in CacheCalls : job[c].op = "wrap" /\ job[c].pc \in AtWork => inFlight = c

(* Of calls that wait for each other, one job is under way.  What it       *)
(* writes is what was written last, and the tiers have that, or nothing,   *)
(* but for those it has yet to write.                                      *)
InTurn ==
  ~setting.overlap /\ ~setting.storeFails =>
    /\ \A j, k \in C!Jobs : job[j].pc \in AtWork /\ job[k].pc \in AtWork => j = k
    /\ \A j \in C!Jobs : job[j].pc # "join" /\ (job[j].todo # {} => job[j].pc = "write")
    /\ \A j \in C!Jobs : job[j].pc \in {"backfill", "write"} => job[j].val = latest
    /\ \A i \in Tiers : tier[i] \in {None, latest}
                        \/ \E j \in C!Jobs : job[j].pc = "write" /\ i \in job[j].todo

CacheInv == CacheTypes /\ OneWrap /\ InTurn

LEMMA CacheInit == C!Init => CacheInv
<1> SUFFICES ASSUME C!Init PROVE CacheInv
  OBVIOUS
<1>1. C!Idle \in CacheJob
  BY DEF C!Idle, CacheJob
<1>2. \A j \in C!Jobs : /\ job[j] \in CacheJob
                        /\ job[j].pc = "idle" /\ job[j].todo = {} /\ job[j].op = "none"
  BY <1>1 DEF C!Init, C!Idle
<1>3. job \in [C!Jobs -> CacheJob]
  BY <1>1 DEF C!Init
<1>4. CacheTypes
  BY <1>2, <1>3 DEF C!Init, CacheTypes
<1>5. CacheCalls \subseteq C!Jobs
  BY DEF C!Jobs
<1>6. OneWrap /\ InTurn
  BY <1>2, <1>5 DEF C!Init, OneWrap, InTurn, AtWork
<1>7. QED BY <1>4, <1>6 DEF CacheInv

(* A step of one job j, which brings it to n.                              *)
LEMMA CacheMoves ==
  ASSUME CacheTypes, NEW j \in C!Jobs, NEW n \in CacheJob, job' = [job EXCEPT ![j] = n]
  PROVE  job' \in [C!Jobs -> CacheJob] /\ job'[j] = n /\ \A k \in C!Jobs \ {j} : job'[k] = job[k]
BY DEF CacheTypes

(* A call that begins.                                                     *)
LEMMA CacheBegins ==
  ASSUME CacheInv, NEW c \in CacheCalls,
         C!Get(c) \/ C!Set(c) \/ C!Delete(c) \/ C!WrapRuns(c) \/ C!WrapJoins(c)
  PROVE  CacheInv'
<1>1. c \in C!Jobs /\ c # None /\ 1 \in Tiers /\ Tiers \subseteq Nat
  BY ServicesAssumption DEF C!TieredCacheAssumption, C!Jobs
<1>2. PICK op \in {"get", "set", "delete", "wrap"}, n \in CacheJob :
         /\ job' = [job EXCEPT ![c] = n] /\ n.op = op
         /\ job[c].pc = "idle"
         /\ n.pc \in {"read", "write", "join"} /\ (n.pc = "read" => n.at \in Tiers)
         /\ n.pc = "write" => op # "wrap"
         /\ n.todo = IF n.pc = "write" THEN Tiers ELSE {}
         /\ IF n.pc = "write" THEN latest' = n.val ELSE latest' = latest
         /\ latest' \in C!Jobs \cup {None}
         /\ n.pc = "join" => setting.overlap
         /\ setting.overlap \/ C!Underway = {}
         /\ inFlight' = IF op = "wrap" /\ n.pc = "read" THEN c ELSE inFlight
         /\ op = "wrap" /\ n.pc = "read" => inFlight = None
         /\ UNCHANGED <<setting, tier, lost>>
  <2>1. CASE C!Get(c)
    <3>1. [C!Idle EXCEPT !.op = "get", !.pc = "read", !.at = 1] \in CacheJob
      BY DEF C!Idle, CacheJob
    <3>2. QED BY <1>1, <2>1, <3>1 DEF C!Get, C!Begins, C!Idle, CacheInv, CacheTypes
  <2>2. ASSUME NEW v \in {c, None}, NEW op \in {"set", "delete"}, C!Writes(c, op, v)
        PROVE  \E n \in CacheJob :
         /\ job' = [job EXCEPT ![c] = n] /\ n.op = op
         /\ job[c].pc = "idle"
         /\ n.pc \in {"read", "write", "join"} /\ (n.pc = "read" => n.at \in Tiers)
         /\ n.pc = "write" => op # "wrap"
         /\ n.todo = IF n.pc = "write" THEN Tiers ELSE {}
         /\ IF n.pc = "write" THEN latest' = n.val ELSE latest' = latest
         /\ latest' \in C!Jobs \cup {None}
         /\ n.pc = "join" => setting.overlap
         /\ setting.overlap \/ C!Underway = {}
         /\ inFlight' = IF op = "wrap" /\ n.pc = "read" THEN c ELSE inFlight
         /\ op = "wrap" /\ n.pc = "read" => inFlight = None
         /\ UNCHANGED <<setting, tier, lost>>
    <3>1. [C!Stores(c, v) EXCEPT !.op = op] \in CacheJob
      BY <1>1 DEF C!Stores, CacheJob, CacheInv, CacheTypes
    <3>2. QED BY <1>1, <2>2, <3>1 DEF C!Writes, C!Stores, CacheInv, CacheTypes, CacheJob
  <2>3. CASE C!Set(c) \/ C!Delete(c)
    BY <2>2, <2>3 DEF C!Set, C!Delete
  <2>4. CASE C!WrapRuns(c)
    <3>1. [C!Idle EXCEPT !.op = "wrap", !.pc = "read", !.at = 1] \in CacheJob
      BY DEF C!Idle, CacheJob
    <3>2. QED BY <1>1, <2>4, <3>1 DEF C!WrapRuns, C!Begins, C!Idle, CacheInv, CacheTypes
  <2>5. CASE C!WrapJoins(c)
    <3>1. [C!Idle EXCEPT !.op = "wrap", !.pc = "join", !.val = inFlight] \in CacheJob
      BY DEF C!Idle, CacheJob, CacheInv, CacheTypes, C!Jobs
    <3>2. QED BY <1>1, <2>5, <3>1 DEF C!WrapJoins, C!Idle, CacheInv, CacheTypes
  <2>6. QED BY <2>1, <2>3, <2>4, <2>5
<1>3. /\ job' \in [C!Jobs -> CacheJob] /\ job'[c] = n
      /\ \A k \in C!Jobs \ {c} : job'[k] = job[k]
  BY <1>1, <1>2, CacheMoves DEF CacheInv
<1>4. CacheTypes'
  BY <1>1, <1>2, <1>3 DEF CacheInv, CacheTypes
<1>5. OneWrap'
  <2>1. CacheCalls \subseteq C!Jobs /\ None \notin CacheCalls
    BY ServicesAssumption DEF C!TieredCacheAssumption, C!Jobs
  <2>2. inFlight # c /\ inFlight \in CacheCalls \cup {None}
    BY <1>1, <1>2 DEF CacheInv, CacheTypes, OneWrap, AtWork
  <2>3. CASE op = "wrap" /\ n.pc = "read"
    BY <1>2, <1>3, <2>1, <2>3 DEF CacheInv, OneWrap, AtWork
  <2>4. CASE ~(op = "wrap" /\ n.pc = "read")
    BY <1>2, <1>3, <2>1, <2>2, <2>4 DEF CacheInv, OneWrap, AtWork
  <2>5. QED BY <2>3, <2>4
<1>6. InTurn'
  BY <1>1, <1>2, <1>3 DEF CacheInv, CacheTypes, InTurn, AtWork, C!Underway, C!Over
<1>7. QED BY <1>4, <1>5, <1>6 DEF CacheInv

(* A job that goes on to n, or ends.                                       *)
LEMMA CacheGoesOn ==
  ASSUME CacheInv, NEW j \in C!Jobs, NEW n \in CacheJob, C!Becomes(j, n),
         n.op = job[j].op, job[j].pc # "idle",
         n.pc \in {"done", "failed"} \/ {n.pc, job[j].pc} \subseteq AtWork
  PROVE  /\ job' \in [C!Jobs -> CacheJob] /\ job'[j] = n
         /\ \A k \in C!Jobs \ {j} : job'[k] = job[k]
         /\ inFlight' \in CacheCalls \cup {None}
         /\ OneWrap'
<1>1. /\ job' \in [C!Jobs -> CacheJob] /\ job'[j] = n
      /\ \A k \in C!Jobs \ {j} : job'[k] = job[k]
  BY CacheMoves DEF C!Becomes, CacheInv
<1>2. CacheCalls \subseteq C!Jobs /\ None \notin C!Jobs
  BY ServicesAssumption DEF C!TieredCacheAssumption, C!Jobs
<1>3. inFlight \in CacheCalls \cup {None}
  BY DEF CacheInv, CacheTypes
<1>4. inFlight' \in CacheCalls \cup {None}
  BY <1>3 DEF C!Becomes, C!Forgets
<1>5. CASE n.pc \in {"done", "failed"}
  <2>1. inFlight' = IF inFlight = j THEN None ELSE inFlight
    BY <1>5 DEF C!Becomes, C!Forgets
  <2>2. QED BY <1>1, <1>2, <1>3, <1>5, <2>1 DEF CacheInv, OneWrap, AtWork
<1>6. CASE {n.pc, job[j].pc} \subseteq AtWork
  <2>1. inFlight' = inFlight
    BY <1>6 DEF C!Becomes, C!Forgets, AtWork
  <2>2. QED BY <1>1, <1>2, <1>3, <1>6, <2>1 DEF CacheInv, OneWrap
<1>7. QED BY <1>1, <1>4, <1>5, <1>6

LEMMA CacheReads ==
  ASSUME CacheInv, NEW j \in C!Jobs, C!Read(j)
  PROVE  CacheInv'
<1> DEFINE i == job[j].at
<1>1. job[j] \in CacheJob /\ i \in Tiers /\ job[j].pc = "read" /\ job[j].todo = {}
  BY DEF CacheInv, CacheTypes, C!Read
<1>2. /\ Tiers \subseteq Nat \ {0} /\ 1 \in Tiers /\ tier[i] \in C!Jobs \cup {None}
      /\ i \in Nat \ {0}
  BY <1>1, ServicesAssumption DEF C!TieredCacheAssumption, CacheInv, CacheTypes
<1>3. UNCHANGED <<setting, tier, latest>>
  BY DEF C!Read
<1>4. PICK n \in CacheJob :
        /\ C!Becomes(j, n) /\ n.op = job[j].op /\ n.todo = {}
        /\ \/ tier[i] # None /\ n.val = tier[i] /\ n.pc = "hit"
           \/ tier[i] # None /\ n.val = tier[i] /\ n.pc = "backfill" /\ n.at = 1 /\ n.hit = i /\ i # 1
           \/ n.pc = "read" /\ n.at \in Tiers
           \/ n.pc \in {"fn", "done"}
  <2>1. CASE tier[i] # None
    <3> DEFINE n == [job[j] EXCEPT !.val = tier[i], !.hit = i, !.at = 1,
                                   !.pc = IF i = 1 THEN "hit" ELSE "backfill"]
    <3>1. n \in CacheJob
      BY <1>1, <1>2 DEF CacheJob
    <3>2. C!Becomes(j, n)
      BY <2>1 DEF C!Read
    <3>3. /\ n.op = job[j].op /\ n.todo = {} /\ n.val = tier[i] /\ n.at = 1 /\ n.hit = i
          /\ n.pc = IF i = 1 THEN "hit" ELSE "backfill"
      BY <1>1 DEF CacheJob
    <3> HIDE DEF n
    <3>4. QED BY <2>1, <3>1, <3>2, <3>3
  <2>2. CASE tier[i] = None /\ i + 1 \in Tiers
    <3>1. [job[j] EXCEPT !.at = i + 1] \in CacheJob
      BY <1>1, <1>2 DEF CacheJob
    <3>2. QED BY <1>1, <2>2, <3>1 DEF C!Read, CacheJob
  <2>3. CASE tier[i] = None /\ i + 1 \notin Tiers /\ job[j].op = "wrap"
    <3>1. [job[j] EXCEPT !.pc = "fn"] \in CacheJob
      BY <1>1, <1>2 DEF CacheJob
    <3>2. QED BY <1>1, <2>3, <3>1 DEF C!Read, CacheJob
  <2>4. CASE tier[i] = None /\ i + 1 \notin Tiers /\ job[j].op # "wrap"
    <3>1. C!Ended(j, "done") \in CacheJob
      BY <1>1, <1>2 DEF CacheJob, C!Ended
    <3>2. C!Ended(j, "done").op = job[j].op /\ C!Ended(j, "done").todo = {}
          /\ C!Ended(j, "done").pc = "done"
      BY <1>1 DEF CacheJob, C!Ended
    <3>3. C!Becomes(j, C!Ended(j, "done"))
      BY <2>4 DEF C!Read
    <3>4. QED BY <3>1, <3>2, <3>3
  <2>5. QED BY <2>1, <2>2, <2>3, <2>4
<1>5. /\ job' \in [C!Jobs -> CacheJob] /\ job'[j] = n
      /\ \A k \in C!Jobs \ {j} : job'[k] = job[k]
      /\ inFlight' \in CacheCalls \cup {None} /\ OneWrap'
  BY <1>1, <1>4, CacheGoesOn DEF AtWork
<1>6. CacheTypes'
  <2>1. i # 1 => 1 < i
    <3> HIDE DEF i
    <3>1. QED BY <1>2
  <2>2. /\ n.pc \in {"read", "backfill"} => n.at \in Tiers
        /\ n.pc = "backfill" => n.hit \in Tiers /\ n.at < n.hit
    BY <1>1, <1>2, <1>4, <2>1
  <2> HIDE DEF i
  <2>3. QED BY <1>3, <1>4, <1>5, <2>2 DEF CacheInv, CacheTypes
<1>7. InTurn'
  <2>1. SUFFICES ASSUME ~setting.overlap, ~setting.storeFails PROVE InTurn'
    BY <1>3 DEF InTurn
  <2>2. \A k \in C!Jobs : job[k].pc \in AtWork => k = j
    BY <1>1, <2>1 DEF CacheInv, InTurn, AtWork
  <2>3. tier[i] \in {None, latest}
    BY <1>1, <2>1, <2>2 DEF CacheInv, InTurn, AtWork
  <2>4. n.pc # "join" /\ n.pc # "write" /\ (n.pc = "backfill" => n.val = latest)
    BY <1>4, <2>3
  <2>5. \A k \in C!Jobs : job'[k].pc \in AtWork => k = j
    BY <1>5, <2>2
  <2>6. \A k \in C!Jobs : /\ job'[k].pc # "join" /\ (job'[k].todo # {} => job'[k].pc = "write")
                          /\ job'[k].pc \in {"backfill", "write"} => job'[k].val = latest'
    BY <1>3, <1>4, <1>5, <2>1, <2>4 DEF CacheInv, InTurn
  <2>7. \A k \in Tiers : tier'[k] \in {None, latest'}
    BY <1>1, <1>3, <2>1, <2>2 DEF CacheInv, InTurn, AtWork
  <2>8. QED BY <2>5, <2>6, <2>7 DEF InTurn
<1>8. QED BY <1>5, <1>6, <1>7 DEF CacheInv

LEMMA CacheBackfills ==
  ASSUME CacheInv, NEW j \in C!Jobs, C!Backfill(j)
  PROVE  CacheInv'
<1> DEFINE i == job[j].at
           n == [job[j] EXCEPT !.at = i + 1, !.pc = IF i + 1 = job[j].hit THEN "hit" ELSE @]
<1>1. /\ job[j] \in CacheJob /\ i \in Tiers /\ job[j].pc = "backfill" /\ job[j].todo = {}
      /\ job[j].hit \in Tiers /\ i < job[j].hit
  BY DEF CacheInv, CacheTypes, C!Backfill
<1>2. Tiers \subseteq Nat \ {0} /\ 1..job[j].hit \subseteq Tiers /\ i \in Nat /\ job[j].hit \in Nat
  BY <1>1, ServicesAssumption DEF C!TieredCacheAssumption
<1>3. UNCHANGED <<setting, latest>> /\ tier' = [tier EXCEPT ![i] = job[j].val] /\ C!Becomes(j, n)
  BY DEF C!Backfill
<1>4. n \in CacheJob
  <2>1. i + 1 \in Nat
    BY <1>2
  <2>2. (IF i + 1 = job[j].hit THEN "hit" ELSE job[j].pc) \in {"hit", "backfill"}
    BY <1>1
  <2>3. QED BY <1>1, <2>1, <2>2 DEF CacheJob
<1>5. /\ n.op = job[j].op /\ n.todo = {} /\ n.val = job[j].val /\ n.hit = job[j].hit /\ n.at = i + 1
      /\ n.pc = "hit" \/ (n.pc = "backfill" /\ i + 1 # job[j].hit)
  BY <1>1 DEF CacheJob
<1>6. /\ job' \in [C!Jobs -> CacheJob] /\ job'[j] = n
      /\ \A k \in C!Jobs \ {j} : job'[k] = job[k]
      /\ inFlight' \in CacheCalls \cup {None} /\ OneWrap'
  BY <1>1, <1>3, <1>4, <1>5, CacheGoesOn DEF AtWork
<1> HIDE DEF n
<1>7. i + 1 \in Tiers
  BY <1>1, <1>2
<1>8. CacheTypes'
  <2>1. tier' \in [Tiers -> C!Jobs \cup {None}]
    BY <1>1, <1>3 DEF CacheInv, CacheTypes, CacheJob
  <2>2. n.pc = "backfill" => i + 1 < job[j].hit
    BY <1>1, <1>2, <1>5
  <2>3. QED BY <1>1, <1>3, <1>5, <1>6, <1>7, <2>1, <2>2 DEF CacheInv, CacheTypes
<1>9. InTurn'
  BY <1>1, <1>3, <1>5, <1>6 DEF CacheInv, CacheTypes, InTurn, AtWork
<1>10. QED BY <1>6, <1>8, <1>9 DEF CacheInv

(* A job that ends, and brings nothing more about.                         *)
LEMMA CacheEnds ==
  ASSUME CacheInv, NEW j \in C!Jobs, NEW pc \in {"done", "failed"},
         C!Becomes(j, C!Ended(j, pc)), job[j].pc \in {"read", "backfill", "hit", "fn", "join"},
         UNCHANGED <<setting, tier, latest>>
  PROVE  CacheInv'
<1> DEFINE n == C!Ended(j, pc)
<1>1. job[j] \in CacheJob
  BY DEF CacheInv, CacheTypes
<1>2. n \in CacheJob
  BY <1>1 DEF C!Ended, CacheJob
<1>3. n.op = job[j].op /\ n.pc = pc /\ n.todo = job[j].todo
  BY <1>1 DEF C!Ended, CacheJob
<1>4. C!Becomes(j, n)
  OBVIOUS
<1> HIDE DEF n
<1>5. /\ job' \in [C!Jobs -> CacheJob] /\ job'[j] = n
      /\ \A k \in C!Jobs \ {j} : job'[k] = job[k]
      /\ inFlight' \in CacheCalls \cup {None} /\ OneWrap'
  BY <1>2, <1>3, <1>4, CacheGoesOn
<1>6. job[j].todo = {}
  BY DEF CacheInv, CacheTypes
<1>7. CacheTypes'
  BY <1>3, <1>5, <1>6 DEF CacheInv, CacheTypes
<1>8. InTurn'
  BY <1>3, <1>5, <1>6 DEF CacheInv, CacheTypes, InTurn, AtWork
<1>9. QED BY <1>5, <1>7, <1>8 DEF CacheInv

LEMMA CacheAnswers ==
  ASSUME CacheInv, NEW j \in C!Jobs, C!Answers(j) \/ C!Joined(j)
  PROVE  CacheInv'
<1>1. CASE C!Answers(j)
  <2>1. PICK pc \in {"done", "failed"} : pc = "done"
    OBVIOUS
  <2>2. QED BY <1>1, <2>1, CacheEnds DEF C!Answers
<1>2. CASE C!Joined(j)
  <2>1. PICK pc \in {"done", "failed"} : pc = job[job[j].val].pc
    BY <1>2 DEF C!Joined, C!Over
  <2>2. job[j].pc = "join" /\ job[j].todo = {}
    BY <1>2 DEF C!Joined, CacheInv, CacheTypes
  <2>3. QED BY <1>2, <2>1, <2>2, CacheEnds DEF C!Joined
<1>3. QED BY <1>1, <1>2

LEMMA CacheComputes ==
  ASSUME CacheInv, NEW j \in C!Jobs, C!Computes(j)
  PROVE  CacheInv'
<1>1. job[j] \in CacheJob /\ job[j].pc = "fn" /\ job[j].todo = {}
  BY DEF CacheInv, CacheTypes, C!Computes
<1>2. PICK v \in {j, None} : C!Becomes(j, C!Stores(j, v)) /\ latest' = v
  BY DEF C!Computes
<1> DEFINE n == C!Stores(j, v)
<1>3. n \in CacheJob
  BY <1>1 DEF C!Stores, CacheJob
<1>4. n.op = job[j].op /\ n.pc = "write" /\ n.todo = Tiers /\ n.val = v
  BY <1>1 DEF C!Stores, CacheJob
<1>5. C!Becomes(j, n)
  BY <1>2
<1> HIDE DEF n
<1>6. /\ job' \in [C!Jobs -> CacheJob] /\ job'[j] = n
      /\ \A k \in C!Jobs \ {j} : job'[k] = job[k]
      /\ inFlight' \in CacheCalls \cup {None} /\ OneWrap'
  BY <1>1, <1>3, <1>4, <1>5, CacheGoesOn DEF AtWork
<1>7. UNCHANGED <<setting, tier>>
  BY DEF C!Computes
<1>8. CacheTypes'
  <2>1. latest' \in C!Jobs \cup {None}
    BY <1>2
  <2>2. \A k \in C!Jobs :
          /\ job'[k].pc \in {"read", "backfill"} => job'[k].at \in Tiers
          /\ job'[k].pc = "backfill" => job'[k].hit \in Tiers /\ job'[k].at < job'[k].hit
          /\ job'[k].todo # {} => job'[k].pc \in {"write", "failed"}
    <3>1. \A k \in C!Jobs : k = j \/ job'[k] = job[k]
      BY <1>6
    <3>2. QED BY <1>4, <1>6, <3>1 DEF CacheInv, CacheTypes
  <2>3. QED BY <1>6, <1>7, <2>1, <2>2 DEF CacheInv, CacheTypes
<1>9. InTurn'
  BY <1>1, <1>2, <1>4, <1>6, <1>7 DEF CacheInv, InTurn, AtWork
<1>10. QED BY <1>6, <1>8, <1>9 DEF CacheInv

LEMMA CacheFails ==
  ASSUME CacheInv, NEW j \in C!Jobs, C!Fails(j)
  PROVE  CacheInv'
<1>1. job[j] \in CacheJob /\ UNCHANGED <<setting, tier, latest>>
  BY DEF CacheInv, CacheTypes, C!Fails
<1>2. CASE job[j].pc \in {"fn", "read", "backfill"}
  <2>1. PICK pc \in {"done", "failed"} : pc = "failed"
    OBVIOUS
  <2>2. job[j].todo = {}
    BY <1>2 DEF CacheInv, CacheTypes
  <2>3. C!Becomes(j, C!Ended(j, "failed"))
    BY <1>2 DEF C!Fails
  <2>4. QED BY <1>1, <1>2, <2>1, <2>2, <2>3, CacheEnds
<1>3. CASE job[j].pc = "write"
  <2>1. setting.storeFails
    BY <1>3 DEF C!Fails
  <2>2. PICK i \in job[j].todo :
          C!Becomes(j, [job[j] EXCEPT !.pc = "failed", !.at = 0, !.todo = @ \ {i}])
    BY <1>3 DEF C!Fails
  <2> DEFINE n == [job[j] EXCEPT !.pc = "failed", !.at = 0, !.todo = @ \ {i}]
  <2>3. n \in CacheJob
    BY <1>1 DEF CacheJob
  <2>4. n.op = job[j].op /\ n.pc = "failed"
    BY <1>1 DEF CacheJob
  <2>5. C!Becomes(j, n)
    BY <2>2
  <2> HIDE DEF n
  <2>6. /\ job' \in [C!Jobs -> CacheJob] /\ job'[j] = n
        /\ \A k \in C!Jobs \ {j} : job'[k] = job[k]
        /\ inFlight' \in CacheCalls \cup {None} /\ OneWrap'
    BY <1>3, <2>3, <2>4, <2>5, CacheGoesOn
  <2>7. CacheTypes'
    BY <1>1, <2>4, <2>6 DEF CacheInv, CacheTypes
  <2>8. InTurn'
    BY <1>1, <2>1 DEF InTurn
  <2>9. QED BY <2>6, <2>7, <2>8 DEF CacheInv
<1>4. QED BY <1>2, <1>3 DEF C!Fails

LEMMA CacheApplies ==
  ASSUME CacheInv, NEW j \in C!Jobs, NEW i \in Tiers, C!Applies(j, i)
  PROVE  CacheInv'
<1> DEFINE rest == [job[j] EXCEPT !.todo = @ \ {i}]
           ends == [rest EXCEPT !.pc = IF @ = "write" THEN "done" ELSE @, !.at = 0, !.val = None]
           n    == IF rest.todo = {} THEN ends ELSE rest
<1>1. job[j] \in CacheJob /\ i \in job[j].todo /\ job[j].pc \in {"write", "failed"}
  BY DEF CacheInv, CacheTypes, C!Applies
<1>2. /\ UNCHANGED <<setting, latest>> /\ tier' = [tier EXCEPT ![i] = job[j].val]
      /\ C!Becomes(j, n)
  BY DEF C!Applies
<1>3. rest \in CacheJob /\ rest.todo = job[j].todo \ {i} /\ rest.op = job[j].op
      /\ rest.pc = job[j].pc /\ rest.val = job[j].val
  BY <1>1 DEF CacheJob
<1>4. ends \in CacheJob /\ ends.todo = rest.todo /\ ends.op = rest.op
      /\ ends.pc = IF rest.pc = "write" THEN "done" ELSE rest.pc
  <2> HIDE DEF rest
  <2>1. QED BY <1>3 DEF CacheJob
<1>5. /\ n \in CacheJob /\ n.op = job[j].op /\ n.todo = job[j].todo \ {i}
      /\ n.pc = IF n.todo = {} /\ job[j].pc = "write" THEN "done" ELSE job[j].pc
      /\ n.todo # {} => n.val = job[j].val
  <2> HIDE DEF rest, ends
  <2>1. QED BY <1>3, <1>4
<1> HIDE DEF rest, ends, n
<1>6. /\ job' \in [C!Jobs -> CacheJob] /\ job'[j] = n
      /\ \A k \in C!Jobs \ {j} : job'[k] = job[k]
      /\ inFlight' \in CacheCalls \cup {None} /\ OneWrap'
  BY <1>1, <1>2, <1>5, CacheGoesOn DEF AtWork
<1>7. tier' \in [Tiers -> C!Jobs \cup {None}] /\ tier'[i] = job[j].val
      /\ \A k \in Tiers \ {i} : tier'[k] = tier[k]
  BY <1>1, <1>2 DEF CacheInv, CacheTypes, CacheJob
<1>8. CacheTypes'
  <2>1. \A k \in C!Jobs : k = j \/ job'[k] = job[k]
    BY <1>6
  <2>2. QED BY <1>1, <1>2, <1>5, <1>6, <1>7, <2>1 DEF CacheInv, CacheTypes
<1>9. InTurn'
  <2>1. SUFFICES ASSUME ~setting.overlap, ~setting.storeFails PROVE InTurn'
    BY <1>2 DEF InTurn
  <2>2. job[j].pc = "write" /\ job[j].val = latest
    BY <1>1, <2>1 DEF CacheInv, InTurn
  <2>3. \A k \in C!Jobs : /\ k # j => job'[k] = job[k]
                          /\ job[k].pc \in AtWork => k = j
    BY <1>6, <2>1, <2>2 DEF CacheInv, InTurn, AtWork
  <2>4. \A k \in C!Jobs : /\ job'[k].pc \in AtWork => k = j
                          /\ job'[k].pc # "join" /\ (job'[k].todo # {} => job'[k].pc = "write")
                          /\ job'[k].pc \in {"backfill", "write"} => job'[k].val = latest'
    BY <1>2, <1>5, <1>6, <2>1, <2>2, <2>3 DEF CacheInv, InTurn, AtWork
  <2>5. \A k \in Tiers : k # i => tier'[k] \in {None, latest'} \/ (job'[j].pc = "write" /\ k \in job'[j].todo)
    BY <1>2, <1>5, <1>6, <1>7, <2>1, <2>2, <2>3 DEF CacheInv, InTurn, AtWork
  <2>6. QED BY <1>2, <1>7, <2>2, <2>4, <2>5 DEF InTurn
<1>10. QED BY <1>6, <1>8, <1>9 DEF CacheInv

LEMMA CacheRefreshes ==
  ASSUME CacheInv, NEW j \in C!Jobs, NEW r \in Refreshes, C!AnswersStale(j, r)
  PROVE  CacheInv'
<1> DEFINE n == C!Ended(j, "done")
           m == [C!Idle EXCEPT !.op = "wrap", !.pc = "fn"]
<1>1. /\ job[j] \in CacheJob /\ job[j].pc = "hit" /\ job[j].todo = {} /\ job[r].pc = "idle"
      /\ r \in C!Jobs /\ j # r
  BY DEF CacheInv, CacheTypes, C!AnswersStale, C!Jobs
<1>2. r \notin CacheCalls /\ None \notin C!Jobs /\ CacheCalls \subseteq C!Jobs
  BY ServicesAssumption DEF C!TieredCacheAssumption, C!Jobs
<1>3. n \in CacheJob /\ n.pc = "done" /\ n.todo = {}
  BY <1>1 DEF C!Ended, CacheJob
<1>4. m \in CacheJob /\ m.pc = "fn" /\ m.todo = {}
  BY DEF C!Idle, CacheJob
<1>5. job' = [job EXCEPT ![j] = n, ![r] = m]
  BY DEF C!AnswersStale
<1> HIDE DEF n, m
<1>6. /\ job' \in [C!Jobs -> CacheJob] /\ job'[j] = n /\ job'[r] = m
      /\ \A k \in C!Jobs \ {j, r} : job'[k] = job[k]
  BY <1>1, <1>3, <1>4, <1>5 DEF CacheInv, CacheTypes
<1>7. UNCHANGED <<setting, tier, latest>> /\ inFlight' = IF inFlight = j THEN None ELSE inFlight
  BY DEF C!AnswersStale, C!Forgets
<1>8. CacheTypes'
  <2>1. \A k \in C!Jobs : k \in {j, r} \/ job'[k] = job[k]
    BY <1>6
  <2>2. QED BY <1>3, <1>4, <1>6, <1>7, <2>1 DEF CacheInv, CacheTypes
<1>9. OneWrap'
  <2>1. inFlight \in CacheCalls \cup {None}
    BY DEF CacheInv, CacheTypes
  <2>2. inFlight # r
    BY <1>1, <1>2, <2>1
  <2>3. \A c \in CacheCalls : c = j \/ (c # r /\ job'[c] = job[c])
    BY <1>2, <1>6
  <2>4. n.pc \notin AtWork
    BY <1>3 DEF AtWork
  <2>5. QED BY <1>1, <1>2, <1>6, <1>7, <2>1, <2>2, <2>3, <2>4 DEF CacheInv, OneWrap
<1>10. InTurn'
  <2>1. \A k \in C!Jobs : k \in {j, r} \/ job'[k] = job[k]
    BY <1>6
  <2>2. QED BY <1>1, <1>3, <1>4, <1>6, <1>7, <2>1 DEF CacheInv, InTurn, AtWork
<1>11. QED BY <1>8, <1>9, <1>10 DEF CacheInv

LEMMA CacheStep == CacheInv /\ C!Next => CacheInv'
<1> SUFFICES ASSUME CacheInv, C!Next PROVE CacheInv'
  OBVIOUS
<1>1. CacheCalls \subseteq C!Jobs
  BY DEF C!Jobs
<1>2. ASSUME NEW i \in Tiers, C!Loses(i) PROVE CacheInv'
  <2>1. UNCHANGED <<setting, job, inFlight, latest>> /\ tier' = [tier EXCEPT ![i] = None]
    BY <1>2 DEF C!Loses
  <2>2. QED BY <2>1 DEF CacheInv, CacheTypes, OneWrap, InTurn
<1>3. QED
  BY <1>1, <1>2, CacheBegins, CacheReads, CacheBackfills, CacheAnswers, CacheComputes, CacheFails,
     CacheApplies, CacheRefreshes DEF C!Next

LEMMA CacheGoals == CacheInv => OneRunner /\ Coherent
<1> SUFFICES ASSUME CacheInv PROVE OneRunner /\ Coherent
  OBVIOUS
<1>1. OneRunner
  BY DEF CacheInv, OneWrap, AtWork, OneRunner, C!OneRunner, C!Over
<1>2. Coherent
  <2>1. SUFFICES ASSUME ~setting.overlap, ~setting.storeFails, C!Underway = {}, NEW i \in Tiers
                 PROVE  tier[i] \in {None, latest}
    BY DEF Coherent, C!Coherent, C!Agree
  <2>2. \A j \in C!Jobs : job[j].pc # "write"
    BY <2>1 DEF C!Underway, C!Over
  <2>3. QED BY <2>1, <2>2 DEF CacheInv, InTurn
<1>3. QED BY <1>1, <1>2

-----------------------------------------------------------------------------
(* BlobStore                                                               *)

Record   == Puts \cup {None}
BlobCall == [pc: {"idle", "chunks", "meta", "read", "erase", "done", "missing", "failed"},
             of: Record, todo: SUBSET (Nat \cup {None}), got: [B!Chunks -> Record]]

(* Types, and what each kind of call does.                                 *)
BlobTypes ==
  /\ way \in BlobSettings /\ chunk \in [B!Chunks -> Record] /\ meta \in Record /\ failures \in Nat
  /\ user \in [B!Calls -> BlobCall]
  /\ \A c \in B!Calls :
       /\ user[c].pc \in {"chunks", "meta"} => c \in Puts
       /\ user[c].pc = "meta" => user[c].todo = {}
       /\ user[c].pc = "read" => c \in Gets
       /\ user[c].pc = "erase" => c \in Deletes
       /\ user[c].pc = "failed" => way.faults # 0

(* What a reader has got is of one blob.                                   *)
Reading ==
  \A c \in Gets :
    /\ user[c].pc = "read" =>
         /\ user[c].of \in Puts \ B!Empty /\ user[c].todo \subseteq B!Totals(user[c].of)
         /\ \A i \in B!Totals(user[c].of) \ user[c].todo : user[c].got[i] = user[c].of
    /\ user[c].pc = "done" => user[c].of \in B!Empty
                              \/ \A i \in B!Totals(user[c].of) : user[c].got[i] = user[c].of

(* A key that is written once: all there is comes from the one call.       *)
Begun(p, u) == p # None => u[p].pc # "idle"

WrittenOnce ==
  way.once =>
    /\ \A p, q \in Puts : user[p].pc # "idle" /\ user[q].pc # "idle" => p = q
    /\ Begun(meta, user) /\ \A i \in B!Chunks : Begun(chunk[i], user)
    /\ \A c \in Gets : Begun(user[c].of, user)

Mine(p, todo) == \A i \in (B!Totals(p) \cap B!Chunks) \ todo : chunk[i] \in {None, p}

(* Calls that wait for each other: unless one writes the chunks that the   *)
(* manifest speaks of are its own, or gone.                                *)
OneAtOnce ==
  way.alone /\ way.faults = 0 =>
    /\ \A c, d \in B!Underway : c = d
    /\ meta # None /\ (\A p \in Puts : p \notin B!Underway) => Mine(meta, {})
    /\ \A p \in Puts : user[p].pc \in {"chunks", "meta"} => Mine(p, user[p].todo)
    /\ \A c \in Gets : user[c].pc = "read" => Mine(user[c].of, {})

Tidy == way.once \/ (way.alone /\ way.faults = 0)

BlobInv == BlobTypes /\ WrittenOnce /\ OneAtOnce /\ (Tidy => Reading)

(* A chunk that the manifest of a blob speaks of is one there may be.      *)
LEMMA TotalsAreChunks ==
  /\ \A p \in Puts \ B!Empty : B!Totals(p) \subseteq B!Chunks
  /\ \A p \in Puts : B!Totals(p) \subseteq Nat
<1>1. PICK q \in Puts : \A p \in Puts : Pieces[p] <= Pieces[q]
  BY ServicesAssumption DEF B!BlobStoreAssumption
<1>2. Pieces \in [Puts -> Nat]
  BY ServicesAssumption DEF B!BlobStoreAssumption
<1>3. Pieces[q] \in {Pieces[p] : p \in Puts}
  OBVIOUS
<1>4. \A p \in Puts : Pieces[p] <= B!Most
  BY <1>1, <1>3 DEF B!Most
<1>5. B!Most \in {Pieces[p] : p \in Puts}
  BY <1>1, <1>3 DEF B!Most
<1>6. B!Most \in Nat
  BY <1>2, <1>5
<1>7. \A p \in Puts : Pieces[p] \in Nat /\ Pieces[p] <= B!Most
  BY <1>2, <1>4
<1>8. \A p \in Puts : B!Totals(p) \subseteq Nat
  BY <1>7 DEF B!Totals
<1>9. ASSUME NEW p \in Puts \ B!Empty PROVE B!Totals(p) \subseteq B!Chunks
  <2>1. Pieces[p] \in Nat /\ Pieces[p] # 0 /\ Pieces[p] <= B!Most
    BY <1>7 DEF B!Empty
  <2>2. B!Totals(p) = 0..(Pieces[p] - 1)
    BY <2>1 DEF B!Totals
  <2>3. QED BY <1>6, <2>1, <2>2 DEF B!Chunks
<1>10. QED BY <1>8, <1>9

LEMMA BlobInit == B!Init => BlobInv
<1> SUFFICES ASSUME B!Init PROVE BlobInv
  OBVIOUS
<1>1. B!Idle \in BlobCall
  BY DEF B!Idle, BlobCall, Record
<1>2. \A c \in B!Calls : user[c] = B!Idle /\ user[c].pc = "idle" /\ user[c].of = None
  BY DEF B!Init, B!Idle
<1>3. Puts \cup Gets \cup Deletes = B!Calls
  BY DEF B!Calls
<1>4. BlobTypes
  BY <1>1, <1>2 DEF B!Init, BlobTypes, Record
<1>5. WrittenOnce
  BY <1>2, <1>3 DEF B!Init, WrittenOnce, Begun
<1>6. OneAtOnce
  BY <1>2, <1>3 DEF B!Init, OneAtOnce, B!Underway
<1>7. Reading
  BY <1>2, <1>3 DEF Reading
<1>8. QED BY <1>4, <1>5, <1>6, <1>7 DEF BlobInv

(* The chunk that a reader finds is of the blob it reads.                  *)
LEMMA FindsItsOwn ==
  ASSUME BlobInv, Tidy, NEW c \in Gets, user[c].pc = "read", NEW i \in user[c].todo,
         chunk[i] # None
  PROVE  chunk[i] = user[c].of
<1>1. user[c].of \in Puts \ B!Empty /\ i \in B!Totals(user[c].of)
  BY DEF BlobInv, Reading
<1>2. i \in B!Chunks
  BY <1>1, TotalsAreChunks
<1>3. CASE way.once
  <2>1. chunk[i] \in Puts
    BY <1>2 DEF BlobInv, BlobTypes, Record
  <2>2. user[c].of # None
    BY <1>1, ServicesAssumption DEF B!BlobStoreAssumption
  <2>3. QED BY <1>1, <1>2, <1>3, <2>1, <2>2 DEF BlobInv, WrittenOnce, Begun
<1>4. CASE way.alone /\ way.faults = 0
  BY <1>1, <1>2, <1>4 DEF BlobInv, OneAtOnce, Mine
<1>5. QED BY <1>3, <1>4 DEF Tidy

(* Call c goes to n.                                                       *)
BlobGoes(c, n) ==
  /\ n \in BlobCall /\ user' \in [B!Calls -> BlobCall] /\ user'[c] = n
  /\ \A d \in B!Calls \ {c} : user'[d] = user[d]

LEMMA BlobMoves ==
  ASSUME BlobTypes, NEW c \in B!Calls, NEW n \in BlobCall, user' = [user EXCEPT ![c] = n]
  PROVE  BlobGoes(c, n)
BY DEF BlobTypes, BlobGoes

LEMMA BlobCalls ==
  /\ B!Calls = Puts \cup Gets \cup Deletes
  /\ Puts \cap Gets = {} /\ Puts \cap Deletes = {} /\ Gets \cap Deletes = {}
  /\ None \notin B!Calls /\ None \notin Nat
BY ServicesAssumption DEF B!BlobStoreAssumption, B!Calls

(* A step after which no call is idle again, and of which all records      *)
(* come from calls that have begun.                                        *)
LEMMA StaysWrittenOnce ==
  ASSUME BlobTypes, WrittenOnce, way' = way,
         \A p \in Puts : user[p].pc # "idle" => user'[p].pc # "idle",
         way.once => \A p, q \in Puts : user'[p].pc # "idle" /\ user'[q].pc # "idle" => p = q,
         meta' = meta \/ Begun(meta', user'),
         \A i \in B!Chunks : chunk'[i] = chunk[i] \/ Begun(chunk'[i], user'),
         \A d \in Gets : user'[d].of = user[d].of \/ Begun(user'[d].of, user')
  PROVE  WrittenOnce'
<1> SUFFICES ASSUME way.once PROVE WrittenOnce'
  BY DEF WrittenOnce
<1>1. \A d \in Gets : user[d].of \in Record
  BY BlobCalls DEF BlobTypes, BlobCall
<1>2. \A p \in Record : Begun(p, user) => Begun(p, user')
  BY DEF Begun, Record
<1>3. Begun(meta', user')
  BY <1>2 DEF WrittenOnce, BlobTypes, Begun
<1>4. \A i \in B!Chunks : Begun(chunk'[i], user')
  BY <1>2 DEF WrittenOnce, BlobTypes, Begun
<1>5. \A d \in Gets : Begun(user'[d].of, user')
  BY <1>1, <1>2 DEF WrittenOnce, Begun
<1>6. QED BY <1>3, <1>4, <1>5 DEF WrittenOnce

LEMMA PutStep ==
  ASSUME BlobInv, NEW c \in Puts, B!Put(c)
  PROVE  BlobInv'
<1> DEFINE n == [user[c] EXCEPT !.pc = "chunks", !.of = c, !.todo = B!Totals(c)]
<1>1. c \in B!Calls /\ user[c] \in BlobCall
  BY BlobCalls DEF BlobInv, BlobTypes
<1>2. n \in BlobCall
  BY <1>1, TotalsAreChunks DEF BlobCall, Record
<1>3. n.pc = "chunks" /\ n.todo = B!Totals(c)
  BY <1>1 DEF BlobCall
<1>4. user' = [user EXCEPT ![c] = n]
  BY <1>1 DEF B!Put, BlobInv, BlobTypes
<1> HIDE DEF n
<1>5. BlobGoes(c, n)
  BY <1>1, <1>2, <1>4, BlobMoves DEF BlobInv
<1>6. /\ UNCHANGED <<way, chunk, meta, failures>> /\ user[c].pc = "idle"
      /\ way.alone => B!Underway = {}
      /\ way.once => \A p \in Puts : user[p].pc = "idle"
  BY DEF B!Put, B!MayBegin
<1>7. \A d \in Gets \cup Deletes : user'[d] = user[d]
  BY <1>5, BlobCalls DEF BlobGoes
<1>8. BlobTypes'
  BY <1>3, <1>5, <1>6 DEF BlobGoes, BlobInv, BlobTypes
<1>9. WrittenOnce'
  <2>1. \A p \in Puts : user'[p].pc = user[p].pc \/ p = c
    BY <1>5, BlobCalls DEF BlobGoes
  <2>2. \A p \in Puts : user[p].pc # "idle" => user'[p].pc # "idle"
    BY <1>6, <2>1
  <2>3. way.once => \A p, q \in Puts : user'[p].pc # "idle" /\ user'[q].pc # "idle" => p = q
    BY <1>6, <2>1
  <2>4. QED BY <1>6, <1>7, <1>8, <2>2, <2>3, StaysWrittenOnce DEF BlobInv
<1>10. OneAtOnce'
  BY <1>1, <1>3, <1>5, <1>6, <1>7, BlobCalls DEF BlobGoes, BlobInv, OneAtOnce, Mine, B!Underway
<1>11. Reading /\ Tidy => Reading'
  BY <1>7 DEF Reading
<1>12. QED BY <1>6, <1>8, <1>9, <1>10, <1>11 DEF BlobInv, Tidy

LEMMA PutChunkStep ==
  ASSUME BlobInv, NEW c \in Puts, B!PutChunk(c)
  PROVE  BlobInv'
<1>1. c \in B!Calls /\ user[c] \in BlobCall
  BY BlobCalls DEF BlobInv, BlobTypes
<1>2. PICK i \in user[c].todo : /\ chunk' = [chunk EXCEPT ![i] = c]
                                /\ user' = B!Handled(c, i, "meta")
  BY DEF B!PutChunk
<1>3. user[c].pc = "chunks" /\ UNCHANGED <<way, meta, failures>>
  BY DEF B!PutChunk
<1> DEFINE n == [user[c] EXCEPT !.todo = @ \ {i}, !.pc = IF user[c].todo = {i} THEN "meta" ELSE @]
<1>4. n \in BlobCall
  BY <1>1 DEF BlobCall
<1>5. n.pc = (IF user[c].todo = {i} THEN "meta" ELSE "chunks") /\ n.todo = user[c].todo \ {i}
  BY <1>1, <1>3 DEF BlobCall
<1>6. user' = [user EXCEPT ![c] = n]
  BY <1>1, <1>2 DEF B!Handled, BlobInv, BlobTypes
<1> HIDE DEF n
<1>7. BlobGoes(c, n)
  BY <1>1, <1>4, <1>6, BlobMoves DEF BlobInv
<1>8. \A d \in Gets \cup Deletes : user'[d] = user[d]
  BY <1>7, BlobCalls DEF BlobGoes
<1>9. /\ chunk' \in [B!Chunks -> Record] /\ (i \in B!Chunks => chunk'[i] = c)
      /\ \A k \in B!Chunks \ {i} : chunk'[k] = chunk[k]
  BY <1>2 DEF BlobInv, BlobTypes, Record
<1>10. BlobTypes'
  BY <1>3, <1>5, <1>7, <1>9 DEF BlobGoes, BlobInv, BlobTypes
<1>11. WrittenOnce'
  <2>1. \A p \in Puts : (user'[p].pc = user[p].pc) \/ (p = c /\ user'[c].pc # "idle")
    BY <1>5, <1>7, BlobCalls DEF BlobGoes
  <2>2. \A p \in Puts : user[p].pc # "idle" <=> user'[p].pc # "idle"
    BY <1>3, <2>1
  <2>3. \A k \in B!Chunks : chunk'[k] = chunk[k] \/ Begun(chunk'[k], user')
    BY <1>3, <1>9, <2>2 DEF Begun
  <2>4. QED BY <1>3, <1>8, <2>2, <2>3, StaysWrittenOnce DEF BlobInv, WrittenOnce
<1>12. OneAtOnce'
  <2>1. SUFFICES ASSUME way.alone, way.faults = 0 PROVE OneAtOnce'
    BY <1>3 DEF OneAtOnce
  <2>2. \A d \in B!Calls : d \in B!Underway => d = c
    BY <1>1, <1>3, <2>1 DEF BlobInv, OneAtOnce, B!Underway
  <2>3. c \in B!Underway' /\ B!Underway' \subseteq {c}
    BY <1>1, <1>5, <1>7, <2>2 DEF BlobGoes, B!Underway
  <2>4. Mine(c, user[c].todo)
    BY <1>3, <2>1 DEF BlobInv, OneAtOnce
  <2>5. \A k \in (B!Totals(c) \cap B!Chunks) \ n.todo : chunk'[k] \in {None, c}
    BY <1>5, <1>9, <2>4 DEF Mine
  <2>6. \A d \in Gets : user'[d].pc # "read"
    BY <1>3, <1>8, <2>2, BlobCalls DEF B!Underway
  <2>7. \A p \in Puts : user'[p].pc \in {"chunks", "meta"} => p = c
    BY <2>2, <1>7, BlobCalls DEF BlobGoes, B!Underway
  <2>8. \A p \in Puts : user'[p].pc \in {"chunks", "meta"} => Mine(p, user[p].todo)'
    BY <1>7, <2>5, <2>7 DEF BlobGoes, Mine
  <2>9. \A d, e \in B!Underway' : d = e
    BY <2>3
  <2>10. QED BY <2>3, <2>6, <2>8, <2>9 DEF OneAtOnce
<1>13. Reading /\ Tidy => Reading'
  BY <1>8 DEF Reading
<1>14. QED BY <1>3, <1>10, <1>11, <1>12, <1>13 DEF BlobInv, Tidy

LEMMA PutMetaStep ==
  ASSUME BlobInv, NEW c \in Puts, B!PutMeta(c)
  PROVE  BlobInv'
<1>1. c \in B!Calls /\ user[c] \in BlobCall
  BY BlobCalls DEF BlobInv, BlobTypes
<1>2. user[c].pc = "meta" /\ meta' = c /\ UNCHANGED <<way, chunk, failures>>
  BY DEF B!PutMeta
<1> DEFINE n == [user[c] EXCEPT !.pc = "done"]
<1>3. n \in BlobCall /\ n.pc = "done"
  BY <1>1 DEF BlobCall
<1>4. user' = [user EXCEPT ![c] = n]
  BY DEF B!PutMeta, B!Goes, BlobInv, BlobTypes
<1> HIDE DEF n
<1>5. BlobGoes(c, n)
  BY <1>1, <1>3, <1>4, BlobMoves DEF BlobInv
<1>6. \A d \in Gets \cup Deletes : user'[d] = user[d]
  BY <1>5, BlobCalls DEF BlobGoes
<1>7. BlobTypes'
  BY <1>2, <1>3, <1>5 DEF BlobGoes, BlobInv, BlobTypes, Record
<1>8. WrittenOnce'
  <2>1. \A p \in Puts : (user'[p].pc = user[p].pc) \/ (p = c /\ user'[c].pc # "idle")
    BY <1>3, <1>5, BlobCalls DEF BlobGoes
  <2>2. \A p \in Puts : user[p].pc # "idle" <=> user'[p].pc # "idle"
    BY <1>2, <2>1
  <2>3. Begun(meta', user')
    BY <1>2, <2>2 DEF Begun
  <2>4. QED BY <1>2, <1>6, <2>2, <2>3, StaysWrittenOnce DEF BlobInv, WrittenOnce
<1>9. OneAtOnce'
  <2>1. SUFFICES ASSUME way.alone, way.faults = 0 PROVE OneAtOnce'
    BY <1>2 DEF OneAtOnce
  <2>2. \A d \in B!Calls : d \in B!Underway => d = c
    BY <1>1, <1>2, <2>1 DEF BlobInv, OneAtOnce, B!Underway
  <2>3. B!Underway' = {}
    BY <1>1, <1>3, <1>5, <2>2 DEF BlobGoes, B!Underway
  <2>4. Mine(c, {})
    BY <1>1, <1>2, <2>1 DEF BlobInv, BlobTypes, OneAtOnce
  <2>5. Mine(meta, {})'
    BY <1>2, <2>4 DEF Mine
  <2>6. \A d \in B!Calls : user'[d].pc \notin {"read", "chunks", "meta"}
    BY <2>3 DEF B!Underway
  <2>7. QED BY <2>3, <2>5, <2>6, BlobCalls DEF OneAtOnce
<1>10. Reading /\ Tidy => Reading'
  BY <1>6 DEF Reading
<1>11. QED BY <1>2, <1>7, <1>8, <1>9, <1>10 DEF BlobInv, Tidy

LEMMA GetStep ==
  ASSUME BlobInv, NEW c \in Gets, B!Get(c)
  PROVE  BlobInv'
<1>1. c \in B!Calls /\ user[c] \in BlobCall /\ meta \in Record
  BY BlobCalls DEF BlobInv, BlobTypes
<1>2. user[c].pc = "idle" /\ (way.alone => B!Underway = {}) /\ UNCHANGED <<way, chunk, meta, failures>>
  BY DEF B!Get, B!MayBegin
<1> DEFINE all == IF meta = None THEN {} ELSE B!Totals(meta)
<1> DEFINE w == IF meta = None THEN "missing" ELSE IF meta \in B!Empty THEN "done" ELSE "read"
<1> DEFINE n == [user[c] EXCEPT !.of = meta, !.todo = all, !.pc = w]
<1>3. None \notin Puts /\ None \notin B!Empty
  BY BlobCalls DEF B!Empty
<1>4. /\ meta = None => w = "missing"
      /\ meta \in B!Empty => w = "done"
      /\ meta \in Puts \ B!Empty => w = "read"
      /\ w \in {"missing", "done", "read"}
  BY <1>1, <1>3 DEF Record
<1>5. all \subseteq Nat
  BY <1>1, TotalsAreChunks DEF Record
<1>6. n \in BlobCall /\ n.pc = w /\ n.of = meta /\ n.todo = all
  BY <1>1, <1>4, <1>5 DEF BlobCall
<1>7. user' = [user EXCEPT ![c] = n]
  BY <1>1 DEF B!Get, BlobInv, BlobTypes
<1> HIDE DEF n, w
<1>8. BlobGoes(c, n)
  BY <1>1, <1>6, <1>7, BlobMoves DEF BlobInv
<1>9. \A d \in Puts \cup Deletes : user'[d] = user[d]
  BY <1>8, BlobCalls DEF BlobGoes
<1>10. \A d \in Gets \ {c} : user'[d] = user[d]
  BY <1>8, BlobCalls DEF BlobGoes
<1>11. user'[c].pc = w /\ user'[c].of = meta /\ user'[c].todo = all
  BY <1>6, <1>8 DEF BlobGoes
<1>12. BlobTypes'
  BY <1>2, <1>4, <1>8, <1>11, BlobCalls DEF BlobGoes, BlobInv, BlobTypes
<1>13. WrittenOnce'
  <2>1. way.once => Begun(meta, user')
    BY <1>1, <1>9 DEF BlobInv, WrittenOnce, Begun, Record
  <2>2. way.once => \A d \in Gets : user'[d].of = user[d].of \/ Begun(user'[d].of, user')
    BY <1>10, <1>11, <2>1
  <2>3. CASE way.once
    BY <1>2, <1>9, <1>12, <2>2, <2>3, StaysWrittenOnce DEF BlobInv, WrittenOnce
  <2>4. CASE ~way.once
    BY <1>2, <2>4 DEF WrittenOnce
  <2>5. QED BY <2>3, <2>4
<1>14. OneAtOnce'
  <2>1. SUFFICES ASSUME way.alone, way.faults = 0 PROVE OneAtOnce'
    BY <1>2 DEF OneAtOnce
  <2>2. B!Underway' \subseteq {c}
    BY <1>2, <1>8, <2>1, BlobCalls DEF BlobGoes, B!Underway
  <2>3. \A p \in Puts : p \notin B!Underway /\ p \notin B!Underway' /\ user'[p].pc \notin {"chunks", "meta"}
    BY <1>2, <1>9, <2>1, BlobCalls DEF B!Underway
  <2>4. meta # None => Mine(meta, {})
    BY <2>1, <2>3 DEF BlobInv, OneAtOnce
  <2>5. \A d \in Gets : user'[d].pc = "read" => d = c /\ meta # None
    BY <1>2, <1>4, <1>10, <1>11, <2>1, BlobCalls DEF B!Underway
  <2>6. \A d \in Gets : (user[d].pc = "read" => Mine(user[d].of, {}))'
    BY <1>2, <1>11, <2>4, <2>5 DEF Mine
  <2>7. (meta # None => Mine(meta, {}))'
    BY <1>2, <2>4 DEF Mine
  <2>8. \A d, e \in B!Underway' : d = e
    BY <2>2
  <2>9. QED BY <2>3, <2>6, <2>7, <2>8 DEF OneAtOnce
<1>15. Reading => Reading'
  <2> SUFFICES ASSUME Reading, NEW d \in Gets
               PROVE /\ (user[d].pc = "read" =>
                             /\ user[d].of \in Puts \ B!Empty /\ user[d].todo \subseteq B!Totals(user[d].of)
                             /\ \A i \in B!Totals(user[d].of) \ user[d].todo : user[d].got[i] = user[d].of)'
                     /\ (user[d].pc = "done" => user[d].of \in B!Empty
                              \/ \A i \in B!Totals(user[d].of) : user[d].got[i] = user[d].of)'
    BY DEF Reading
  <2>1. CASE d # c
    BY <1>10, <2>1 DEF Reading
  <2>2. CASE d = c
    BY <1>1, <1>3, <1>4, <1>11, <2>2 DEF Record
  <2>3. QED BY <2>1, <2>2
<1>16. QED BY <1>2, <1>12, <1>13, <1>14, <1>15 DEF BlobInv, Tidy

LEMMA GetChunkStep ==
  ASSUME BlobInv, NEW c \in Gets, B!GetChunk(c)
  PROVE  BlobInv'
<1>1. c \in B!Calls /\ user[c] \in BlobCall
  BY BlobCalls DEF BlobInv, BlobTypes
<1>2. PICK i \in user[c].todo :
        IF chunk[i] = None THEN B!Goes(c, "missing")
        ELSE user' = [B!Handled(c, i, "done") EXCEPT ![c].got[i] = chunk[i]]
  BY DEF B!GetChunk
<1>3. user[c].pc = "read" /\ UNCHANGED <<way, chunk, meta, failures>>
  BY DEF B!GetChunk
<1>4. PICK n \in BlobCall :
        /\ user' = [user EXCEPT ![c] = n] /\ n.of = user[c].of
        /\ n.pc \in {"read", "done", "missing"}
        /\ n.pc = "read" => n.todo = user[c].todo \ {i}
        /\ n.pc = "done" => user[c].todo = {i}
        /\ n.pc # "missing" => /\ chunk[i] # None
                               /\ \A k \in B!Chunks : n.got[k] = IF k = i THEN chunk[i] ELSE user[c].got[k]
  <2>1. CASE chunk[i] = None
    <3> DEFINE n == [user[c] EXCEPT !.pc = "missing"]
    <3>1. n \in BlobCall /\ n.of = user[c].of /\ n.pc = "missing"
      BY <1>1 DEF BlobCall
    <3>2. user' = [user EXCEPT ![c] = n]
      BY <1>1, <1>2, <2>1 DEF B!Goes, BlobInv, BlobTypes
    <3> HIDE DEF n
    <3>3. QED BY <3>1, <3>2
  <2>2. CASE chunk[i] # None
    <3> DEFINE g == [user[c].got EXCEPT ![i] = chunk[i]]
    <3> DEFINE m == [user[c] EXCEPT !.todo = @ \ {i}, !.pc = IF user[c].todo = {i} THEN "done" ELSE @]
    <3> DEFINE n == [user[c] EXCEPT !.todo = @ \ {i}, !.pc = IF user[c].todo = {i} THEN "done" ELSE @, !.got = g]
    <3>1. g \in [B!Chunks -> Record] /\ \A k \in B!Chunks : g[k] = IF k = i THEN chunk[i] ELSE user[c].got[k]
      BY <1>1 DEF BlobCall, BlobInv, BlobTypes
    <3>2. n \in BlobCall /\ n.of = user[c].of /\ n.got = g /\ n.todo = user[c].todo \ {i}
          /\ n.pc = (IF user[c].todo = {i} THEN "done" ELSE "read")
      BY <1>1, <1>3, <3>1 DEF BlobCall
    <3>3. B!Handled(c, i, "done") = [user EXCEPT ![c] = m]
      BY <1>1 DEF B!Handled, BlobInv, BlobTypes
    <3>4. B!Handled(c, i, "done")[c] = m /\ m.got = user[c].got
      BY <1>1, <3>3 DEF BlobCall, BlobInv, BlobTypes
    <3>5. [m EXCEPT !.got[i] = chunk[i]] = n
      BY <1>1, <3>4 DEF BlobCall
    <3>6. user' = [user EXCEPT ![c] = n]
      BY <1>1, <1>2, <2>2, <3>3, <3>4, <3>5 DEF BlobInv, BlobTypes
    <3> HIDE DEF n, m, g
    <3>7. QED BY <2>2, <3>1, <3>2, <3>6
  <2>3. QED BY <2>1, <2>2
<1>5. BlobGoes(c, n)
  BY <1>1, <1>4, BlobMoves DEF BlobInv
<1>6. \A d \in Puts \cup Deletes : user'[d] = user[d]
  BY <1>5, BlobCalls DEF BlobGoes
<1>7. \A d \in Gets \ {c} : user'[d] = user[d]
  BY <1>5, BlobCalls DEF BlobGoes
<1>8. BlobTypes'
  BY <1>3, <1>4, <1>5, BlobCalls DEF BlobGoes, BlobInv, BlobTypes
<1>9. WrittenOnce'
  <2>1. \A d \in Gets : user'[d].of = user[d].of
    BY <1>4, <1>5, <1>7 DEF BlobGoes
  <2>2. CASE way.once
    BY <1>3, <1>6, <1>8, <2>1, <2>2, StaysWrittenOnce DEF BlobInv, WrittenOnce
  <2>3. CASE ~way.once
    BY <1>3, <2>3 DEF WrittenOnce
  <2>4. QED BY <2>2, <2>3
<1>10. OneAtOnce'
  <2>1. SUFFICES ASSUME way.alone, way.faults = 0 PROVE OneAtOnce'
    BY <1>3 DEF OneAtOnce
  <2>2. \A d \in B!Calls : d \in B!Underway => d = c
    BY <1>1, <1>3, <2>1 DEF BlobInv, OneAtOnce, B!Underway
  <2>3. B!Underway' \subseteq {c}
    BY <1>5, <2>2 DEF BlobGoes, B!Underway
  <2>4. \A p \in Puts : p \notin B!Underway /\ p \notin B!Underway' /\ user'[p].pc \notin {"chunks", "meta"}
    BY <1>6, <2>2, BlobCalls DEF B!Underway
  <2>5. (meta # None => Mine(meta, {}))'
    BY <1>3, <2>1, <2>4 DEF BlobInv, OneAtOnce, Mine
  <2>6. Mine(user[c].of, {})
    BY <1>3, <2>1 DEF BlobInv, OneAtOnce
  <2>7. \A d \in Gets : user'[d].pc = "read" => d = c
    BY <1>7, <2>2, BlobCalls DEF B!Underway
  <2>8. \A d \in Gets : (user[d].pc = "read" => Mine(user[d].of, {}))'
    BY <1>3, <1>4, <1>5, <2>6, <2>7 DEF BlobGoes, Mine
  <2>9. \A d, e \in B!Underway' : d = e
    BY <2>3
  <2>10. QED BY <2>4, <2>5, <2>8, <2>9 DEF OneAtOnce
<1>11. Reading /\ Tidy => Reading'
  <2> SUFFICES ASSUME Reading, Tidy, NEW d \in Gets
               PROVE /\ (user[d].pc = "read" =>
                             /\ user[d].of \in Puts \ B!Empty /\ user[d].todo \subseteq B!Totals(user[d].of)
                             /\ \A k \in B!Totals(user[d].of) \ user[d].todo : user[d].got[k] = user[d].of)'
                     /\ (user[d].pc = "done" => user[d].of \in B!Empty
                              \/ \A k \in B!Totals(user[d].of) : user[d].got[k] = user[d].of)'
    BY DEF Reading
  <2>1. CASE d # c
    BY <1>7, <2>1 DEF Reading
  <2>2. CASE d = c
    <3>1. /\ user[c].of \in Puts \ B!Empty /\ user[c].todo \subseteq B!Totals(user[c].of)
          /\ \A k \in B!Totals(user[c].of) \ user[c].todo : user[c].got[k] = user[c].of
      BY <1>3 DEF Reading
    <3>2. B!Totals(user[c].of) \subseteq B!Chunks
      BY <3>1, TotalsAreChunks
    <3>3. chunk[i] # None => chunk[i] = user[c].of
      BY <1>3, FindsItsOwn
    <3>4. n.pc # "missing" =>
            \A k \in B!Totals(user[c].of) \ (user[c].todo \ {i}) : n.got[k] = user[c].of
      BY <1>4, <3>1, <3>2, <3>3
    <3>5. n.pc = "done" => user[c].todo \ {i} = {}
      BY <1>4
    <3>6. user'[d] = n
      BY <1>5, <2>2 DEF BlobGoes
    <3>7. n.pc = "read" =>
             /\ n.of \in Puts \ B!Empty /\ n.todo \subseteq B!Totals(n.of)
             /\ \A k \in B!Totals(n.of) \ n.todo : n.got[k] = n.of
      BY <1>4, <3>1, <3>4
    <3>8. n.pc = "done" => \A k \in B!Totals(n.of) : n.got[k] = n.of
      BY <1>4, <3>4, <3>5
    <3>9. QED BY <3>6, <3>7, <3>8
  <2>3. QED BY <2>1, <2>2
<1>12. QED BY <1>3, <1>8, <1>9, <1>10, <1>11 DEF BlobInv, Tidy

LEMMA DeleteStep ==
  ASSUME BlobInv, NEW c \in Deletes, B!Delete(c)
  PROVE  BlobInv'
<1>1. c \in B!Calls /\ user[c] \in BlobCall /\ meta \in Record
  BY BlobCalls DEF BlobInv, BlobTypes
<1>2. user[c].pc = "idle" /\ (way.alone => B!Underway = {}) /\ UNCHANGED <<way, chunk, meta, failures>>
  BY DEF B!Delete, B!MayBegin
<1> DEFINE all == IF meta = None THEN {} ELSE B!Totals(meta) \cup {None}
<1> DEFINE w == IF meta = None THEN "missing" ELSE "erase"
<1> DEFINE n == [user[c] EXCEPT !.of = meta, !.pc = w, !.todo = all]
<1>3. all \subseteq Nat \cup {None}
  BY <1>1, TotalsAreChunks DEF Record
<1>4. n \in BlobCall /\ n.pc \in {"missing", "erase"}
  BY <1>1, <1>3 DEF BlobCall
<1>5. user' = [user EXCEPT ![c] = n]
  BY <1>1 DEF B!Delete, BlobInv, BlobTypes
<1> HIDE DEF n, w, all
<1>6. BlobGoes(c, n)
  BY <1>1, <1>4, <1>5, BlobMoves DEF BlobInv
<1>7. \A d \in Puts \cup Gets : user'[d] = user[d]
  BY <1>6, BlobCalls DEF BlobGoes
<1>8. BlobTypes'
  BY <1>2, <1>4, <1>6, BlobCalls DEF BlobGoes, BlobInv, BlobTypes
<1>9. WrittenOnce'
  BY <1>2, <1>7, <1>8, StaysWrittenOnce DEF BlobInv, WrittenOnce
<1>10. OneAtOnce'
  <2>1. SUFFICES ASSUME way.alone, way.faults = 0 PROVE OneAtOnce'
    BY <1>2 DEF OneAtOnce
  <2>2. B!Underway' \subseteq {c}
    BY <1>2, <1>6, <2>1, BlobCalls DEF BlobGoes, B!Underway
  <2>3. \A p \in Puts \cup Gets : p \notin B!Underway /\ user'[p].pc \notin {"chunks", "meta", "read"}
    BY <1>2, <1>7, <2>1, BlobCalls DEF B!Underway
  <2>4. (meta # None => Mine(meta, {}))'
    BY <1>2, <2>1, <2>3 DEF BlobInv, OneAtOnce, Mine
  <2>5. \A d, e \in B!Underway' : d = e
    BY <2>2
  <2>6. QED BY <2>3, <2>4, <2>5 DEF OneAtOnce
<1>11. Reading /\ Tidy => Reading'
  BY <1>7 DEF Reading
<1>12. QED BY <1>2, <1>8, <1>9, <1>10, <1>11 DEF BlobInv, Tidy

(* Records that go, whoever takes them away.                               *)
LEMMA LessIsLeft ==
  ASSUME BlobInv, BlobTypes', UNCHANGED way,
         meta' \in {None, meta}, \A i \in B!Chunks : chunk'[i] \in {None, chunk[i]},
         \A d \in Puts \cup Gets :
           user'[d] = user[d] \/ (user[d].pc # "idle" /\ user'[d].pc = "failed" /\ user'[d].of = user[d].of),
         \A d \in B!Calls : d \in B!Underway' => d \in B!Underway,
         way.faults = 0 => \A d \in Puts \cup Gets : user'[d] = user[d]
  PROVE  BlobInv'
<1>1. WrittenOnce'
  <2>1. \A p \in Puts : user[p].pc # "idle" <=> user'[p].pc # "idle"
    OBVIOUS
  <2>2. \A d \in Gets : user'[d].of = user[d].of
    OBVIOUS
  <2>3. \A u : Begun(None, u)
    BY DEF Begun
  <2>4. QED BY <2>1, <2>2, <2>3, StaysWrittenOnce DEF BlobInv, WrittenOnce
<1>2. OneAtOnce'
  <2>1. SUFFICES ASSUME way.alone, way.faults = 0 PROVE OneAtOnce'
    BY DEF OneAtOnce
  <2>2. \A d \in Puts \cup Gets : user'[d] = user[d]
    BY <2>1
  <2>3. \A d, e \in B!Underway' : d = e
    BY <2>1 DEF BlobInv, OneAtOnce, B!Underway
  <2>4. \A p, todo : Mine(p, todo) => Mine(p, todo)'
    BY DEF Mine
  <2>5. \A p \in Puts : p \in B!Underway' <=> p \in B!Underway
    BY <2>2, BlobCalls DEF B!Underway
  <2>6. (meta # None /\ (\A p \in Puts : p \notin B!Underway) => Mine(meta, {}))'
    BY <2>1, <2>4, <2>5 DEF BlobInv, OneAtOnce
  <2>7. \A p \in Puts : (user[p].pc \in {"chunks", "meta"} => Mine(p, user[p].todo))'
    BY <2>1, <2>2, <2>4 DEF BlobInv, OneAtOnce
  <2>8. \A d \in Gets : (user[d].pc = "read" => Mine(user[d].of, {}))'
    BY <2>1, <2>2, <2>4 DEF BlobInv, OneAtOnce
  <2>9. QED BY <2>3, <2>6, <2>7, <2>8 DEF OneAtOnce
<1>3. Reading => Reading'
  BY DEF Reading
<1>4. QED BY <1>1, <1>2, <1>3 DEF BlobInv, Tidy

LEMMA EraseStep ==
  ASSUME BlobInv, NEW c \in Deletes, B!Erase(c)
  PROVE  BlobInv'
<1>1. c \in B!Calls /\ user[c] \in BlobCall
  BY BlobCalls DEF BlobInv, BlobTypes
<1>2. PICK i \in user[c].todo :
        /\ IF i = None THEN meta' = None /\ UNCHANGED chunk
           ELSE chunk' = [chunk EXCEPT ![i] = None] /\ UNCHANGED meta
        /\ user' = B!Handled(c, i, "done")
  BY DEF B!Erase, B!Erases
<1>3. user[c].pc = "erase" /\ UNCHANGED <<way, failures>>
  BY DEF B!Erase
<1> DEFINE n == [user[c] EXCEPT !.todo = @ \ {i}, !.pc = IF user[c].todo = {i} THEN "done" ELSE @]
<1>4. n \in BlobCall /\ n.pc \in {"erase", "done"}
  BY <1>1, <1>3 DEF BlobCall
<1>5. user' = [user EXCEPT ![c] = n]
  BY <1>1, <1>2 DEF B!Handled, BlobInv, BlobTypes
<1> HIDE DEF n
<1>6. BlobGoes(c, n)
  BY <1>1, <1>4, <1>5, BlobMoves DEF BlobInv
<1>7. \A d \in Puts \cup Gets : user'[d] = user[d]
  BY <1>6, BlobCalls DEF BlobGoes
<1>8. /\ meta' \in {None, meta} /\ chunk' \in [B!Chunks -> Record]
      /\ \A k \in B!Chunks : chunk'[k] \in {None, chunk[k]}
  BY <1>2 DEF BlobInv, BlobTypes, Record
<1>9. BlobTypes'
  BY <1>3, <1>4, <1>6, <1>8, BlobCalls DEF BlobGoes, BlobInv, BlobTypes, Record
<1>10. \A d \in B!Calls : d \in B!Underway' => d \in B!Underway
  BY <1>3, <1>6 DEF BlobGoes, B!Underway
<1>11. QED BY <1>3, <1>7, <1>8, <1>9, <1>10, LessIsLeft

LEMMA FailsStep ==
  ASSUME BlobInv, NEW c \in B!Calls, B!Fails(c)
  PROVE  BlobInv'
<1>1. c \in B!Underway /\ failures < way.faults /\ UNCHANGED <<way, chunk, meta>> /\ user[c] \in BlobCall
      /\ failures \in Nat /\ failures' \in Nat
  BY DEF B!Fails, BlobInv, BlobTypes
<1> DEFINE n == [user[c] EXCEPT !.pc = "failed"]
<1>2. n \in BlobCall /\ n.pc = "failed" /\ n.of = user[c].of
  BY <1>1 DEF BlobCall
<1>3. user' = [user EXCEPT ![c] = n]
  BY DEF B!Fails, B!Goes, BlobInv, BlobTypes
<1> HIDE DEF n
<1>4. BlobGoes(c, n)
  BY <1>2, <1>3, BlobMoves DEF BlobInv
<1>5. BlobTypes'
  BY <1>1, <1>2, <1>4 DEF BlobGoes, BlobInv, BlobTypes
<1>6. \A d \in B!Calls : d \in B!Underway' => d \in B!Underway
  BY <1>2, <1>4 DEF BlobGoes, B!Underway
<1>7. user[c].pc # "idle" /\ Puts \cup Gets \subseteq B!Calls
  BY <1>1, BlobCalls DEF B!Underway
<1>8. way.faults # 0
  BY <1>1
<1>9. \A d \in Puts \cup Gets :
        user'[d] = user[d] \/ (user[d].pc # "idle" /\ user'[d].pc = "failed" /\ user'[d].of = user[d].of)
  BY <1>2, <1>4, <1>7 DEF BlobGoes
<1>10. QED BY <1>1, <1>5, <1>6, <1>8, <1>9, LessIsLeft

LEMMA GoesOnStep ==
  ASSUME BlobInv, NEW c \in B!Calls, B!GoesOn(c)
  PROVE  BlobInv'
<1>1. PICK i \in user[c].todo :
        /\ \/ c \in Puts /\ chunk' = [chunk EXCEPT ![i] = c] /\ UNCHANGED meta
           \/ c \in Deletes /\ B!Erases(i)
        /\ user' = [user EXCEPT ![c].todo = @ \ {i}]
  BY DEF B!GoesOn
<1>2. /\ user[c].pc = "failed" /\ UNCHANGED <<way, failures>> /\ user[c] \in BlobCall
      /\ way.faults # 0
  BY DEF B!GoesOn, BlobInv, BlobTypes
<1> DEFINE n == [user[c] EXCEPT !.todo = @ \ {i}]
<1>3. n \in BlobCall /\ n.pc = "failed" /\ n.of = user[c].of
  BY <1>2 DEF BlobCall
<1>4. user' = [user EXCEPT ![c] = n]
  BY <1>1 DEF BlobInv, BlobTypes
<1> HIDE DEF n
<1>5. BlobGoes(c, n)
  BY <1>3, <1>4, BlobMoves DEF BlobInv
<1>6. CASE c \in Puts /\ chunk' = [chunk EXCEPT ![i] = c] /\ UNCHANGED meta
  <2>1. \A d \in Gets \cup Deletes : user'[d] = user[d]
    BY <1>5, <1>6, BlobCalls DEF BlobGoes
  <2>2. /\ chunk' \in [B!Chunks -> Record]
        /\ \A k \in B!Chunks : chunk'[k] = chunk[k] \/ chunk'[k] = c
    BY <1>6 DEF BlobInv, BlobTypes, Record
  <2>3. BlobTypes'
    BY <1>2, <1>3, <1>5, <1>6, <2>2 DEF BlobGoes, BlobInv, BlobTypes
  <2>4. WrittenOnce'
    <3>1. \A p \in Puts : user'[p].pc = user[p].pc
      BY <1>2, <1>3, <1>5, BlobCalls DEF BlobGoes
    <3>2. \A k \in B!Chunks : chunk'[k] = chunk[k] \/ Begun(chunk'[k], user')
      BY <1>3, <1>5, <2>2 DEF Begun, BlobGoes
    <3>3. QED BY <1>2, <1>6, <2>1, <3>1, <3>2, StaysWrittenOnce DEF BlobInv, WrittenOnce
  <2>5. OneAtOnce'
    BY <1>2 DEF OneAtOnce
  <2>6. Reading /\ Tidy => Reading'
    BY <2>1 DEF Reading
  <2>7. QED BY <1>2, <2>3, <2>4, <2>5, <2>6 DEF BlobInv, Tidy
<1>7. CASE c \in Deletes /\ B!Erases(i)
  <2>1. \A d \in Puts \cup Gets : user'[d] = user[d]
    BY <1>5, <1>7, BlobCalls DEF BlobGoes
  <2>2. /\ meta' \in {None, meta} /\ chunk' \in [B!Chunks -> Record]
        /\ \A k \in B!Chunks : chunk'[k] \in {None, chunk[k]}
    BY <1>7 DEF B!Erases, BlobInv, BlobTypes, Record
  <2>3. BlobTypes'
    BY <1>2, <1>3, <1>5, <2>2 DEF BlobGoes, BlobInv, BlobTypes, Record
  <2>4. \A d \in B!Calls : d \in B!Underway' => d \in B!Underway
    BY <1>3, <1>5 DEF BlobGoes, B!Underway
  <2>5. QED BY <1>2, <2>1, <2>2, <2>3, <2>4, LessIsLeft
<1>8. QED BY <1>1, <1>6, <1>7

LEMMA ExpiresStep ==
  ASSUME BlobInv, B!Expires
  PROVE  BlobInv'
<1>1. UNCHANGED <<way, user, failures>>
  BY DEF B!Expires
<1>2. /\ meta' \in {None, meta} /\ chunk' \in [B!Chunks -> Record]
      /\ \A k \in B!Chunks : chunk'[k] \in {None, chunk[k]}
  BY DEF B!Expires, BlobInv, BlobTypes, Record
<1>3. BlobTypes'
  BY <1>1, <1>2 DEF BlobInv, BlobTypes, Record
<1>4. \A d \in B!Calls : d \in B!Underway' => d \in B!Underway
  BY <1>1 DEF B!Underway
<1>5. QED BY <1>1, <1>2, <1>3, <1>4, LessIsLeft

LEMMA BlobStep == BlobInv /\ B!Next => BlobInv'
<1> SUFFICES ASSUME BlobInv, B!Next PROVE BlobInv'
  OBVIOUS
<1>1. ASSUME NEW c \in Puts, B!Put(c) \/ B!PutChunk(c) \/ B!PutMeta(c) PROVE BlobInv'
  BY <1>1, PutStep, PutChunkStep, PutMetaStep
<1>2. ASSUME NEW c \in Gets, B!Get(c) \/ B!GetChunk(c) PROVE BlobInv'
  BY <1>2, GetStep, GetChunkStep
<1>3. ASSUME NEW c \in Deletes, B!Delete(c) \/ B!Erase(c) PROVE BlobInv'
  BY <1>3, DeleteStep, EraseStep
<1>4. ASSUME NEW c \in B!Calls, B!Fails(c) \/ B!GoesOn(c) PROVE BlobInv'
  BY <1>4, FailsStep, GoesOnStep
<1>5. ASSUME B!Expires PROVE BlobInv'
  BY <1>5, ExpiresStep
<1>6. QED BY <1>1, <1>2, <1>3, <1>4, <1>5 DEF B!Next

LEMMA BlobGoal == BlobInv /\ Tidy => WholeOrNothing
BY DEF BlobInv, Reading, WholeOrNothing, B!WholeOrNothing

-----------------------------------------------------------------------------
(* SoftDelete                                                              *)

Graves == {D!Buried(v) : v \in Values}

(* What is there is a value or a buried one; who is about to bury has a    *)
(* value, and who is about to restore has a buried one.                    *)
SoftKinds ==
  /\ row \in {None} \cup Values \cup Graves
  /\ caller \in [Callers -> [pc: {"idle", "bury", "unearth"}, read: {None} \cup Values \cup Graves]]
  /\ \A c \in Callers : /\ caller[c].pc = "bury" => caller[c].read \in Values
                        /\ caller[c].pc = "unearth" => caller[c].read \in Graves

(* Objects that are not marked, and have more than a field _value, or none *)
(* of that name.                                                           *)
PlainValues ==
  \A v \in Values : v.kind = "object" =>
    "_deletedAt" \notin DOMAIN v.of /\ DOMAIN v.of # {"_value"}

SoftInv == PlainValues => SoftKinds

(* What a value looks like: an object that is not deleted, or a scalar.    *)
LEMMA ValuesAre ==
  ASSUME PlainValues, NEW v \in Values
  PROVE  ~D!IsDeleted(v) /\ v # None
<1>1. /\ v # None
      /\ \/ v.kind = "scalar"
         \/ "_deletedAt" \notin DOMAIN v.of
  BY ServicesAssumption DEF D!SoftDeleteAssumption, D!Object, PlainValues
<1>2. QED BY <1>1 DEF D!IsDeleted

(* A buried value is deleted, and comes back as it was.                    *)
LEMMA BuriedIs ==
  ASSUME PlainValues, NEW v \in Values
  PROVE  /\ D!Buried(v) # None => D!IsDeleted(D!Buried(v))
         /\ D!Unearthed(D!Buried(v)) = v
<1> DEFINE inner == IF v.kind = "scalar" THEN D!Field("_value", v.of["is"]) ELSE v.of
<1> DEFINE f == D!Joined(inner, D!Field("_deletedAt", "now"))
<1>1. D!Buried(v) = D!Object(f)
  BY DEF D!Buried
<1>2. D!Buried(v).kind = "object" /\ D!Buried(v).of = f
  BY <1>1 DEF D!Object
<1>3. DOMAIN f = DOMAIN inner \cup {"_deletedAt"}
  BY DEF D!Joined, D!Field
<1>4. \A x \in DOMAIN inner : x # "_deletedAt" => f[x] = inner[x]
  BY DEF D!Joined, D!Field
<1>5. D!Buried(v) # None => D!IsDeleted(D!Buried(v))
  BY <1>2, <1>3 DEF D!IsDeleted
<1>6. \/ v.kind = "scalar" /\ v = D!Scalar(v.of["is"])
      \/ /\ v = D!Object([n \in DOMAIN v.of |-> v.of[n]])
         /\ "_deletedAt" \notin DOMAIN v.of /\ DOMAIN v.of # {"_value"}
  BY ServicesAssumption DEF D!SoftDeleteAssumption, D!Object, PlainValues
<1>7. CASE v.kind = "scalar" /\ v = D!Scalar(v.of["is"])
  <2>1. DOMAIN inner = {"_value"} /\ inner["_value"] = v.of["is"]
    BY <1>7 DEF D!Field
  <2>2. DOMAIN f = {"_value", "_deletedAt"} /\ f["_value"] = v.of["is"]
    BY <1>3, <1>4, <2>1
  <2> HIDE DEF f
  <2>3. D!Unearthed(D!Buried(v)) = D!Scalar(v.of["is"])
    BY <1>2, <2>2 DEF D!Unearthed
  <2>4. QED BY <1>5, <1>7, <2>3
<1>8. CASE /\ v = D!Object([n \in DOMAIN v.of |-> v.of[n]])
           /\ "_deletedAt" \notin DOMAIN v.of /\ DOMAIN v.of # {"_value"}
  <2>1. v.kind = "object"
    BY <1>8 DEF D!Object
  <2>2. inner = v.of
    BY <2>1
  <2>3. DOMAIN f = DOMAIN v.of \cup {"_deletedAt"} /\ \A x \in DOMAIN v.of : f[x] = v.of[x]
    BY <1>3, <1>4, <1>8, <2>2
  <2> HIDE DEF f, inner
  <2>4. DOMAIN f # {"_value", "_deletedAt"} /\ DOMAIN f \ {"_deletedAt"} = DOMAIN v.of
    BY <1>8, <2>3
  <2>5. [n \in DOMAIN v.of |-> f[n]] = [n \in DOMAIN v.of |-> v.of[n]]
    BY <2>3
  <2>6. D!Unearthed(D!Buried(v)) = D!Object([n \in DOMAIN v.of |-> f[n]])
    BY <1>2, <2>4 DEF D!Unearthed, D!Restrict
  <2>7. QED BY <1>5, <1>8, <2>5, <2>6
<1>9. QED BY <1>6, <1>7, <1>8

LEMMA SoftInit == D!Init => SoftInv
BY DEF D!Init, D!Idle, SoftInv, SoftKinds

LEMMA SoftStep == SoftInv /\ D!Next => SoftInv'
<1> SUFFICES ASSUME PlainValues, SoftKinds, D!Next PROVE SoftKinds'
  BY DEF SoftInv, PlainValues
<1>1. ASSUME NEW c \in Callers, D!DeleteReads(c) PROVE SoftKinds'
  <2>1. CASE D!Visible(row) = None
    BY <1>1, <2>1 DEF D!DeleteReads, SoftKinds
  <2>2. CASE D!Visible(row) # None
    <3>1. ~D!IsDeleted(row) /\ row # None
      BY <2>2 DEF D!Visible
    <3>2. row \in Values
      BY <3>1, BuriedIs DEF SoftKinds, Graves
    <3>3. QED BY <1>1, <2>2, <3>2 DEF D!DeleteReads, SoftKinds
  <2>3. QED BY <2>1, <2>2
<1>2. ASSUME NEW c \in Callers, D!RestoreReads(c) PROVE SoftKinds'
  <2>1. D!IsDeleted(row) => row \in Graves
    BY ValuesAre DEF SoftKinds, D!IsDeleted
  <2>2. QED BY <1>2, <2>1 DEF D!RestoreReads, SoftKinds
<1>3. ASSUME NEW c \in Callers, D!DeleteWrites(c) PROVE SoftKinds'
  <2>1. row' \in Graves
    BY <1>3 DEF D!DeleteWrites, SoftKinds, Graves
  <2>2. QED BY <1>3, <2>1 DEF D!DeleteWrites, D!Idle, SoftKinds
<1>4. ASSUME NEW c \in Callers, D!RestoreWrites(c) PROVE SoftKinds'
  <2>1. row' \in Values
    BY <1>4, BuriedIs DEF D!RestoreWrites, SoftKinds, Graves
  <2>2. QED BY <1>4, <2>1 DEF D!RestoreWrites, D!Idle, SoftKinds
<1>5. ASSUME NEW c \in Callers, D!Set(c) \/ D!HardDelete(c) PROVE SoftKinds'
  BY <1>5 DEF D!Set, D!HardDelete, SoftKinds
<1>6. CASE D!Expires
  BY <1>6 DEF D!Expires, SoftKinds
<1>7. QED BY <1>1, <1>2, <1>3, <1>4, <1>5, <1>6 DEF D!Next

LEMMA SoftGoal == SoftInv /\ PlainValues => NothingInvented
<1> SUFFICES ASSUME SoftKinds, PlainValues PROVE D!Visible(row) \in Values \cup {None}
  BY DEF SoftInv, NothingInvented, D!NothingInvented
<1>1. CASE row \in Values \cup {None}
  BY <1>1 DEF D!Visible
<1>2. CASE row \in Graves
  BY <1>2, BuriedIs DEF D!Visible, Graves
<1>3. QED BY <1>1, <1>2 DEF SoftKinds

-----------------------------------------------------------------------------
(* Schedule                                                                *)

SchedJob  == [state: {"none", "delayed", "active", "completed", "failed"}, runAt: Nat, attempts: Nat,
              by: Workers \cup {None}]
SchedWork == [pc: {"idle", "work", "complete", "retry", "bury", "trigger", "push", "delete"},
              id: S!Times, next: S!Times]
SchedCall == [pc: {"idle", "row", "push", "done"}, next: S!Times, runAt: Nat]

(* Types, and which ends of a job there are.                               *)
SchedTypes ==
  /\ plan \in Schedules /\ minute \in 1..LastMinute /\ planned \in BOOLEAN
  /\ jobs \in [S!Times -> SchedJob] /\ worker \in [Workers -> SchedWork]
  /\ scheduler \in [Schedulers -> SchedCall] /\ starts \in [S!Times -> Nat]
  /\ \A w \in Workers : /\ worker[w].pc = "complete" => ~plan.removes
                        /\ worker[w].pc \in {"bury", "retry"} => plan.rejects

(* Pushes are prompt, and no match of the expression is repeated when the  *)
(* clock is put back.                                                      *)
Steady ==
  /\ plan.prompt
  /\ plan.cron => \A l \in (plan.turn - plan.back + 1)..(plan.turn - 1) : l % plan.period # 0

(* What is to come has not been begun.                                     *)
InTime ==
  Steady =>
    /\ \A c \in Schedulers :
         /\ scheduler[c].pc = "row"  => scheduler[c].next > minute
                                        /\ scheduler[c].next = scheduler[c].runAt + minute
         /\ scheduler[c].pc = "push" => scheduler[c].next > minute /\ scheduler[c].runAt = scheduler[c].next
    /\ \A w \in Workers : /\ worker[w].pc # "idle" => worker[w].id <= minute
                          /\ worker[w].pc = "push" => worker[w].next > minute
    /\ \A t \in S!Times : t > minute => /\ jobs[t].state \in {"none", "delayed"} /\ starts[t] = 0
                                        /\ jobs[t].state = "delayed" => jobs[t].runAt >= t

(* A job that is there and has had no attempt was not begun before.        *)
OnceEach ==
  Steady => \A t \in S!Times :
    starts[t] <= 1 /\ (jobs[t].state # "none" /\ jobs[t].attempts = 0 => starts[t] = 0)

Sure ==
  Steady /\ S!PlainNames /\ ~plan.triggerFails /\ (plan.crashes => plan.removes /\ ~plan.rejects)

(* The link of the chain that holds: a push to come, or a job that nobody  *)
(* is about to delete, or, if nobody dies, a worker that will push.        *)
Link ==
  \/ \E c \in Schedulers : scheduler[c].pc = "push"
  \/ \E t \in S!Times : /\ jobs[t].state \in {"delayed", "active"}
                        /\ \A w \in Workers : ~(worker[w].pc = "delete" /\ worker[w].id = t)
  \/ ~plan.crashes /\ \E w \in Workers : worker[w].pc \in {"trigger", "push"}

SchedInv == SchedTypes /\ InTime /\ OnceEach /\ (Sure /\ planned => Link)

LEMMA PlanStays ==
  ASSUME plan' = plan
  PROVE  (Steady' <=> Steady) /\ (Sure' <=> Sure)
BY DEF Steady, Sure, S!PlainNames

LEMMA NoRest ==
  ASSUME NEW p \in Nat, p > 0, NEW k \in Nat, NEW x \in Nat, x = p * k
  PROVE  x % p = 0
<1> DEFINE q == x \div p
<1> DEFINE r == x % p
<1>1. q \in Nat /\ r \in 0..(p - 1) /\ x = (p * q) + r
  OBVIOUS
<1> HIDE DEF q, r
<1>2. p * (k - q) = r /\ (p * (q - k)) + r = 0
  BY <1>1
<1>3. CASE k - q >= 1
  <2>1. p * (k - q) >= p
    BY <1>1, <1>3
  <2>2. QED BY <1>1, <1>2, <2>1
<1>4. CASE q - k >= 1
  <2>1. p * (q - k) >= p
    BY <1>1, <1>4
  <2>2. QED BY <1>1, <1>2, <2>1
<1>5. CASE k = q
  BY <1>1, <1>2, <1>5 DEF r
<1>6. QED BY <1>1, <1>3, <1>4, <1>5

(* Every p times in a row have a multiple of p among them.                 *)
LEMMA Multiple ==
  ASSUME NEW t \in Nat, NEW p \in Nat, p > 0
  PROVE  \E n \in (t + 1)..(t + p) : n % p = 0
<1>1. t % p \in 0..(p - 1)
  OBVIOUS
<1>2. t = (p * (t \div p)) + (t % p)
  OBVIOUS
<1> DEFINE n == (t - (t % p)) + p
<1>3. n = p * ((t \div p) + 1)
  BY <1>2
<1>4. n \in (t + 1)..(t + p)
  BY <1>1
<1>5. n \in Nat /\ (t \div p) + 1 \in Nat
  BY <1>1, <1>2
<1>7. n % p = 0
  BY <1>3, <1>5, NoRest
<1>8. QED BY <1>4, <1>7

(* A run that is next is a time; and it is later, unless a match is        *)
(* repeated.                                                               *)
LEMMA NextRunIs ==
  ASSUME NEW t \in Nat, plan \in Schedules
  PROVE  /\ S!NextRun(t) \in 0..(t + plan.period + plan.back)
         /\ plan.period + plan.back <= MaxPeriod /\ plan.period \in Nat /\ plan.back \in Nat
         /\ Steady => S!NextRun(t) > t
<1>1. /\ plan.period \in Nat /\ plan.period > 0 /\ plan.period + plan.back <= MaxPeriod
      /\ plan.turn \in Nat /\ plan.back \in Nat /\ plan.back <= plan.turn
  BY ServicesAssumption DEF S!ScheduleAssumption
<1>2. CASE plan.cron
  <2> DEFINE l == S!Local(t)
  <2> DEFINE n == CHOOSE k \in (l + 1)..(l + plan.period) : k % plan.period = 0
  <2>1. l \in Nat /\ l = IF t < plan.turn THEN t ELSE t - plan.back
    BY <1>1 DEF S!Local
  <2> HIDE DEF l
  <2>2. n \in (l + 1)..(l + plan.period) /\ n % plan.period = 0
    BY <1>1, <2>1, Multiple
  <2>3. S!NextRun(t) = IF n < plan.turn THEN n ELSE n + plan.back
    BY <1>2 DEF S!NextRun, S!Period, S!Instant, l
  <2> HIDE DEF n
  <2>4. S!NextRun(t) \in 0..(t + plan.period + plan.back)
    BY <1>1, <2>1, <2>2, <2>3
  <2>5. ASSUME Steady PROVE S!NextRun(t) > t
    <3>1. n \notin (plan.turn - plan.back + 1)..(plan.turn - 1)
      BY <1>2, <2>2, <2>5 DEF Steady
    <3>2. QED BY <1>1, <2>1, <2>2, <2>3, <3>1
  <2>6. QED BY <1>1, <2>4, <2>5
<1>3. CASE ~plan.cron
  <2>1. S!NextRun(t) = t + plan.period
    BY <1>3 DEF S!NextRun, S!Period
  <2>2. QED BY <1>1, <2>1
<1>4. QED BY <1>2, <1>3

LEMMA TimesAre ==
  /\ LastMinute \in Nat \ {0} /\ MaxPeriod \in Nat /\ S!Times = 0..(LastMinute + MaxPeriod)
  /\ \A s \in Schedules : {s.cron, s.removes, s.rejects, s.crashes, s.triggerFails, s.prompt} \subseteq BOOLEAN
BY ServicesAssumption DEF S!ScheduleAssumption, S!Times

LEMMA NextRunIsATime ==
  ASSUME SchedTypes
  PROVE  /\ S!NextRun(minute) \in S!Times /\ minute \in Nat
         /\ Steady => S!NextRun(minute) > minute
<1>1. minute \in Nat /\ minute <= LastMinute
  BY TimesAre DEF SchedTypes
<1>2. /\ S!NextRun(minute) \in 0..(minute + plan.period + plan.back)
      /\ plan.period + plan.back <= MaxPeriod /\ plan.period \in Nat /\ plan.back \in Nat
      /\ Steady => S!NextRun(minute) > minute
  BY <1>1, NextRunIs DEF SchedTypes
<1>3. QED BY <1>1, <1>2, TimesAre

(* The third part of an id whose second and third are words.               *)
LEMMA ThirdPart ==
  ASSUME NEW W, NEW a \in W, NEW q \in Seq(W), NEW n \in Seq(W), Len(q) = 1, Len(n) = 1
  PROVE  (<<a>> \o q \o n)[3] = n[1]
<1> DEFINE p == <<a>> \o q
<1>1. <<a>> \in Seq(W) /\ Len(<<a>>) = 1
  OBVIOUS
<1>2. p \in Seq(W) /\ Len(p) = 2
  BY <1>1, ConcatProperties
<1> HIDE DEF p
<1>3. \A i \in 1..(Len(p) + Len(n)) : (p \o n)[i] = IF i <= Len(p) THEN p[i] ELSE n[i - Len(p)]
  BY <1>2, ConcatProperties
<1>4. 3 \in 1..(Len(p) + Len(n)) /\ ~(3 <= Len(p)) /\ 3 - Len(p) = 1
  BY <1>2
<1>5. (p \o n)[3] = n[1]
  BY <1>3, <1>4, Zenon
<1>6. QED BY <1>5 DEF p

(* A name without a colon is read from the id as it is.                    *)
LEMMA PlainIsFound ==
  ASSUME S!PlainNames, plan \in Schedules
  PROVE  S!Found <=> planned
<1> DEFINE Words == STRING \cup {"sched"}
<1>1. plan.queue \in Seq(STRING) /\ plan.name \in Seq(STRING)
  BY ServicesAssumption DEF S!ScheduleAssumption
<1>2. plan.queue \in Seq(Words) /\ plan.name \in Seq(Words)
  BY <1>1, SeqMonotonic
<1>3. Len(plan.queue) = 1 /\ Len(plan.name) = 1
  BY DEF S!PlainNames
<1>4. plan.name # <<"">>
  BY DEF S!PlainNames
<1>5. "sched" \in Words
  OBVIOUS
<1> HIDE DEF Words
<1>6. S!ScheduleName = plan.name[1]
  <2>1. \A w \in Words : (<<w>> \o plan.queue \o plan.name)[3] = plan.name[1]
    <3>1. ASSUME NEW q \in Seq(Words), NEW n \in Seq(Words), Len(q) = 1, Len(n) = 1, NEW w \in Words
          PROVE  (<<w>> \o q \o n)[3] = n[1]
      BY <3>1, ThirdPart, Zenon
    <3>2. QED BY <1>2, <1>3, <3>1, Zenon
  <2>2. QED BY <1>5, <2>1, Zenon DEF S!ScheduleName
<1>7. plan.name = <<plan.name[1]>>
  <2>1. 1 \in 1..Len(plan.name)
    BY <1>3
  <2>2. plan.name[1] \in Words
    BY <1>2, <2>1, ElementOfSeq, Zenon
  <2>3. <<plan.name[1]>> \in Seq(Words) /\ Len(<<plan.name[1]>>) = 1
    BY <2>2
  <2>4. \A i \in 1..1 : plan.name[i] = <<plan.name[1]>>[i]
    OBVIOUS
  <2>5. QED BY <1>2, <1>3, <2>3, <2>4, SeqEqual
<1>8. QED BY <1>4, <1>6, <1>7, Zenon DEF S!Found, S!RowKey

LEMMA SchedInit == S!Init => SchedInv
<1> SUFFICES ASSUME S!Init PROVE SchedInv
  OBVIOUS
<1>1. 0 \in S!Times /\ 1 \in 1..LastMinute
  BY TimesAre
<1>2. S!NoJob \in SchedJob /\ S!Idle \in SchedWork /\ S!Quiet \in SchedCall
  BY <1>1 DEF S!NoJob, S!Idle, S!Quiet, SchedJob, SchedWork, SchedCall
<1>3. /\ \A t \in S!Times : jobs[t].state = "none" /\ starts[t] = 0
      /\ \A w \in Workers : worker[w].pc = "idle"
      /\ \A c \in Schedulers : scheduler[c].pc = "idle"
  BY DEF S!Init, S!NoJob, S!Idle, S!Quiet
<1>4. SchedTypes
  BY <1>1, <1>2, <1>3 DEF S!Init, SchedTypes
<1>5. InTime /\ OnceEach /\ ~planned
  BY <1>3 DEF S!Init, InTime, OnceEach
<1>6. QED BY <1>4, <1>5 DEF SchedInv

(* Worker w goes to n.                                                     *)
WorkGoes(w, n) ==
  /\ n \in SchedWork /\ worker' \in [Workers -> SchedWork] /\ worker'[w] = n
  /\ \A v \in Workers \ {w} : worker'[v] = worker[v]

LEMMA WorkMoves ==
  ASSUME SchedTypes, NEW w \in Workers, NEW n \in SchedWork, worker' = [worker EXCEPT ![w] = n]
  PROVE  WorkGoes(w, n)
BY DEF SchedTypes, WorkGoes

(* What Goes() makes of a worker.                                          *)
LEMMA GoesTo ==
  ASSUME SchedTypes, NEW w \in Workers,
         NEW pc \in {"idle", "complete", "retry", "bury", "trigger", "delete"}, S!Goes(w, pc)
  PROVE  \E n \in SchedWork : /\ WorkGoes(w, n) /\ n.pc = pc
                              /\ pc # "idle" => n.id = worker[w].id
<1>1. worker[w] \in SchedWork /\ 0 \in S!Times
  BY TimesAre DEF SchedTypes
<1>2. CASE pc = "idle"
  <2>1. S!Idle \in SchedWork /\ S!Idle.pc = "idle"
    BY <1>1 DEF S!Idle, SchedWork
  <2>2. worker' = [worker EXCEPT ![w] = S!Idle]
    BY <1>2 DEF S!Goes
  <2>3. WorkGoes(w, S!Idle)
    BY <2>1, <2>2, WorkMoves
  <2>4. QED BY <1>2, <2>1, <2>3
<1>3. CASE pc # "idle"
  <2> DEFINE n == [worker[w] EXCEPT !.pc = pc]
  <2>1. n \in SchedWork /\ n.pc = pc /\ n.id = worker[w].id
    BY <1>1 DEF SchedWork
  <2>2. worker' = [worker EXCEPT ![w] = n]
    BY <1>3 DEF S!Goes, SchedTypes
  <2> HIDE DEF n
  <2>3. WorkGoes(w, n)
    BY <2>1, <2>2, WorkMoves
  <2>4. QED BY <2>1, <2>3
<1>4. QED BY <1>2, <1>3

(* Worker w may go to n, and nothing else happens.                         *)
NotAmiss(w, n) ==
  /\ n.pc # "idle" => worker[w].pc # "idle" /\ n.id = worker[w].id
  /\ Steady /\ n.pc = "push" => n.next > minute
  /\ n.pc = "complete" => ~plan.removes
  /\ n.pc \in {"bury", "retry"} => plan.rejects
  /\ n.pc = "delete" => ~planned \/ plan.triggerFails \/ ~S!PlainNames
  /\ worker[w].pc \in {"trigger", "push"} /\ n.pc \notin {"trigger", "push"} =>
       plan.crashes \/ ~planned \/ plan.triggerFails \/ ~S!PlainNames

(* A step of worker w alone.                                               *)
LEMMA WorkerAlone ==
  ASSUME SchedInv, NEW w \in Workers, NEW n \in SchedWork, WorkGoes(w, n),
         UNCHANGED <<plan, minute, planned, jobs, scheduler, starts>>,
         NotAmiss(w, n)
  PROVE  SchedInv'
<1>1. SchedTypes'
  BY DEF NotAmiss, SchedInv, SchedTypes, WorkGoes
<1>2. InTime'
  <2>1. Steady => /\ n.pc # "idle" => n.id <= minute
                  /\ n.pc = "push" => n.next > minute
    BY DEF NotAmiss, SchedInv, InTime
  <2>2. \A v \in Workers : Steady => /\ worker'[v].pc # "idle" => worker'[v].id <= minute
                                     /\ worker'[v].pc = "push" => worker'[v].next > minute
    BY <2>1 DEF SchedInv, InTime, WorkGoes
  <2>3. UNCHANGED <<plan, minute, jobs, scheduler, starts>> /\ InTime
    BY DEF SchedInv
  <2>4. QED BY <2>2, <2>3, PlanStays DEF InTime
<1>3. OnceEach'
  BY PlanStays DEF SchedInv, OnceEach
<1>4. ASSUME Sure, planned, Link PROVE Link'
  <2>1. CASE \E c \in Schedulers : scheduler[c].pc = "push"
    BY <2>1 DEF Link
  <2>2. CASE \E t \in S!Times : /\ jobs[t].state \in {"delayed", "active"}
                                /\ \A v \in Workers : ~(worker[v].pc = "delete" /\ worker[v].id = t)
    <3>1. PICK t \in S!Times : /\ jobs[t].state \in {"delayed", "active"}
                               /\ \A v \in Workers : ~(worker[v].pc = "delete" /\ worker[v].id = t)
      BY <2>2
    <3>2. \A v \in Workers : ~(worker'[v].pc = "delete" /\ worker'[v].id = t)
      BY <1>4, <3>1 DEF NotAmiss, Sure, WorkGoes
    <3>3. QED BY <3>1, <3>2 DEF Link
  <2>3. CASE ~plan.crashes /\ \E v \in Workers : worker[v].pc \in {"trigger", "push"}
    <3>1. PICK v \in Workers : worker[v].pc \in {"trigger", "push"}
      BY <2>3
    <3>2. worker'[v].pc \in {"trigger", "push"}
      BY <1>4, <2>3, <3>1 DEF NotAmiss, Sure, WorkGoes
    <3>3. QED BY <2>3, <3>2 DEF Link
  <2>4. QED BY <1>4, <2>1, <2>2, <2>3 DEF Link
<1>5. QED BY <1>1, <1>2, <1>3, <1>4, PlanStays DEF SchedInv

LEMMA AlonesStep ==
  ASSUME SchedInv, NEW w \in Workers,
         S!Ack(w) \/ S!Nack(w) \/ S!Triggers(w) \/ S!TriggerFails(w) \/ S!Crash(w)
  PROVE  SchedInv'
<1>1. worker[w] \in SchedWork /\ SchedTypes /\ plan \in Schedules
  BY DEF SchedInv, SchedTypes
<1>2. UNCHANGED <<plan, minute, planned, jobs, scheduler, starts>>
  BY DEF S!Ack, S!Nack, S!Triggers, S!TriggerFails, S!Crash
<1>3. S!After \in {"delete", "idle"}
  BY DEF S!After
<1>4. CASE S!Ack(w)
  <2> DEFINE pc == IF ~S!Holds(w) THEN "idle" ELSE IF plan.removes THEN "trigger" ELSE "complete"
  <2>1. worker[w].pc = "work" /\ S!Goes(w, pc) /\ pc \in {"idle", "trigger", "complete"}
        /\ (pc = "complete" => ~plan.removes)
    BY <1>4 DEF S!Ack
  <2> HIDE DEF pc
  <2>2. PICK n \in SchedWork : /\ WorkGoes(w, n) /\ n.pc = pc
                               /\ pc # "idle" => n.id = worker[w].id
    BY <1>1, <2>1, GoesTo
  <2>3. NotAmiss(w, n)
    BY <2>1, <2>2 DEF NotAmiss
  <2>4. QED BY <1>2, <2>2, <2>3, WorkerAlone
<1>5. CASE S!Nack(w)
  <2> DEFINE pc == IF ~S!Holds(w) THEN "idle"
                   ELSE IF jobs[worker[w].id].attempts < plan.attempts THEN "retry" ELSE "bury"
  <2>1. worker[w].pc = "work" /\ S!Goes(w, pc) /\ pc \in {"idle", "retry", "bury"} /\ plan.rejects
    BY <1>5 DEF S!Nack
  <2> HIDE DEF pc
  <2>2. PICK n \in SchedWork : /\ WorkGoes(w, n) /\ n.pc = pc
                               /\ pc # "idle" => n.id = worker[w].id
    BY <1>1, <2>1, GoesTo
  <2>3. NotAmiss(w, n)
    BY <2>1, <2>2 DEF NotAmiss
  <2>4. QED BY <1>2, <2>2, <2>3, WorkerAlone
<1>6. CASE S!Triggers(w) /\ S!Found
  <2> DEFINE n == [worker[w] EXCEPT !.pc = "push", !.next = S!NextRun(minute)]
  <2>1. n \in SchedWork /\ n.pc = "push" /\ n.id = worker[w].id
        /\ (Steady => n.next > minute)
    BY <1>1, NextRunIsATime DEF SchedWork
  <2>2. worker' = [worker EXCEPT ![w] = n] /\ worker[w].pc = "trigger"
    BY <1>1, <1>6 DEF S!Triggers, SchedTypes
  <2> HIDE DEF n
  <2>3. WorkGoes(w, n)
    BY <1>1, <2>1, <2>2, WorkMoves
  <2>4. NotAmiss(w, n)
    BY <2>1, <2>2 DEF NotAmiss
  <2>5. QED BY <1>2, <2>1, <2>3, <2>4, WorkerAlone
<1>7. CASE (S!Triggers(w) /\ ~S!Found) \/ S!TriggerFails(w)
  <2>1. worker[w].pc \in {"trigger", "push"} /\ S!Goes(w, S!After)
        /\ (~planned \/ plan.triggerFails \/ ~S!PlainNames)
    BY <1>1, <1>7, PlainIsFound DEF S!Triggers, S!TriggerFails
  <2>2. PICK n \in SchedWork : /\ WorkGoes(w, n) /\ n.pc = S!After
                               /\ S!After # "idle" => n.id = worker[w].id
    BY <1>1, <1>3, <2>1, GoesTo
  <2>3. NotAmiss(w, n)
    BY <1>3, <2>1, <2>2 DEF NotAmiss
  <2>4. QED BY <1>2, <2>2, <2>3, WorkerAlone
<1>8. CASE S!Crash(w)
  <2>1. S!Idle \in SchedWork /\ S!Idle.pc = "idle"
    BY TimesAre DEF S!Idle, SchedWork
  <2>2. worker' = [worker EXCEPT ![w] = S!Idle] /\ plan.crashes
    BY <1>8 DEF S!Crash
  <2>3. WorkGoes(w, S!Idle)
    BY <1>1, <2>1, <2>2, WorkMoves
  <2>4. NotAmiss(w, S!Idle)
    BY <2>1, <2>2 DEF NotAmiss
  <2>5. QED BY <1>2, <2>1, <2>3, <2>4, WorkerAlone
<1>9. QED BY <1>1, <1>4, <1>5, <1>6, <1>7, <1>8 DEF SchedTypes

(* A job that is pushed.                                                   *)
LEMMA Pushed ==
  ASSUME SchedTypes, NEW x \in S!Times, NEW at \in Nat, jobs' = [jobs EXCEPT ![x] = S!Fresh(at)]
  PROVE  /\ jobs' \in [S!Times -> SchedJob]
         /\ jobs'[x].state = "delayed" /\ jobs'[x].runAt = at /\ jobs'[x].attempts = 0
         /\ \A t \in S!Times : t = x \/ jobs'[t] = jobs[t]
<1>1. S!Fresh(at) \in SchedJob /\ S!Fresh(at).state = "delayed" /\ S!Fresh(at).runAt = at
      /\ S!Fresh(at).attempts = 0
  BY DEF S!Fresh, SchedJob
<1>2. QED BY <1>1 DEF SchedTypes

(* The job of time x is pushed, and nothing else happens but that who      *)
(* pushed it goes on.                                                      *)
PushOf(x) ==
  /\ UNCHANGED <<plan, minute, planned, starts>>
  /\ jobs'[x].state = "delayed" /\ jobs'[x].attempts = 0
  /\ Steady => x > minute /\ jobs'[x].runAt = x
  /\ \A t \in S!Times : t = x \/ jobs'[t] = jobs[t]
  /\ \A w \in Workers : \/ worker'[w] = worker[w] \/ worker'[w].pc = "idle"
                        \/ /\ worker'[w].pc = "delete" /\ worker'[w].id = worker[w].id
                           /\ worker[w].pc # "idle"
  /\ \A c \in Schedulers : scheduler'[c] = scheduler[c] \/ scheduler'[c].pc = "done"

(* A push of a time to come makes a link of the chain.                     *)
LEMMA PushKeeps ==
  ASSUME SchedInv, SchedTypes', NEW x \in S!Times, PushOf(x)
  PROVE  SchedInv'
<1>1. InTime'
  <2>1. SUFFICES ASSUME Steady PROVE InTime'
    BY PlanStays DEF PushOf, InTime
  <2>2. \A c \in Schedulers :
          /\ scheduler'[c].pc = "row"  => scheduler'[c].next > minute
                                           /\ scheduler'[c].next = scheduler'[c].runAt + minute
          /\ scheduler'[c].pc = "push" => scheduler'[c].next > minute /\ scheduler'[c].runAt = scheduler'[c].next
    BY <2>1 DEF PushOf, SchedInv, InTime
  <2>3. \A w \in Workers : /\ worker'[w].pc # "idle" => worker'[w].id <= minute
                           /\ worker'[w].pc = "push" => worker'[w].next > minute
    BY <2>1 DEF PushOf, SchedInv, InTime
  <2>4. \A t \in S!Times : t > minute => /\ jobs'[t].state \in {"none", "delayed"} /\ starts[t] = 0
                                         /\ jobs'[t].state = "delayed" => jobs'[t].runAt >= t
    <3> SUFFICES ASSUME NEW t \in S!Times, t > minute
                 PROVE  /\ jobs'[t].state \in {"none", "delayed"} /\ starts[t] = 0
                        /\ jobs'[t].state = "delayed" => jobs'[t].runAt >= t
      OBVIOUS
    <3>1. starts[t] = 0 /\ t \in Nat
      BY <2>1, TimesAre DEF SchedInv, InTime
    <3>2. CASE t = x
      BY <2>1, <3>1, <3>2 DEF PushOf
    <3>3. CASE t # x
      BY <2>1, <3>3 DEF PushOf, SchedInv, InTime
    <3>4. QED BY <3>2, <3>3
  <2>5. UNCHANGED <<plan, minute, starts>>
    BY DEF PushOf
  <2>6. QED BY <2>1, <2>2, <2>3, <2>4, <2>5 DEF InTime
<1>2. OnceEach'
  <2>1. SUFFICES ASSUME Steady, NEW t \in S!Times
                 PROVE  starts[t] <= 1 /\ (jobs'[t].state # "none" /\ jobs'[t].attempts = 0 => starts[t] = 0)
    BY PlanStays DEF PushOf, OnceEach
  <2>2. CASE t = x
    BY <2>1, <2>2 DEF PushOf, SchedInv, OnceEach, InTime
  <2>3. CASE t # x
    BY <2>1, <2>3 DEF PushOf, SchedInv, OnceEach
  <2>4. QED BY <2>2, <2>3
<1>3. ASSUME Sure PROVE Link'
  <2>1. Steady /\ x > minute /\ x \in Nat /\ minute \in Nat
    BY <1>3, TimesAre, NextRunIsATime DEF PushOf, Sure, SchedInv
  <2>2. \A w \in Workers : worker'[w].pc = "delete" => worker'[w].id <= minute
    BY <2>1 DEF PushOf, SchedInv, InTime
  <2>3. \A w \in Workers : ~(worker'[w].pc = "delete" /\ worker'[w].id = x)
    BY <2>1, <2>2
  <2>4. QED BY <2>3 DEF PushOf, Link
<1>4. QED BY <1>1, <1>2, <1>3, PlanStays DEF PushOf, SchedInv

LEMMA SchedulePushesStep ==
  ASSUME SchedInv, NEW c \in Schedulers, S!SchedulePushes(c)
  PROVE  SchedInv'
<1> DEFINE x == scheduler[c].next
<1> DEFINE n == [S!Quiet EXCEPT !.pc = "done"]
<1>1. scheduler[c] \in SchedCall /\ scheduler[c].pc = "push" /\ SchedTypes
  BY DEF SchedInv, SchedTypes, S!SchedulePushes
<1>2. n \in SchedCall /\ n.pc = "done"
  BY TimesAre DEF SchedCall, S!Quiet
<1>3. /\ jobs' = [jobs EXCEPT ![x] = S!Fresh(scheduler[c].runAt)]
      /\ scheduler' = [scheduler EXCEPT ![c] = n]
      /\ UNCHANGED <<plan, minute, planned, starts, worker>>
  BY DEF S!SchedulePushes
<1>4. x \in S!Times /\ scheduler[c].runAt \in Nat /\ (Steady => x > minute /\ scheduler[c].runAt = x)
  BY <1>1 DEF SchedInv, InTime, SchedCall
<1> HIDE DEF n, x
<1>5. /\ jobs' \in [S!Times -> SchedJob]
      /\ jobs'[x].state = "delayed" /\ jobs'[x].runAt = scheduler[c].runAt /\ jobs'[x].attempts = 0
      /\ \A t \in S!Times : t = x \/ jobs'[t] = jobs[t]
  BY <1>1, <1>3, <1>4, Pushed
<1>6. /\ scheduler' \in [Schedulers -> SchedCall]
      /\ \A d \in Schedulers : scheduler'[d] = scheduler[d] \/ scheduler'[d].pc = "done"
  BY <1>1, <1>2, <1>3 DEF SchedTypes
<1>7. SchedTypes'
  BY <1>1, <1>3, <1>5, <1>6 DEF SchedTypes
<1>8. PushOf(x)
  BY <1>3, <1>4, <1>5, <1>6 DEF PushOf
<1>9. QED BY <1>4, <1>7, <1>8, PushKeeps

LEMMA TriggerPushesStep ==
  ASSUME SchedInv, NEW w \in Workers, S!TriggerPushes(w)
  PROVE  SchedInv'
<1> DEFINE x == worker[w].next
<1>1. worker[w] \in SchedWork /\ worker[w].pc = "push" /\ SchedTypes /\ S!After \in {"delete", "idle"}
  BY DEF SchedInv, SchedTypes, S!TriggerPushes, S!After
<1>2. /\ jobs' = [jobs EXCEPT ![x] = S!Fresh(x)] /\ S!Goes(w, S!After)
      /\ UNCHANGED <<plan, minute, planned, starts, scheduler>>
  BY DEF S!TriggerPushes
<1>3. PICK n \in SchedWork : /\ WorkGoes(w, n) /\ n.pc = S!After
                             /\ S!After # "idle" => n.id = worker[w].id
  BY <1>1, <1>2, GoesTo
<1>4. x \in S!Times /\ x \in Nat /\ (Steady => x > minute /\ worker[w].id <= minute)
  BY <1>1, TimesAre DEF SchedInv, InTime, SchedWork
<1> HIDE DEF x
<1>5. /\ jobs' \in [S!Times -> SchedJob]
      /\ jobs'[x].state = "delayed" /\ jobs'[x].runAt = x /\ jobs'[x].attempts = 0
      /\ \A t \in S!Times : t = x \/ jobs'[t] = jobs[t]
  BY <1>1, <1>2, <1>4, Pushed
<1>6. SchedTypes'
  BY <1>1, <1>2, <1>3, <1>5 DEF SchedTypes, WorkGoes
<1>7. \A v \in Workers : \/ worker'[v] = worker[v] \/ worker'[v].pc = "idle"
                         \/ /\ worker'[v].pc = "delete" /\ worker'[v].id = worker[v].id
                            /\ worker[v].pc # "idle"
  BY <1>1, <1>3 DEF WorkGoes
<1>8. PushOf(x)
  BY <1>2, <1>4, <1>5, <1>7 DEF PushOf
<1>9. QED BY <1>4, <1>6, <1>8, PushKeeps

-----------------------------------------------------------------------------
(* The job of a worker is there to be marked, or gone.                     *)
LEMMA MarksStep ==
  ASSUME SchedInv, NEW w \in Workers, S!Marks(w)
  PROVE  SchedInv'
<1> DEFINE id == worker[w].id
<1> DEFINE pc == IF worker[w].pc = "retry" \/ jobs[id].state = "none" THEN "idle" ELSE "trigger"
<1>1. worker[w] \in SchedWork /\ id \in S!Times /\ SchedTypes /\ jobs[id] \in SchedJob /\ minute \in Nat
  BY NextRunIsATime DEF SchedInv, SchedTypes, SchedWork
<1>2. /\ worker[w].pc \in {"complete", "bury", "retry"} /\ S!Goes(w, pc)
      /\ UNCHANGED <<plan, minute, planned, starts, scheduler>>
  BY DEF S!Marks
<1>3. PICK n \in SchedWork : /\ WorkGoes(w, n) /\ n.pc = pc
                             /\ pc # "idle" => n.id = worker[w].id
  <2>1. pc \in {"idle", "trigger"}
    OBVIOUS
  <2> HIDE DEF pc
  <2>2. QED BY <1>1, <1>2, <2>1, GoesTo
<1>4. PICK m \in SchedJob :
        /\ jobs' = [jobs EXCEPT ![id] = m] /\ m.attempts = jobs[id].attempts
        /\ jobs[id].state = "none" => m = jobs[id]
        /\ jobs[id].state # "none" => m.state # "none" /\ (worker[w].pc = "retry" => m.state = "delayed")
  <2>1. CASE jobs[id].state = "none"
    <3>1. jobs' = [jobs EXCEPT ![id] = jobs[id]]
      BY <1>1, <2>1 DEF S!Marks, SchedTypes
    <3>2. QED BY <1>1, <2>1, <3>1
  <2>2. CASE jobs[id].state # "none" /\ worker[w].pc \in {"complete", "bury"}
    <3> DEFINE to == IF worker[w].pc = "complete" THEN "completed" ELSE "failed"
    <3> DEFINE m == [jobs[id] EXCEPT !.state = to]
    <3>1. to \in {"completed", "failed"}
      OBVIOUS
    <3>2. jobs' = [jobs EXCEPT ![id].state = to]
      BY <2>2 DEF S!Marks
    <3>3. jobs' = [jobs EXCEPT ![id] = m]
      BY <1>1, <3>2 DEF SchedTypes
    <3> HIDE DEF to
    <3>4. m \in SchedJob /\ m.attempts = jobs[id].attempts /\ m.state # "none"
      BY <1>1, <3>1 DEF SchedJob
    <3> HIDE DEF m
    <3>5. QED BY <2>2, <3>3, <3>4
  <2>3. CASE jobs[id].state # "none" /\ worker[w].pc = "retry"
    <3> DEFINE m == [jobs[id] EXCEPT !.state = "delayed", !.runAt = minute]
    <3>1. jobs' = [jobs EXCEPT ![id] = m]
      BY <1>1, <2>3 DEF S!Marks, SchedTypes
    <3>2. m \in SchedJob /\ m.attempts = jobs[id].attempts /\ m.state = "delayed"
      BY <1>1 DEF SchedJob
    <3> HIDE DEF m
    <3>3. QED BY <2>3, <3>1, <3>2
  <2>4. QED BY <1>2, <2>1, <2>2, <2>3
<1> HIDE DEF id
<1>5. /\ jobs' \in [S!Times -> SchedJob] /\ jobs'[id] = m
      /\ \A t \in S!Times : t = id \/ jobs'[t] = jobs[t]
  BY <1>1, <1>4 DEF SchedTypes
<1>6. SchedTypes'
  BY <1>1, <1>2, <1>3, <1>5 DEF SchedTypes, WorkGoes
<1>7. InTime'
  <2>1. SUFFICES ASSUME Steady PROVE InTime'
    BY <1>2, PlanStays DEF InTime
  <2>2. worker[w].pc # "idle" /\ worker[w].id <= minute
    BY <1>2, <2>1 DEF SchedInv, InTime
  <2>3. \A v \in Workers : /\ worker'[v].pc # "idle" => worker'[v].id <= minute
                           /\ worker'[v].pc = "push" => worker'[v].next > minute
    BY <1>3, <2>1, <2>2 DEF SchedInv, InTime, WorkGoes
  <2>4. \A t \in S!Times : t > minute => t # id
    BY <1>1, <2>2, TimesAre DEF id
  <2>5. \A t \in S!Times : t > minute => /\ jobs'[t].state \in {"none", "delayed"} /\ starts[t] = 0
                                         /\ jobs'[t].state = "delayed" => jobs'[t].runAt >= t
    BY <1>5, <2>1, <2>4 DEF SchedInv, InTime
  <2>6. \A c \in Schedulers :
          /\ scheduler[c].pc = "row"  => scheduler[c].next > minute
                                         /\ scheduler[c].next = scheduler[c].runAt + minute
          /\ scheduler[c].pc = "push" => scheduler[c].next > minute /\ scheduler[c].runAt = scheduler[c].next
    BY <2>1 DEF SchedInv, InTime
  <2>7. QED BY <1>2, <2>3, <2>5, <2>6 DEF InTime
<1>8. OnceEach'
  <2>1. SUFFICES ASSUME Steady, NEW t \in S!Times
                 PROVE  starts[t] <= 1 /\ (jobs'[t].state # "none" /\ jobs'[t].attempts = 0 => starts[t] = 0)
    BY <1>2, PlanStays DEF OnceEach
  <2>2. CASE t = id
    BY <1>4, <1>5, <2>1, <2>2 DEF SchedInv, OnceEach
  <2>3. CASE t # id
    BY <1>5, <2>1, <2>3 DEF SchedInv, OnceEach
  <2>4. QED BY <2>2, <2>3
<1>9. ASSUME Sure, Link PROVE Link'
  <2>1. CASE \E c \in Schedulers : scheduler[c].pc = "push"
    BY <1>2, <2>1 DEF Link
  <2>2. CASE \E t \in S!Times : /\ jobs[t].state \in {"delayed", "active"}
                                /\ \A v \in Workers : ~(worker[v].pc = "delete" /\ worker[v].id = t)
    <3>1. PICK t \in S!Times : /\ jobs[t].state \in {"delayed", "active"}
                               /\ \A v \in Workers : ~(worker[v].pc = "delete" /\ worker[v].id = t)
      BY <2>2
    <3>2. \A v \in Workers : ~(worker'[v].pc = "delete" /\ worker'[v].id = t)
      BY <1>3, <3>1 DEF WorkGoes
    <3>3. CASE t # id \/ jobs'[t].state = "delayed"
      BY <1>5, <3>1, <3>2, <3>3 DEF Link
    <3>4. CASE t = id /\ jobs'[t].state # "delayed"
      <4>1. worker[w].pc \in {"complete", "bury"}
        BY <1>2, <1>4, <1>5, <3>1, <3>4
      <4>2. ~plan.crashes
        BY <1>1, <1>9, <4>1 DEF Sure, SchedTypes
      <4>3. n.pc = "trigger"
        BY <1>3, <3>1, <3>4, <4>1
      <4>4. QED BY <1>2, <1>3, <4>2, <4>3 DEF WorkGoes, Link
    <3>5. QED BY <3>3, <3>4
  <2>3. CASE ~plan.crashes /\ \E v \in Workers : worker[v].pc \in {"trigger", "push"}
    <3>1. PICK v \in Workers : worker[v].pc \in {"trigger", "push"}
      BY <2>3
    <3>2. worker'[v] = worker[v]
      BY <1>2, <1>3, <3>1 DEF WorkGoes
    <3>3. QED BY <1>2, <2>3, <3>1, <3>2 DEF Link
  <2>4. QED BY <1>9, <2>1, <2>2, <2>3 DEF Link
<1>10. QED BY <1>2, <1>6, <1>7, <1>8, <1>9, PlanStays DEF SchedInv

LEMMA RemovesStep ==
  ASSUME SchedInv, NEW w \in Workers, S!Removes(w)
  PROVE  SchedInv'
<1>1. worker[w] \in SchedWork /\ worker[w].pc = "delete" /\ SchedTypes
  BY DEF SchedInv, SchedTypes, S!Removes
<1>2. /\ jobs' = [jobs EXCEPT ![worker[w].id] = S!NoJob] /\ S!Goes(w, "idle")
      /\ UNCHANGED <<plan, minute, planned, starts, scheduler>>
  BY DEF S!Removes
<1>3. PICK n \in SchedWork : WorkGoes(w, n) /\ n.pc = "idle"
  BY <1>1, <1>2, GoesTo
<1>4. S!NoJob \in SchedJob /\ S!NoJob.state = "none"
  BY DEF S!NoJob, SchedJob
<1>5. /\ jobs' \in [S!Times -> SchedJob]
      /\ \A t \in S!Times : jobs'[t] = jobs[t] \/ (t = worker[w].id /\ jobs'[t].state = "none")
  BY <1>1, <1>2, <1>4 DEF SchedTypes
<1>6. SchedTypes'
  BY <1>1, <1>2, <1>3, <1>5 DEF SchedTypes, WorkGoes
<1>7. InTime'
  <2>1. SUFFICES ASSUME Steady PROVE InTime'
    BY <1>2, PlanStays DEF InTime
  <2>2. \A v \in Workers : /\ worker'[v].pc # "idle" => worker'[v].id <= minute
                           /\ worker'[v].pc = "push" => worker'[v].next > minute
    BY <1>3, <2>1 DEF SchedInv, InTime, WorkGoes
  <2>3. \A t \in S!Times : t > minute => /\ jobs'[t].state \in {"none", "delayed"} /\ starts[t] = 0
                                         /\ jobs'[t].state = "delayed" => jobs'[t].runAt >= t
    BY <1>5, <2>1 DEF SchedInv, InTime
  <2>4. \A c \in Schedulers :
          /\ scheduler[c].pc = "row"  => scheduler[c].next > minute
                                         /\ scheduler[c].next = scheduler[c].runAt + minute
          /\ scheduler[c].pc = "push" => scheduler[c].next > minute /\ scheduler[c].runAt = scheduler[c].next
    BY <2>1 DEF SchedInv, InTime
  <2>5. QED BY <1>2, <2>2, <2>3, <2>4 DEF InTime
<1>8. OnceEach'
  BY <1>2, <1>5, PlanStays DEF SchedInv, OnceEach
<1>9. ASSUME Link PROVE Link'
  <2>1. CASE \E c \in Schedulers : scheduler[c].pc = "push"
    BY <1>2, <2>1 DEF Link
  <2>2. CASE \E t \in S!Times : /\ jobs[t].state \in {"delayed", "active"}
                                /\ \A v \in Workers : ~(worker[v].pc = "delete" /\ worker[v].id = t)
    <3>1. PICK t \in S!Times : /\ jobs[t].state \in {"delayed", "active"}
                               /\ \A v \in Workers : ~(worker[v].pc = "delete" /\ worker[v].id = t)
      BY <2>2
    <3>2. \A v \in Workers : ~(worker'[v].pc = "delete" /\ worker'[v].id = t)
      BY <1>3, <3>1 DEF WorkGoes
    <3>3. jobs'[t] = jobs[t]
      BY <1>1, <1>5, <3>1
    <3>4. QED BY <3>1, <3>2, <3>3 DEF Link
  <2>3. CASE ~plan.crashes /\ \E v \in Workers : worker[v].pc \in {"trigger", "push"}
    <3>1. PICK v \in Workers : worker[v].pc \in {"trigger", "push"}
      BY <2>3
    <3>2. worker'[v] = worker[v]
      BY <1>1, <1>3, <3>1 DEF WorkGoes
    <3>3. QED BY <1>2, <2>3, <3>1, <3>2 DEF Link
  <2>4. QED BY <1>9, <2>1, <2>2, <2>3 DEF Link
<1>10. QED BY <1>2, <1>6, <1>7, <1>8, <1>9, PlanStays DEF SchedInv

LEMMA TakeStep ==
  ASSUME SchedInv, NEW w \in Workers, NEW x \in S!Times, S!Take(w, x)
  PROVE  SchedInv'
<1> DEFINE n == [pc |-> "work", id |-> x, next |-> 0]
<1> DEFINE m == [jobs[x] EXCEPT !.state = "active", !.by = w, !.attempts = @ + 1]
<1> DEFINE u == IF jobs[x].attempts = 0 THEN starts[x] + 1 ELSE starts[x]
<1>1. SchedTypes /\ jobs[x] \in SchedJob /\ minute \in Nat /\ starts[x] \in Nat /\ x \in Nat
  BY NextRunIsATime, TimesAre DEF SchedInv, SchedTypes
<1>2. /\ worker[w].pc = "idle" /\ UNCHANGED <<plan, minute, planned, scheduler>>
      /\ jobs[x].state = "active" \/ (jobs[x].state = "delayed" /\ jobs[x].runAt <= minute)
      /\ worker' = [worker EXCEPT ![w] = n]
  BY DEF S!Take
<1>3. n \in SchedWork /\ n.pc = "work" /\ n.id = x
  BY TimesAre DEF SchedWork
<1>4. m \in SchedJob /\ m.state = "active" /\ m.attempts = jobs[x].attempts + 1
  <2> DEFINE a == jobs[x].attempts + 1
  <2>1. a \in Nat /\ jobs[x] \in SchedJob
    BY <1>1 DEF SchedJob
  <2>2. m = [jobs[x] EXCEPT !.state = "active", !.by = w, !.attempts = a]
    OBVIOUS
  <2> HIDE DEF a, m
  <2>3. m \in SchedJob /\ m.state = "active" /\ m.attempts = a
    BY <2>1, <2>2 DEF SchedJob
  <2>4. QED BY <2>3 DEF a
<1>5. jobs' = [jobs EXCEPT ![x] = m]
  BY <1>1 DEF S!Take, SchedTypes
<1>6. starts' = [starts EXCEPT ![x] = u] /\ u \in Nat
  BY <1>1 DEF S!Take, SchedTypes
<1> HIDE DEF n, m
<1>7. WorkGoes(w, n)
  BY <1>1, <1>2, <1>3, WorkMoves
<1>8. /\ jobs' \in [S!Times -> SchedJob] /\ jobs'[x] = m
      /\ \A t \in S!Times : t = x \/ jobs'[t] = jobs[t]
  BY <1>1, <1>4, <1>5 DEF SchedTypes
<1>9. /\ starts' \in [S!Times -> Nat] /\ starts'[x] = u
      /\ \A t \in S!Times : t = x \/ starts'[t] = starts[t]
  BY <1>1, <1>6 DEF SchedTypes
<1>10. SchedTypes'
  BY <1>1, <1>2, <1>3, <1>7, <1>8, <1>9 DEF SchedTypes, WorkGoes
<1>11. Steady => x <= minute
  BY <1>1, <1>2 DEF SchedInv, InTime, SchedJob
<1>12. InTime'
  <2>1. SUFFICES ASSUME Steady PROVE InTime'
    BY <1>2, PlanStays DEF InTime
  <2>2. \A v \in Workers : /\ worker'[v].pc # "idle" => worker'[v].id <= minute
                           /\ worker'[v].pc = "push" => worker'[v].next > minute
    BY <1>3, <1>7, <1>11, <2>1 DEF SchedInv, InTime, WorkGoes
  <2>3. \A t \in S!Times : t > minute => t # x
    BY <1>1, <1>11, <2>1
  <2>4. \A t \in S!Times : t > minute => /\ jobs'[t].state \in {"none", "delayed"} /\ starts'[t] = 0
                                         /\ jobs'[t].state = "delayed" => jobs'[t].runAt >= t
    BY <1>8, <1>9, <2>1, <2>3 DEF SchedInv, InTime
  <2>5. \A c \in Schedulers :
          /\ scheduler[c].pc = "row"  => scheduler[c].next > minute
                                         /\ scheduler[c].next = scheduler[c].runAt + minute
          /\ scheduler[c].pc = "push" => scheduler[c].next > minute /\ scheduler[c].runAt = scheduler[c].next
    BY <2>1 DEF SchedInv, InTime
  <2>6. QED BY <1>2, <2>2, <2>4, <2>5 DEF InTime
<1>13. OnceEach'
  <2>1. SUFFICES ASSUME Steady, NEW t \in S!Times
                 PROVE  starts'[t] <= 1 /\ (jobs'[t].state # "none" /\ jobs'[t].attempts = 0 => starts'[t] = 0)
    BY <1>2, PlanStays DEF OnceEach
  <2>2. CASE t = x
    <3>1. starts[x] <= 1 /\ (jobs[x].attempts = 0 => starts[x] = 0) /\ jobs[x].attempts \in Nat
      BY <1>1, <1>2, <2>1 DEF SchedInv, OnceEach, SchedJob
    <3>2. u <= 1
      BY <1>1, <3>1
    <3>3. m.attempts # 0
      BY <1>4, <3>1
    <3>4. QED BY <1>8, <1>9, <2>2, <3>2, <3>3
  <2>3. CASE t # x
    BY <1>8, <1>9, <2>1, <2>3 DEF SchedInv, OnceEach
  <2>4. QED BY <2>2, <2>3
<1>14. ASSUME Link PROVE Link'
  <2>1. CASE \E c \in Schedulers : scheduler[c].pc = "push"
    BY <1>2, <2>1 DEF Link
  <2>2. CASE \E t \in S!Times : /\ jobs[t].state \in {"delayed", "active"}
                                /\ \A v \in Workers : ~(worker[v].pc = "delete" /\ worker[v].id = t)
    <3>1. PICK t \in S!Times : /\ jobs[t].state \in {"delayed", "active"}
                               /\ \A v \in Workers : ~(worker[v].pc = "delete" /\ worker[v].id = t)
      BY <2>2
    <3>2. \A v \in Workers : ~(worker'[v].pc = "delete" /\ worker'[v].id = t)
      BY <1>3, <1>7, <3>1 DEF WorkGoes
    <3>3. jobs'[t].state \in {"delayed", "active"}
      BY <1>4, <1>8, <3>1
    <3>4. QED BY <3>2, <3>3 DEF Link
  <2>3. CASE ~plan.crashes /\ \E v \in Workers : worker[v].pc \in {"trigger", "push"}
    <3>1. PICK v \in Workers : worker[v].pc \in {"trigger", "push"}
      BY <2>3
    <3>2. worker'[v] = worker[v]
      BY <1>2, <1>7, <3>1 DEF WorkGoes
    <3>3. QED BY <1>2, <2>3, <3>1, <3>2 DEF Link
  <2>4. QED BY <1>14, <2>1, <2>2, <2>3 DEF Link
<1>15. QED BY <1>2, <1>10, <1>12, <1>13, <1>14, PlanStays DEF SchedInv

(* A call of schedule() before its push, or a stray one.                   *)
LEMMA ScheduleCallStep ==
  ASSUME SchedInv, NEW c \in Schedulers,
         S!ScheduleBegins(c) \/ S!ScheduleWrites(c) \/ S!Strays(c)
  PROVE  SchedInv'
<1> DEFINE x == S!NextRun(minute)
<1>1. SchedTypes /\ scheduler[c] \in SchedCall /\ x \in S!Times /\ minute \in Nat /\ x \in Nat
      /\ S!Delay \in Nat /\ (Steady => x > minute /\ x = S!Delay + minute)
  BY NextRunIsATime, TimesAre DEF SchedInv, SchedTypes, S!Delay
<1>2. UNCHANGED <<plan, minute, jobs, worker, starts>>
  BY DEF S!ScheduleBegins, S!ScheduleWrites, S!Strays
<1>3. PICK n \in SchedCall :
        /\ scheduler' = [scheduler EXCEPT ![c] = n]
        /\ \/ /\ n.pc = "row" /\ planned' = planned /\ scheduler[c].pc = "idle"
              /\ Steady => n.next > minute /\ n.next = n.runAt + minute
           \/ /\ n.pc = "push" /\ planned' \in BOOLEAN
              /\ Steady => n.next > minute /\ n.runAt = n.next
  <2>1. CASE S!ScheduleBegins(c)
    <3> DEFINE n == [pc |-> "row", next |-> x, runAt |-> S!Delay]
    <3>1. n \in SchedCall /\ n.pc = "row" /\ n.next = x /\ n.runAt = S!Delay
      BY <1>1 DEF SchedCall
    <3>2. scheduler' = [scheduler EXCEPT ![c] = n] /\ planned' = planned /\ scheduler[c].pc = "idle"
      BY <2>1 DEF S!ScheduleBegins
    <3>3. Steady => n.next > minute /\ n.next = n.runAt + minute
      BY <1>1, <3>1
    <3> HIDE DEF n
    <3>4. QED BY <3>1, <3>2, <3>3
  <2>2. CASE S!ScheduleWrites(c)
    <3> DEFINE n == [scheduler[c] EXCEPT !.pc = "push", !.runAt = @ + minute]
    <3>1. n \in SchedCall /\ n.pc = "push" /\ n.next = scheduler[c].next
          /\ n.runAt = scheduler[c].runAt + minute
      <4> DEFINE a == scheduler[c].runAt + minute
      <4>1. a \in Nat /\ scheduler[c] \in SchedCall
        BY <1>1 DEF SchedCall
      <4>2. n = [scheduler[c] EXCEPT !.pc = "push", !.runAt = a]
        OBVIOUS
      <4> HIDE DEF a, n
      <4>3. n \in SchedCall /\ n.pc = "push" /\ n.next = scheduler[c].next /\ n.runAt = a
        BY <4>1, <4>2 DEF SchedCall
      <4>4. QED BY <4>3 DEF a
    <3>2. scheduler' = [scheduler EXCEPT ![c] = n] /\ planned' = TRUE /\ scheduler[c].pc = "row"
      BY <1>1, <2>2 DEF S!ScheduleWrites, SchedTypes
    <3>3. Steady => n.next > minute /\ n.runAt = n.next
      BY <3>1, <3>2 DEF SchedInv, InTime
    <3> HIDE DEF n
    <3>4. QED BY <3>1, <3>2, <3>3
  <2>3. CASE S!Strays(c)
    <3> DEFINE n == [pc |-> "push", next |-> x, runAt |-> minute + S!Delay]
    <3>1. n \in SchedCall /\ n.pc = "push" /\ n.next = x /\ n.runAt = minute + S!Delay
      BY <1>1 DEF SchedCall
    <3>2. scheduler' = [scheduler EXCEPT ![c] = n] /\ planned' = planned /\ planned \in BOOLEAN
      BY <1>1, <2>3 DEF S!Strays, SchedTypes
    <3>3. Steady => n.next > minute /\ n.runAt = n.next
      BY <1>1, <3>1
    <3> HIDE DEF n
    <3>4. QED BY <3>1, <3>2, <3>3
  <2>4. QED BY <2>1, <2>2, <2>3
<1>4. /\ scheduler' \in [Schedulers -> SchedCall] /\ scheduler'[c] = n
      /\ \A d \in Schedulers : d = c \/ scheduler'[d] = scheduler[d]
  BY <1>1, <1>3 DEF SchedTypes
<1>5. SchedTypes'
  BY <1>1, <1>2, <1>3, <1>4 DEF SchedTypes
<1>6. InTime'
  <2>1. SUFFICES ASSUME Steady PROVE InTime'
    BY <1>2, PlanStays DEF InTime
  <2>2. \A d \in Schedulers :
          /\ scheduler'[d].pc = "row"  => scheduler'[d].next > minute
                                          /\ scheduler'[d].next = scheduler'[d].runAt + minute
          /\ scheduler'[d].pc = "push" => scheduler'[d].next > minute /\ scheduler'[d].runAt = scheduler'[d].next
    BY <1>3, <1>4, <2>1 DEF SchedInv, InTime
  <2>3. InTime
    BY DEF SchedInv
  <2>4. QED BY <1>2, <2>1, <2>2, <2>3 DEF InTime
<1>7. OnceEach'
  BY <1>2, PlanStays DEF SchedInv, OnceEach
<1>8. ASSUME planned => Link, planned' PROVE Link'
  <2>1. CASE n.pc = "push"
    BY <1>4, <2>1 DEF Link
  <2>2. CASE n.pc # "push"
    <3>1. planned /\ Link /\ scheduler[c].pc = "idle"
      BY <1>3, <1>8, <2>2
    <3>2. \A d \in Schedulers : scheduler[d].pc = "push" => scheduler'[d].pc = "push"
      BY <1>4, <3>1
    <3>3. QED BY <1>2, <3>1, <3>2 DEF Link
  <2>3. QED BY <2>1, <2>2
<1>9. QED BY <1>2, <1>5, <1>6, <1>7, <1>8, PlanStays DEF SchedInv

LEMMA SchedTickStep ==
  ASSUME SchedInv, S!Tick \/ S!Unschedule
  PROVE  SchedInv'
<1>1. SchedTypes /\ minute \in Nat /\ LastMinute \in Nat
  BY NextRunIsATime, TimesAre DEF SchedInv
<1>2. UNCHANGED <<plan, jobs, worker, scheduler, starts>> /\ (planned' => planned)
  BY DEF S!Tick, S!Unschedule
<1>3. SchedTypes'
  <2>1. CASE S!Tick
    <3>1. minute < LastMinute /\ minute' = minute + 1 /\ planned' = planned
      BY <2>1 DEF S!Tick
    <3>2. minute' \in 1..LastMinute /\ planned' \in BOOLEAN
      BY <1>1, <3>1 DEF SchedTypes
    <3>3. QED BY <1>1, <1>2, <3>2 DEF SchedTypes
  <2>2. CASE S!Unschedule
    <3>1. minute' = minute /\ planned' \in BOOLEAN
      BY <2>2 DEF S!Unschedule
    <3>2. QED BY <1>1, <1>2, <3>1 DEF SchedTypes
  <2>3. QED BY <2>1, <2>2
<1>4. InTime'
  <2>1. SUFFICES ASSUME Steady PROVE InTime'
    BY <1>2, PlanStays DEF InTime
  <2>2. CASE S!Tick
    <3>1. /\ \A c \in Schedulers : scheduler[c].pc \notin {"row", "push"}
          /\ \A w \in Workers : worker[w].pc # "push"
          /\ minute' = minute + 1
      BY <2>1, <2>2 DEF S!Tick, Steady
    <3>2. \A w \in Workers : worker[w].pc # "idle" => worker[w].id <= minute + 1
      BY <1>1, <2>1, TimesAre DEF SchedInv, InTime, SchedTypes, SchedWork
    <3>3. \A t \in S!Times : t > minute + 1 => /\ jobs[t].state \in {"none", "delayed"} /\ starts[t] = 0
                                               /\ jobs[t].state = "delayed" => jobs[t].runAt >= t
      BY <1>1, <2>1, TimesAre DEF SchedInv, InTime
    <3>4. QED BY <1>2, <2>1, <3>1, <3>2, <3>3 DEF InTime
  <2>3. CASE S!Unschedule
    <3>1. InTime /\ minute' = minute
      BY <2>3 DEF SchedInv, S!Unschedule
    <3>2. QED BY <1>2, <3>1, PlanStays DEF InTime
  <2>4. QED BY <2>2, <2>3
<1>5. OnceEach'
  BY <1>2, PlanStays DEF SchedInv, OnceEach
<1>6. Link => Link'
  BY <1>2 DEF Link
<1>7. QED BY <1>2, <1>3, <1>4, <1>5, <1>6, PlanStays DEF SchedInv

LEMMA SchedStep == SchedInv /\ S!Next => SchedInv'
<1> SUFFICES ASSUME SchedInv, S!Next PROVE SchedInv'
  OBVIOUS
<1>1. ASSUME NEW c \in Schedulers, S!ScheduleBegins(c) \/ S!ScheduleWrites(c) \/ S!SchedulePushes(c)
             \/ S!Strays(c)
      PROVE  SchedInv'
  BY <1>1, ScheduleCallStep, SchedulePushesStep
<1>2. ASSUME NEW w \in Workers, NEW t \in S!Times, S!Take(w, t) PROVE SchedInv'
  BY <1>2, TakeStep
<1>3. ASSUME NEW w \in Workers,
             S!Ack(w) \/ S!Nack(w) \/ S!Triggers(w) \/ S!TriggerFails(w) \/ S!Crash(w)
      PROVE  SchedInv'
  BY <1>3, AlonesStep
<1>4. ASSUME NEW w \in Workers, S!Marks(w) \/ S!TriggerPushes(w) \/ S!Removes(w) PROVE SchedInv'
  BY <1>4, MarksStep, TriggerPushesStep, RemovesStep
<1>5. CASE S!Unschedule \/ S!Tick
  BY <1>5, SchedTickStep
<1>6. QED BY <1>1, <1>2, <1>3, <1>4, <1>5 DEF S!Next

LEMMA SchedGoals ==
  /\ SchedInv /\ Steady => EachTimeOnce
  /\ SchedInv /\ Steady /\ (plan.crashes => plan.removes /\ ~plan.rejects) => KeepsRunning
<1>1. SchedInv /\ Steady => EachTimeOnce
  BY DEF SchedInv, OnceEach, EachTimeOnce, S!EachTimeOnce
<1>2. SchedInv /\ Steady /\ (plan.crashes => plan.removes /\ ~plan.rejects) => KeepsRunning
  BY DEF SchedInv, Sure, Link, KeepsRunning, S!KeepsRunning, S!NeverEnds, S!Pending
<1>3. QED BY <1>1, <1>2

-----------------------------------------------------------------------------
(* The services together                                                   *)

Inv == MessageInv /\ LimitInv /\ CacheInv /\ BlobInv /\ SoftInv /\ SchedInv

LEMMA InitInv == ServicesInit => Inv
BY MessageInit, LimitInit, CacheInit, BlobInit, SoftInit, SchedInit DEF ServicesInit, Inv

(* A service that does not run keeps its invariant.                        *)
LEMMA PubSubRests ==
  MessageInv /\ UNCHANGED pubsub => MessageInv'
BY DEF pubsub, MessageInv, Counters, Stamped, Behind

LEMMA LimiterRests ==
  LimitInv /\ UNCHANGED limiter => LimitInv'
BY DEF limiter, LimitInv, LimitTypes, AllCounted, AllSeen

LEMMA CacheRests ==
  CacheInv /\ UNCHANGED cache => CacheInv'
BY DEF cache, CacheInv, CacheTypes, OneWrap, InTurn

LEMMA BlobsRest ==
  BlobInv /\ UNCHANGED blobs => BlobInv'
BY DEF blobs, BlobInv, BlobTypes, WrittenOnce, OneAtOnce, Reading, Tidy, Mine, B!Underway

LEMMA SoftRests ==
  SoftInv /\ UNCHANGED soft => SoftInv'
BY DEF soft, SoftInv, SoftKinds, PlainValues

LEMMA ScheduleRests ==
  SchedInv /\ UNCHANGED schedule => SchedInv'
BY PlanStays DEF schedule, SchedInv, SchedTypes, InTime, OnceEach, Link

(* Each step is one of a service, or leaves it as it is.                   *)
LEMMA EachSteps ==
  [ServicesNext]_services =>
    /\ P!Next \/ UNCHANGED pubsub
    /\ L!Next \/ UNCHANGED limiter
    /\ C!Next \/ UNCHANGED cache
    /\ B!Next \/ UNCHANGED blobs
    /\ D!Next \/ UNCHANGED soft
    /\ S!Next \/ UNCHANGED schedule
BY DEF ServicesNext, services

LEMMA NextInv == Inv /\ [ServicesNext]_services => Inv'
<1> SUFFICES ASSUME Inv, [ServicesNext]_services PROVE Inv'
  OBVIOUS
<1>1. MessageInv'
  BY EachSteps, MessageStep, PubSubRests DEF Inv
<1>2. LimitInv'
  BY EachSteps, LimitStep, LimiterRests DEF Inv
<1>3. CacheInv'
  BY EachSteps, CacheStep, CacheRests DEF Inv
<1>4. BlobInv'
  BY EachSteps, BlobStep, BlobsRest DEF Inv
<1>5. SoftInv'
  BY EachSteps, SoftStep, SoftRests DEF Inv
<1>6. SchedInv'
  BY EachSteps, SchedStep, ScheduleRests DEF Inv
<1>7. QED BY <1>1, <1>2, <1>3, <1>4, <1>5, <1>6 DEF Inv

(* The state of every service is what its invariant says.                  *)
THEOREM ServicesSound == ServicesSpec => []Inv
<1>1. QED BY InitInv, NextInv, PTL DEF ServicesSpec

(* What a handler hears from other processes comes in the order of the     *)
(* timestamps, and no message twice.                                       *)
THEOREM OrderedHearing == ServicesSpec => HeardInOrder
<1>1. Inv /\ [ServicesNext]_services =>
        [\A h \in Handlers, m, k \in Messages :
           /\ Sender[m] # Home[h] /\ Sender[k] # Home[h]
           /\ heard[h][k] > 0 /\ heard'[h][m] > heard[h][m]
           => stamp[k] < stamp[m]]_(P!vars)
  BY EachSteps, MessageStep DEF Inv, pubsub, P!vars
<1>2. QED BY <1>1, ServicesSound, PTL DEF ServicesSpec, HeardInOrder, P!HeardInOrder

(* Calls that are quick are granted no more than the limit: not by overlap *)
(* with others, and not because a counter is gone.                         *)
THEOREM LimitHolds ==
  ASSUME CallsAreQuick
  PROVE  ServicesSpec => LimitKept
<1>1. Inv /\ [ServicesNext]_services =>
        [resets = 0 => \A c \in Consumptions :
           consumer[c].pc = "add" /\ consumer'[c].pc = "granted" =>
             L!Weighted(consumer[c].before, consumer[c].at)
               + granted'[L!WindowOf(consumer[c].at)] <= Limit]_(L!vars)
  BY EachSteps, LimitStep DEF Inv, limiter, L!vars
<1>2. QED BY <1>1, ServicesSound, PTL DEF ServicesSpec, LimitKept, L!LimitKept

(* Of the wrap() calls of a process, one runs the function at a time.      *)
THEOREM OneRunnerAtATime == ServicesSpec => []OneRunner
<1>1. Inv => OneRunner
  BY CacheGoals DEF Inv
<1>2. QED BY <1>1, ServicesSound, PTL

(* Calls that wait for each other, of stores that answer, find no tier     *)
(* with anything but the latest value.                                     *)
THEOREM TiersAgree == ServicesSpec => []Coherent
<1>1. Inv => Coherent
  BY CacheGoals DEF Inv
<1>2. QED BY <1>1, ServicesSound, PTL

(* If a key is written once, or calls wait for each other and none fails,  *)
(* a reader gets a blob as it was put, or none.                            *)
THEOREM BlobsAreWhole == ServicesSpec => [](Tidy => WholeOrNothing)
<1>1. Inv => (Tidy => WholeOrNothing)
  BY BlobGoal DEF Inv
<1>2. QED BY <1>1, ServicesSound, PTL

(* Deletions and restorations of any number of callers invent no value, as *)
(* long as the values that are set bear no mark of a deletion.             *)
THEOREM NoneInvented ==
  ASSUME PlainValues
  PROVE  ServicesSpec => []NothingInvented
<1>1. Inv => NothingInvented
  BY SoftGoal DEF Inv
<1>2. QED BY <1>1, ServicesSound, PTL

(* With prompt pushes, and no match in the hour that a clock put back      *)
(* repeats, the job of a time is begun once.                               *)
THEOREM TimesAreOnce == ServicesSpec => [](Steady => EachTimeOnce)
<1>1. Inv => (Steady => EachTimeOnce)
  BY SchedGoals DEF Inv
<1>2. QED BY <1>1, ServicesSound, PTL

(* Under the same conditions the chain of jobs of a schedule does not end, *)
(* if its name has no colon (KeepsRunning) and no worker dies; or if one   *)
(* may die, jobs are removed when they are done and none is rejected.      *)
THEOREM ChainsHold ==
  ServicesSpec => [](Steady /\ (plan.crashes => plan.removes /\ ~plan.rejects) => KeepsRunning)
<1>1. Inv => (Steady /\ (plan.crashes => plan.removes /\ ~plan.rejects) => KeepsRunning)
  BY SchedGoals DEF Inv
<1>2. QED BY <1>1, ServicesSound, PTL

-----------------------------------------------------------------------------
(* The rows of schema tables                                               *)

(* The tables that keep what was written.                                  *)

Writing == {"set", "setRecords", "update"}
Fetching == {"get", "getByKey"}
Erasing == {"delete", "deleteRecords"}

(* A key says which row a record goes to: no other row is updated in its   *)
(* stead.                                                                  *)
KeysNameRows(t) == t.driver = "mysql" => ~t.unique

(* A read that has met an expired row deletes what is there by then; so it *)
(* deletes none, or does so at once, or nothing is written.                *)
ReadsDropNothing(t) ==
  \/ t.driver = "mysql" \/ ~t.expires \/ (t.driver = "sqlite" /\ ~t.shared)
  \/ t.operations \cap Fetching = {} \/ t.operations \cap Writing = {}

(* There is no lock on a row that is not there.                            *)
UpdatesFindRows(t) ==
  t.driver \in {"postgres", "mongodb"} /\ "update" \in t.operations =>
    t.seeded /\ ~t.expires /\ t.operations \cap Erasing = {}

Keeping == \A t \in Tables : KeysNameRows(t) /\ ReadsDropNothing(t) /\ UpdatesFindRows(t)

(* mongodb refuses no record of a bulk: it would keep those before it.     *)
Whole == \A t \in Tables : t.driver = "mongodb" /\ "setRecords" \in t.operations => ~t.unique

-----------------------------------------------------------------------------
(* The types.                                                              *)

Lists == {<<>>, EachKey} \cup {<<i>> : i \in Items \cup Patches \cup AllKeys} \cup Items \X Items

Request ==
  [op : {"none"} \cup Writing \cup Fetching \cup Erasing, items : Lists,
   pc : {"idle", "ok", "failed", "bulk", "drop", "write", "again"},
   read : Rows \cup {NoRow}, step : Nat]

Typed ==
  /\ table \in Tables
  /\ rows \in [Keys -> Rows \cup {NoRow}]
  /\ call \in [Calls -> Request]

(* A request has the items that its operation takes, and waits only where  *)
(* the driver makes it wait: late deletions are of reads that have met an  *)
(* expired row.                                                            *)
Form(q) ==
  /\ q.op # "none" => q.op \in table.operations
  /\ q.op = "set" => \E item \in Items : q.items = <<item>>
  /\ q.op = "setRecords" => q.items \in Items \X Items
  /\ q.op = "update" => \E item \in Patches : q.items = <<item>>
  /\ q.pc = "idle" => q.op = "none"
  /\ q.pc \in {"write", "again"} => q.op = "update" /\ driver # "sqlite"
  /\ q.pc = "again" => driver = "mongodb"
  /\ q.pc = "drop" => /\ q.op \in Fetching /\ table.expires /\ driver # "mysql"
                      /\ ~(driver = "sqlite" /\ ~table.shared)
  /\ q.pc = "bulk" => /\ driver = "mongodb" /\ q.op \in {"setRecords", "deleteRecords"}
                      /\ q.op = "setRecords" => q.step \in {0, 1}

Formed == \A c \in Calls : Form(call[c])

(* Rows end where records expire.                                          *)
Ending == \A k \in Keys : rows[k] # NoRow /\ ~table.expires => rows[k].life = "ever"

Shape == Typed /\ Formed /\ Ending

-----------------------------------------------------------------------------
(* The invariants.                                                         *)

(* The keys under which c has written by now.                              *)
Claims(c, k) ==
  \/ call[c].pc = "ok" /\ call[c].op \in Writing /\ k \in KeysOf(call[c].items)
  \/ /\ call[c].pc = "bulk" /\ call[c].op = "setRecords" /\ call[c].step = 1
     /\ k = call[c].items[1].key

ClaimsKept ==
  \A c \in Calls, k \in Keys : Claims(c, k) /\ <<c, k>> \notin over => Alive(rows[k]) /\ c \in rows[k].val

(* An update that has read the row under a lock knows all that is in it.   *)
ReadsCurrent ==
  \A c \in Calls : call[c].pc = "write" /\ driver # "mongodb" =>
    \A k \in KeysOf(call[c].items) :
      Alive(rows[k]) => Alive(call[c].read) /\ rows[k].val \subseteq call[c].read.val

(* Where the driver locks no gaps, updates find their rows.                *)
RowsFound ==
  driver \in {"postgres", "mongodb"} /\ "update" \in table.operations =>
    /\ \A k \in Keys : Alive(rows[k])
    /\ \A c \in Calls : call[c].pc = "write" => Alive(call[c].read)

KeepInv == Shape /\ ClaimsKept /\ ReadsCurrent /\ RowsFound

(* Whoever has not been answered, or was refused, is in no row, nor in     *)
(* what anybody has read.                                                  *)
Unwritten ==
  \A c \in Calls : call[c].pc \notin {"ok", "bulk"} =>
    /\ \A k \in Keys : rows[k] # NoRow => c \notin rows[k].val
    /\ \A d \in Calls : call[d].read # NoRow => c \notin call[d].read.val

-----------------------------------------------------------------------------
USE SchemaTableAssumption

LEMMA TableIs ==
  ASSUME Typed
  PROVE  /\ table.driver \in {"sqlite", "postgres", "mysql", "mongodb"}
         /\ {table.unique, table.expires, table.shared, table.seeded} \subseteq BOOLEAN
         /\ table.operations \subseteq Writing \cup Fetching \cup Erasing
BY DEF Typed, Writing, Fetching, Erasing

(* A record that is written is a row, of the key unless mysql meets another*)
(* one with the mark.                                                      *)
LEMMA UpsertIs ==
  ASSUME NEW rs \in [Keys -> Rows \cup {NoRow}], NEW item \in Items, NEW val \in SUBSET Calls,
         NEW new \in Upsert(rs, item, val)
  PROVE  \E k \in Keys :
           /\ new = [rs EXCEPT ![k] = [val |-> val, mark |-> item.mark, life |-> item.life]]
           /\ KeysNameRows(table) => k = item.key
<1>1. Accepts(rs, item)
  BY DEF Upsert
<1>2. new = [rs EXCEPT ![Target(rs, item)] = [val |-> val, mark |-> item.mark, life |-> item.life]]
  BY <1>1 DEF Upsert
<1>3. item.key \in Keys
  BY DEF Items
<1>4. CASE Holders(rs, item) = {}
  BY <1>2, <1>3, <1>4 DEF Target
<1>5. CASE Holders(rs, item) # {}
  <2>1. Target(rs, item) \in Holders(rs, item)
    BY <1>5 DEF Target
  <2>2. Target(rs, item) \in Keys
    BY <2>1 DEF Holders
  <2>3. ~KeysNameRows(table)
    BY <1>1, <1>5 DEF Accepts, Holders, KeysNameRows, driver
  <2>4. QED BY <1>2, <2>2, <2>3
<1>6. QED BY <1>4, <1>5

Fresh(k, v) == rows'[k] \in Rows /\ rows'[k].val = v /\ rows'[k].life \in Lives

(* The rows of these keys are written, with this value; or, where keys do  *)
(* not name rows, some are.                                                *)
Written(v, keys) ==
  /\ rows' \in [Keys -> Rows \cup {NoRow}]
  /\ \A k \in Keys : rows'[k] = rows[k] \/ Fresh(k, v)
  /\ KeysNameRows(table) => \A k \in Keys : IF k \in keys THEN Fresh(k, v) ELSE rows'[k] = rows[k]

LEMMA KeysOfOne == ASSUME NEW item PROVE KeysOf(<<item>>) = {item.key}
BY DEF KeysOf

LEMMA KeysOfTwo ==
  ASSUME NEW items \in Items \X Items
  PROVE  /\ KeysOf(items) = {items[1].key, items[2].key} /\ Len(items) = 2
         /\ items[1] \in Items /\ items[2] \in Items
BY DEF KeysOf

LEMMA LivesAre == Lives \subseteq {"ever", "ttl"}
BY DEF Lives

LEMMA NewRow ==
  ASSUME NEW item \in Items, NEW val \in SUBSET Calls
  PROVE  [val |-> val, mark |-> item.mark, life |-> item.life] \in Rows /\ item.life \in Lives
BY LivesAre DEF Items, Rows

LEMMA UpsertWrites ==
  ASSUME Typed, NEW item \in Items, NEW val \in SUBSET Calls, rows' \in Upsert(rows, item, val)
  PROVE  Written(val, {item.key})
<1>1. PICK k \in Keys :
        /\ rows' = [rows EXCEPT ![k] = [val |-> val, mark |-> item.mark, life |-> item.life]]
        /\ KeysNameRows(table) => k = item.key
  BY UpsertIs DEF Typed
<1>2. Fresh(k, val) /\ \A m \in Keys : m # k => rows'[m] = rows[m]
  BY <1>1, NewRow DEF Typed, Fresh
<1>3. rows' \in [Keys -> Rows \cup {NoRow}]
  BY <1>1, NewRow DEF Typed
<1>4. QED BY <1>1, <1>2, <1>3 DEF Written

LEMMA StoredWrites ==
  ASSUME Typed, NEW c \in Calls, NEW items,
         (\E item \in Items : items = <<item>>) \/ items \in Items \X Items,
         rows' \in Stored(c, items)
  PROVE  Written({c}, KeysOf(items))
<1>1. CASE \E item \in Items : items = <<item>>
  <2>1. PICK item \in Items : items = <<item>>
    BY <1>1
  <2>2. rows' \in Upsert(rows, item, {c})
    BY <2>1 DEF Stored
  <2>3. QED BY <2>1, <2>2, UpsertWrites, KeysOfOne
<1>2. CASE items \in Items \X Items
  <2>1. PICK rs \in Upsert(rows, items[1], {c}) : rows' \in Upsert(rs, items[2], {c})
    <3>1. Len(items) # 1
      BY <1>2, KeysOfTwo
    <3>2. rows' \in UNION {Upsert(rs, items[2], {c}) : rs \in Upsert(rows, items[1], {c})}
      BY <3>1 DEF Stored
    <3>3. QED BY <3>2
  <2> DEFINE new(i) == [val |-> {c}, mark |-> items[i].mark, life |-> items[i].life]
  <2>2. PICK k \in Keys :
          rs = [rows EXCEPT ![k] = new(1)] /\ (KeysNameRows(table) => k = items[1].key)
    BY <1>2, <2>1, KeysOfTwo, UpsertIs DEF Typed
  <2>3. \A i \in {1, 2} : new(i) \in Rows /\ new(i).val = {c} /\ new(i).life \in Lives
    BY <1>2, KeysOfTwo, NewRow
  <2>4. rs \in [Keys -> Rows \cup {NoRow}]
    BY <2>2, <2>3 DEF Typed
  <2>5. PICK m \in Keys :
          rows' = [rs EXCEPT ![m] = new(2)] /\ (KeysNameRows(table) => m = items[2].key)
    BY <1>2, <2>1, <2>4, KeysOfTwo, UpsertIs
  <2> HIDE DEF new
  <2>6. \A j \in Keys : rows'[j] = IF j = m THEN new(2) ELSE IF j = k THEN new(1) ELSE rows[j]
    BY <2>2, <2>4, <2>5 DEF Typed
  <2>7. rows' \in [Keys -> Rows \cup {NoRow}]
    BY <2>3, <2>4, <2>5
  <2>8. \A j \in Keys : IF j \in {m, k} THEN Fresh(j, {c}) ELSE rows'[j] = rows[j]
    BY <2>3, <2>6 DEF Fresh
  <2>9. KeysNameRows(table) => KeysOf(items) = {m, k}
    BY <1>2, <2>2, <2>5, KeysOfTwo
  <2>10. \A j \in Keys : rows'[j] = rows[j] \/ Fresh(j, {c})
    BY <2>8
  <2>11. QED BY <2>7, <2>8, <2>9, <2>10 DEF Written
<1>3. QED BY <1>1, <1>2

LEMMA UpdatedWrites ==
  ASSUME Typed, NEW c \in Calls, NEW item \in Patches, NEW r \in Rows \cup {NoRow},
         rows' \in Updated(c, r, item)
  PROVE  Written({c} \cup (IF Alive(r) THEN r.val ELSE {}), {item.key})
<1> DEFINE p == Patched(c, r, item)
<1>1. Alive(r) => r \in Rows
  BY DEF Alive
<1>2. p.val = {c} \cup (IF Alive(r) THEN r.val ELSE {}) /\ p.val \in SUBSET Calls
  BY <1>1 DEF Patched, Rows
<1>3. p.item = [item EXCEPT !.mark = IF item.mark # "same" THEN item.mark
                                     ELSE IF Alive(r) THEN r.mark ELSE "null"]
  BY DEF Patched
<1>4. p.item \in Items /\ p.item.key = item.key
  <2>1. Alive(r) => r.mark \in Marks \cup {"null"}
    BY <1>1 DEF Rows
  <2>2. QED BY <1>3, <2>1 DEF Patches, Items
<1>5. rows' \in Upsert(rows, p.item, p.val)
  BY DEF Updated
<1> HIDE DEF p
<1>6. QED BY <1>2, <1>4, <1>5, UpsertWrites

-----------------------------------------------------------------------------
(* What a step is.                                                         *)

IsSet(c, op, items) ==
  /\ Asks(c, op) /\ Set(c, op, items)
  /\ \/ op = "set" /\ \E item \in Items : items = <<item>>
     \/ op = "setRecords" /\ items \in Items \X Items /\ driver # "mongodb"

IsErase(c, op, items) == op \in Erasing /\ items \in Lists /\ Asks(c, op) /\ Erase(c, op, items)

IsPut(c, item, r) ==
  /\ item \in Patches /\ Put(c, <<item>>, r)
  /\ \/ driver = "sqlite" /\ Asks(c, "update") /\ r = rows[item.key]
     \/ /\ driver # "sqlite" /\ call[c].pc = "write" /\ call[c].items = <<item>> /\ r = call[c].read
        /\ driver = "mongodb" /\ Alive(r) => rows[item.key] # NoRow /\ rows[item.key].val = r.val

IsSelect(c, item) ==
  /\ item \in Patches /\ Select(c, item) /\ driver # "sqlite"
  /\ \/ Asks(c, "update")
     \/ driver = "mongodb" /\ call[c].pc = "again" /\ call[c].items = <<item>>

GivesUp(c, pc) ==
  /\ call[c].pc = "write" /\ Ends(c, pc) /\ UNCHANGED <<table, rows, over>>
  /\ pc = "failed" \/ (pc = "again" /\ driver = "mongodb")

LEMMA StepsAre ==
  ASSUME Shape, [Next]_vars
  PROVE  \/ \E c \in Calls : \/ \E op, items : IsSet(c, op, items) \/ IsErase(c, op, items)
                             \/ BulkWrite(c) \/ BulkNext(c) \/ Drop(c)
                             \/ \E op \in Fetching, k \in Keys : Asks(c, op) /\ Meets(c, op, k)
                             \/ \E item, r : IsPut(c, item, r)
                             \/ \E item : IsSelect(c, item)
                             \/ \E pc : GivesUp(c, pc)
         \/ (\E k \in Keys : Expire(k)) \/ PurgeExpired \/ UNCHANGED vars
<1>a. \A c \in Calls : call[c].pc \in {"write", "again"} =>
        driver # "sqlite" /\ \E item \in Patches : call[c].items = <<item>>
  BY DEF Shape, Formed, Form
<1>b. driver \in {"sqlite", "postgres", "mysql", "mongodb"}
  BY TableIs DEF Shape, driver
<1>1. ASSUME NEW c \in Calls, SetRecord(c) \/ SetRecords(c) PROVE \E op, items : IsSet(c, op, items)
  <2>1. Batches \subseteq Items \X Items
    BY DEF Batches
  <2>2. QED BY <1>1, <2>1 DEF SetRecord, SetRecords, IsSet
<1>2. ASSUME NEW c \in Calls, Delete(c) \/ DeleteRecords(c) PROVE \E op, items : IsErase(c, op, items)
  <2>1. CASE Delete(c)
    <3>1. PICK item \in AllKeys : Asks(c, "delete") /\ Erase(c, "delete", <<item>>)
      BY <2>1 DEF Delete
    <3>2. <<item>> \in Lists
      BY DEF Lists
    <3>3. QED BY <3>1, <3>2 DEF IsErase, Erasing
  <2>2. CASE DeleteRecords(c)
    BY <2>2 DEF DeleteRecords, IsErase, Erasing, Lists
  <2>3. QED BY <1>2, <2>1, <2>2
<1>3. ASSUME NEW c \in Calls, GetRecord(c) \/ GetRecordByKey(c)
      PROVE  \E op \in Fetching, k \in Keys : Asks(c, op) /\ Meets(c, op, k)
  BY <1>3 DEF GetRecord, GetRecordByKey, Fetching
<1>4. ASSUME NEW c \in Calls, SqliteUpdate(c) PROVE \E item, r : IsPut(c, item, r)
  BY <1>4 DEF SqliteUpdate, IsPut
<1>5. ASSUME NEW c \in Calls, PostgresUpsert(c) \/ MysqlUpsert(c) PROVE \E item, r : IsPut(c, item, r)
  <2>1. /\ call[c].pc = "write" /\ Put(c, call[c].items, call[c].read)
        /\ driver \in {"postgres", "mysql"}
    BY <1>5 DEF PostgresUpsert, MysqlUpsert
  <2>2. PICK item \in Patches : call[c].items = <<item>>
    BY <1>a, <2>1
  <2>3. QED BY <2>1, <2>2 DEF IsPut
<1>6. ASSUME NEW c \in Calls, PostgresSelect(c) \/ MysqlSelect(c) \/ MongoRead(c)
      PROVE  \E item : IsSelect(c, item)
  <2>1. CASE PostgresSelect(c) \/ MysqlSelect(c)
    BY <2>1 DEF PostgresSelect, MysqlSelect, IsSelect
  <2>2. CASE MongoRead(c)
    <3>1. CASE Asks(c, "update") /\ \E item \in Patches : Select(c, item)
      BY <2>2, <3>1 DEF MongoRead, IsSelect
    <3>2. CASE call[c].pc = "again" /\ Select(c, call[c].items[1])
      <4>1. PICK item \in Patches : call[c].items = <<item>>
        BY <1>a, <3>2
      <4>2. QED BY <2>2, <3>2, <4>1 DEF MongoRead, IsSelect
    <3>3. QED BY <2>2, <3>1, <3>2 DEF MongoRead
  <2>3. QED BY <1>6, <2>1, <2>2
<1>7. ASSUME NEW c \in Calls, MysqlDeadlock(c) PROVE \E pc : GivesUp(c, pc)
  BY <1>7 DEF MysqlDeadlock, HoldsGap, GivesUp
<1>8. ASSUME NEW c \in Calls, MongoWrite(c)
      PROVE  (\E item, r : IsPut(c, item, r)) \/ \E pc : GivesUp(c, pc)
  <2>1. driver = "mongodb" /\ call[c].pc = "write"
    BY <1>8 DEF MongoWrite
  <2>2. PICK item \in Patches : call[c].items = <<item>>
    BY <1>a, <2>1
  <2>3. CASE /\ Put(c, call[c].items, call[c].read)
             /\ \/ ~Alive(call[c].read)
                \/ rows[item.key] # NoRow /\ rows[item.key].val = call[c].read.val
    BY <2>1, <2>2, <2>3 DEF IsPut
  <2>4. CASE /\ Ends(c, IF call[c].step < MaxAttempts THEN "again" ELSE "failed")
             /\ UNCHANGED <<table, rows, over>>
    BY <2>1, <2>4 DEF GivesUp
  <2>5. QED BY <1>8, <2>2, <2>3, <2>4 DEF MongoWrite
<1>9. QED BY <1>1, <1>2, <1>3, <1>4, <1>5, <1>6, <1>7, <1>8 DEF Next

(* The table is the same for good.                                         *)
LEMMA TableStays == [Next]_vars => table' = table
BY DEF Next, vars, SetRecord, SetRecords, Set, Delete, DeleteRecords, Erase, BulkWrite, BulkNext,
       GetRecord, GetRecordByKey, Meets, Drop, SqliteUpdate, Put, PostgresSelect, MysqlSelect, Select,
       PostgresUpsert, MysqlUpsert, MysqlDeadlock, MongoRead, MongoWrite, Expire, PurgeExpired

LEMMA SettingStays ==
  ASSUME table' = table
  PROVE  /\ driver' = driver /\ Lives' = Lives /\ Items' = Items /\ Patches' = Patches
         /\ Lists' = Lists /\ Request' = Request
<1>1. driver' = driver /\ Lives' = Lives
  BY DEF driver, Lives
<1>2. Items' = Items /\ Patches' = Patches
  BY <1>1 DEF Items, Patches
<1>3. Lists' = Lists
  BY <1>2 DEF Lists
<1>4. QED BY <1>1, <1>2, <1>3 DEF Request

(* A request that is replaced by another of its form.                      *)
LEMMA RequestsStay ==
  ASSUME Shape, table' = table, NEW c \in Calls, NEW q \in Request, Form(q),
         call' = [call EXCEPT ![c] = q]
  PROVE  /\ call' \in [Calls -> Request] /\ Formed'
         /\ call'[c] = q /\ \A d \in Calls : d # c => call'[d] = call[d]
<1>1. /\ call' \in [Calls -> Request]
      /\ call'[c] = q /\ \A d \in Calls : d # c => call'[d] = call[d]
  BY DEF Shape, Typed
<1>2. \A d \in Calls : Form(call'[d])
  BY <1>1 DEF Shape, Formed
<1>3. ASSUME NEW d \in Calls, Form(call'[d]) PROVE Form(call[d])'
  BY <1>3, SettingStays DEF Form
<1>4. Formed'
  BY <1>2, <1>3 DEF Formed
<1>5. QED BY <1>1, <1>4

(* The calls move, one at a time.                                          *)
LEMMA SetMoves ==
  ASSUME Shape, NEW c \in Calls, NEW op, NEW items, IsSet(c, op, items)
  PROVE  /\ table' = table /\ call[c].pc = "idle"
         /\ \E pc \in {"ok", "failed"} : 
              LET q == Made(op, items, pc) IN
              q \in Request /\ Form(q) /\ call' = [call EXCEPT ![c] = q]
<1>1. PICK pc \in {"ok", "failed"} : Goes(c, op, items, pc)
  BY DEF IsSet, Set
<1>2. items \in Lists /\ op \in Writing
  BY DEF IsSet, Lists, Writing
<1>3. Made(op, items, pc) \in Request
  BY <1>2 DEF Made, Request
<1>4. Form(Made(op, items, pc))
  BY DEF IsSet, Asks, Made, Form
<1>5. QED BY <1>1, <1>3, <1>4 DEF IsSet, Set, Asks, Goes

LEMMA EraseMoves ==
  ASSUME Shape, NEW c \in Calls, NEW op, NEW items, IsErase(c, op, items)
  PROVE  LET q == Made(op, items, "ok") IN
         /\ table' = table /\ call[c].pc = "idle"
         /\ q \in Request /\ Form(q) /\ call' = [call EXCEPT ![c] = q]
<1>1. Made(op, items, "ok") \in Request
  BY DEF IsErase, Made, Request
<1>2. Form(Made(op, items, "ok"))
  BY DEF IsErase, Asks, Made, Form, Erasing
<1>3. QED BY <1>1, <1>2 DEF IsErase, Erase, Asks, Goes

LEMMA BulkMoves ==
  ASSUME Shape, NEW c \in Calls, BulkWrite(c)
  PROVE  /\ UNCHANGED <<table, rows, over>> /\ call[c].pc = "idle"
         /\ \E op \in {"setRecords", "deleteRecords"}, items \in Lists :
              LET q == Made(op, items, "bulk") IN
              q \in Request /\ Form(q) /\ call' = [call EXCEPT ![c] = q]
<1>1. PICK op \in {"setRecords", "deleteRecords"}, items \in Lists :
        /\ Asks(c, op) /\ Goes(c, op, items, "bulk")
        /\ op = "setRecords" => items \in Items \X Items
  BY DEF BulkWrite, Lists, Batches
<1>2. Made(op, items, "bulk") \in Request
  BY DEF Made, Request, Writing, Erasing
<1>3. Form(Made(op, items, "bulk"))
  BY <1>1 DEF BulkWrite, Asks, Made, Form
<1>4. QED BY <1>1, <1>2, <1>3 DEF BulkWrite, Asks, Goes

LEMMA BulkNextMoves ==
  ASSUME Shape, NEW c \in Calls, BulkNext(c)
  PROVE  /\ table' = table /\ call[c].pc = "bulk"
         /\ \E pc \in {"ok", "failed", "bulk"}, n \in Nat :
              LET q == [call[c] EXCEPT !.pc = pc, !.step = n] IN
              /\ q \in Request /\ Form(q) /\ call' = [call EXCEPT ![c] = q]
              /\ IF pc = "failed" THEN n = call[c].step /\ UNCHANGED <<rows, over>> ELSE n = call[c].step + 1
              /\ pc # "failed" => (pc = "ok" <=> n = Len(call[c].items))
<1>a. call[c] \in Request /\ call[c].pc = "bulk" /\ Form(call[c])
  BY DEF Shape, Typed, Formed, BulkNext
<1>1. ASSUME NEW pc \in {"ok", "failed", "bulk"}, NEW n \in Nat,
             pc = "bulk" /\ call[c].op = "setRecords" => n \in {0, 1}
      PROVE  [call[c] EXCEPT !.pc = pc, !.step = n] \in Request /\ Form([call[c] EXCEPT !.pc = pc, !.step = n])
  BY <1>a, <1>1 DEF Request, Form
<1>2. CASE Ends(c, "failed") /\ UNCHANGED <<rows, over>>
  <2>1. [call[c] EXCEPT !.pc = "failed"] = [call[c] EXCEPT !.pc = "failed", !.step = call[c].step]
    BY <1>a DEF Request
  <2>2. call[c].step \in Nat
    BY <1>a DEF Request
  <2>3. QED BY <1>1, <1>2, <1>a, <2>1, <2>2 DEF BulkNext, Ends
<1>3. CASE ~(Ends(c, "failed") /\ UNCHANGED <<rows, over>>)
  <2> DEFINE n == call[c].step + 1
             pc == IF n = Len(call[c].items) THEN "ok" ELSE "bulk"
  <2>1. call' = [call EXCEPT ![c] = [call[c] EXCEPT !.pc = pc, !.step = n]]
    <3>1. call' = [call EXCEPT ![c].step = n, ![c].pc = IF n = Len(call[c].items) THEN "ok" ELSE @]
      BY <1>3 DEF BulkNext
    <3>2. pc = IF n = Len(call[c].items) THEN "ok" ELSE call[c].pc
      BY <1>a
    <3> HIDE DEF n, pc
    <3>3. QED BY <1>a, <3>1, <3>2 DEF Request, Shape, Typed
  <2>2. n \in Nat
    BY <1>a DEF Request
  <2>3. ASSUME call[c].op = "setRecords" PROVE Len(call[c].items) = 2 /\ call[c].step \in {0, 1}
    <3>1. call[c].items \in Items \X Items /\ call[c].step \in {0, 1}
      BY <1>a, <2>3 DEF Form
    <3>2. QED BY <3>1, KeysOfTwo
  <2>4. ASSUME pc = "bulk", call[c].op = "setRecords" PROVE n \in {0, 1}
    <3>1. n # 2
      BY <2>3, <2>4
    <3>2. QED BY <2>3, <2>4, <3>1
  <2>5. QED BY <1>1, <1>a, <2>1, <2>2, <2>4 DEF BulkNext
<1>4. QED BY <1>2, <1>3

LEMMA MeetsMoves ==
  ASSUME Shape, NEW c \in Calls, NEW op \in Fetching, NEW k \in Keys, Asks(c, op), Meets(c, op, k)
  PROVE  /\ UNCHANGED <<table, over>> /\ call[c].pc = "idle"
         /\ \E pc \in {"ok", "drop"} :
              LET q == Made(op, <<[key |-> k]>>, pc) IN
              q \in Request /\ Form(q) /\ call' = [call EXCEPT ![c] = q]
<1>1. PICK pc \in {"ok", "drop"} :
        /\ Goes(c, op, <<[key |-> k]>>, pc)
        /\ pc = "drop" => Expired(rows[k]) /\ driver # "mysql" /\ ~(driver = "sqlite" /\ ~table.shared)
  BY DEF Meets
<1>2. <<[key |-> k]>> \in Lists
  BY DEF Lists, AllKeys
<1>3. Made(op, <<[key |-> k]>>, pc) \in Request
  BY <1>2 DEF Made, Request
<1>4. pc = "drop" => table.expires
  BY <1>1, TableIs DEF Expired, Shape, Ending
<1>5. Form(Made(op, <<[key |-> k]>>, pc))
  BY <1>1, <1>4 DEF Asks, Made, Form, Fetching
<1>6. QED BY <1>1, <1>3, <1>5 DEF Meets, Asks, Goes

LEMMA PutMoves ==
  ASSUME Shape, NEW c \in Calls, NEW item, NEW r, IsPut(c, item, r)
  PROVE  /\ table' = table /\ item \in Patches /\ r \in Rows \cup {NoRow}
         /\ call[c].pc \in {"idle", "write"}
         /\ \E pc \in {"ok", "failed"} :
              LET q == Made("update", <<item>>, pc) IN
              /\ q \in Request /\ Form(q) /\ call' = [call EXCEPT ![c] = q]
              /\ IF pc = "failed" THEN UNCHANGED <<rows, over>>
                 ELSE rows' \in Updated(c, r, item) /\ over' = over \ {<<c, item.key>>}
<1>1. PICK pc \in {"ok", "failed"} :
        /\ Goes(c, "update", <<item>>, pc)
        /\ IF pc = "failed" THEN UNCHANGED <<rows, over>>
           ELSE rows' \in Updated(c, r, item) /\ over' = over \ {<<c, item.key>>}
  BY DEF IsPut, Put
<1>2. <<item>> \in Lists /\ item \in Patches
  BY DEF IsPut, Lists
<1>3. Made("update", <<item>>, pc) \in Request
  BY <1>2 DEF Made, Request, Writing
<1>4. "update" \in table.operations
  BY DEF IsPut, Asks, Shape, Formed, Form
<1>5. Form(Made("update", <<item>>, pc))
  BY <1>2, <1>4 DEF Made, Form
<1>6. r \in Rows \cup {NoRow}
  BY <1>2 DEF IsPut, Shape, Typed, Request, Patches
<1>7. call[c].pc \in {"idle", "write"} /\ table' = table
  BY DEF IsPut, Put, Asks
<1>8. QED BY <1>1, <1>2, <1>3, <1>5, <1>6, <1>7 DEF Goes

LEMMA SelectMoves ==
  ASSUME Shape, NEW c \in Calls, NEW item, IsSelect(c, item)
  PROVE  /\ UNCHANGED <<table, rows, over>> /\ item \in Patches /\ call[c].pc \in {"idle", "again"}
         /\ driver # "sqlite" /\ "update" \in table.operations
         /\ \E n \in Nat :
              LET q == [op |-> "update", items |-> <<item>>, pc |-> "write",
                        read |-> rows[item.key], step |-> n] IN
              q \in Request /\ Form(q) /\ call' = [call EXCEPT ![c] = q]
<1>1. call[c].step + 1 \in Nat /\ item \in Patches /\ rows[item.key] \in Rows \cup {NoRow}
  BY DEF IsSelect, Shape, Typed, Request, Patches
<1>2. <<item>> \in Lists
  BY <1>1 DEF Lists
<1>3. "update" \in table.operations /\ driver # "sqlite"
  BY DEF IsSelect, Asks, Shape, Formed, Form
<1> DEFINE q == [op |-> "update", items |-> <<item>>, pc |-> "write",
                 read |-> rows[item.key], step |-> call[c].step + 1]
<1>4. q \in Request
  BY <1>1, <1>2 DEF Request, Writing
<1>5. Form(q)
  BY <1>1, <1>3 DEF Form
<1>6. call' = [call EXCEPT ![c] = q]
  BY DEF IsSelect, Select
<1> HIDE DEF q
<1>7. UNCHANGED <<table, rows, over>> /\ call[c].pc \in {"idle", "again"}
  BY DEF IsSelect, Select, Asks
<1>8. QED BY <1>1, <1>3, <1>4, <1>5, <1>6, <1>7 DEF q

LEMMA EndingMoves ==
  ASSUME Shape, NEW c \in Calls, NEW pc, (Drop(c) /\ pc = "ok") \/ GivesUp(c, pc)
  PROVE  LET q == [call[c] EXCEPT !.pc = pc] IN
         /\ UNCHANGED <<table, over>> /\ call[c].pc \in {"drop", "write"} /\ pc \in {"ok", "failed", "again"}
         /\ q \in Request /\ Form(q) /\ call' = [call EXCEPT ![c] = q]
<1>1. call[c] \in Request /\ Form(call[c])
  BY DEF Shape, Typed, Formed
<1>2. /\ Ends(c, pc) /\ UNCHANGED <<table, over>> /\ call[c].pc \in {"drop", "write"}
      /\ pc \in {"ok", "failed", "again"}
      /\ pc = "again" => driver = "mongodb" /\ call[c].pc = "write"
  BY DEF Drop, GivesUp
<1>3. [call[c] EXCEPT !.pc = pc] \in Request
  BY <1>1, <1>2 DEF Request
<1>4. Form([call[c] EXCEPT !.pc = pc])
  BY <1>1, <1>2 DEF Form, Request
<1>5. QED BY <1>2, <1>3, <1>4 DEF Ends

(* What becomes of the rows.                                               *)

LEMMA WithoutIs ==
  ASSUME Typed, NEW keys
  PROVE  /\ Without(keys) \in [Keys -> Rows \cup {NoRow}]
         /\ \A k \in Keys : Without(keys)[k] = IF k \in keys THEN NoRow ELSE rows[k]
BY DEF Without, Typed

LEMMA ExpireIs ==
  ASSUME Typed, NEW k \in Keys, Expire(k)
  PROVE  /\ rows[k] \in Rows /\ rows[k].life = "ttl" /\ rows' \in [Keys -> Rows \cup {NoRow}]
         /\ rows'[k] \in Rows /\ rows'[k].val = rows[k].val /\ rows'[k].life = "over"
         /\ \A m \in Keys : m # k => rows'[m] = rows[m]
         /\ over' = over \cup (Calls \X {k}) /\ UNCHANGED <<table, call>>
<1>1. rows[k] \in Rows /\ rows[k].life = "ttl"
  BY DEF Expire, Typed
<1>2. rows' = [rows EXCEPT ![k] = [rows[k] EXCEPT !.life = "over"]]
  BY DEF Expire
<1>3. [rows[k] EXCEPT !.life = "over"] \in Rows
  BY <1>1 DEF Rows
<1>4. QED BY <1>1, <1>2, <1>3 DEF Expire, Typed, Rows

(* A record of a bulk is refused, and ends it, or is stored or deleted.     *)
LEMMA BulkRows ==
  ASSUME Shape, NEW c \in Calls, BulkNext(c)
  PROVE  LET n == call[c].step + 1
             k == call[c].items[n].key IN
         /\ call[c].pc = "bulk" /\ driver = "mongodb"
         /\ call'[c].op = call[c].op /\ call'[c].items = call[c].items
         /\ \A d \in Calls : d # c => call'[d] = call[d]
         /\ \/ /\ call'[c].pc = "failed" /\ UNCHANGED <<rows, over>>
               /\ call[c].op = "setRecords" => Upsert(rows, call[c].items[n], {c}) = {}
            \/ /\ call'[c].pc = IF n = Len(call[c].items) THEN "ok" ELSE "bulk"
               /\ call'[c].step = n /\ over' = Replaced(c, {k})
               /\ \/ call[c].op = "setRecords" /\ n \in {1, 2} /\ k \in Keys /\ Written({c}, {k})
                  \/ call[c].op = "deleteRecords" /\ rows' = Without({k})
<1> DEFINE n == call[c].step + 1
           k == call[c].items[n].key
           stores == \/ call[c].op = "setRecords" /\ n \in {1, 2} /\ k \in Keys /\ Written({c}, {k})
                     \/ call[c].op = "deleteRecords" /\ rows' = Without({k})
           result == IF call[c].op = "setRecords" THEN Upsert(rows, call[c].items[n], {c}) ELSE {Without({k})}
<1>a. call \in [Calls -> Request] /\ call[c] \in Request /\ Form(call[c]) /\ call[c].pc = "bulk"
  BY DEF BulkNext, Shape, Typed, Formed
<1>b. call[c].op \in {"setRecords", "deleteRecords"} /\ driver = "mongodb"
  BY <1>a DEF Form
<1>c. IF result = {} THEN Ends(c, "failed") /\ UNCHANGED <<rows, over>>
      ELSE /\ rows' \in result /\ over' = Replaced(c, {k})
           /\ call' = [call EXCEPT ![c].step = n,
                                   ![c].pc = IF n = Len(call[c].items) THEN "ok" ELSE @]
  BY DEF BulkNext
<1> HIDE DEF n, k
<1>1. CASE result = {}
  <2>1. call' = [call EXCEPT ![c] = [call[c] EXCEPT !.pc = "failed"]] /\ UNCHANGED <<rows, over>>
    BY <1>1, <1>a, <1>c DEF Ends
  <2>2. call'[c] = [call[c] EXCEPT !.pc = "failed"] /\ \A d \in Calls : d # c => call'[d] = call[d]
    BY <1>a, <2>1
  <2>3. call'[c].pc = "failed" /\ call'[c].op = call[c].op /\ call'[c].items = call[c].items
    BY <1>a, <2>2 DEF Request
  <2>4. QED BY <1>1, <1>a, <1>b, <2>1, <2>2, <2>3 DEF n, k
<1>2. CASE result # {}
  <2>1. /\ call' = [call EXCEPT ![c] = [call[c] EXCEPT !.step = n,
                                          !.pc = IF n = Len(call[c].items) THEN "ok" ELSE "bulk"]]
        /\ rows' \in result /\ over' = Replaced(c, {k})
    BY <1>2, <1>a, <1>c DEF Request
  <2>2. /\ call'[c] = [call[c] EXCEPT !.step = n,
                                      !.pc = IF n = Len(call[c].items) THEN "ok" ELSE "bulk"]
        /\ \A d \in Calls : d # c => call'[d] = call[d]
    BY <1>a, <2>1
  <2>3. /\ call'[c].op = call[c].op /\ call'[c].items = call[c].items /\ call'[c].step = n
        /\ call'[c].pc = IF n = Len(call[c].items) THEN "ok" ELSE "bulk"
    BY <1>a, <2>2 DEF Request
  <2>4. ASSUME call[c].op = "setRecords" PROVE stores
    <3>1. call[c].items \in Items \X Items /\ call[c].step \in {0, 1}
      BY <1>a, <2>4 DEF Form
    <3>2. n \in {1, 2} /\ call[c].items[n] \in Items
      BY <3>1 DEF n
    <3>3. k \in Keys
      BY <3>2 DEF k, Items
    <3>4. Written({c}, {k})
      BY <1>a, <2>1, <2>4, <3>2, UpsertWrites DEF Shape, k
    <3>5. QED BY <2>4, <3>2, <3>3, <3>4
  <2>5. stores
    BY <1>b, <2>1, <2>4
  <2>6. QED BY <1>a, <1>b, <2>1, <2>2, <2>3, <2>5 DEF n, k
<1>3. QED BY <1>1, <1>2

LEMMA MeetsRows ==
  ASSUME NEW c, NEW op, NEW k \in Keys, Meets(c, op, k)
  PROVE  \/ rows' = rows
         \/ Expired(rows[k]) /\ driver = "sqlite" /\ rows' = Without({k})
BY DEF Meets

(* The rows keep their types, and end where records expire.                *)
LEMMA RowsStay ==
  ASSUME Shape, [Next]_vars
  PROVE  rows' \in [Keys -> Rows \cup {NoRow}] /\ Ending'
<1>a. Typed /\ table' = table
  BY TableStays DEF Shape
<1> DEFINE Goal == rows' \in [Keys -> Rows \cup {NoRow}] /\ Ending'
<1>1. CASE rows' = rows
  BY <1>1, <1>a DEF Shape, Typed, Ending
<1>2. ASSUME NEW keys, rows' = Without(keys) PROVE Goal
  BY <1>2, <1>a, WithoutIs DEF Shape, Ending
<1>3. ASSUME NEW v, NEW keys, Written(v, keys) PROVE Goal
  <2>1. ~table.expires => Lives = {"ever"}
    BY DEF Lives
  <2>2. \A k \in Keys : rows'[k] = rows[k] \/ rows'[k].life \in Lives
    BY <1>3 DEF Written, Fresh
  <2>3. rows' \in [Keys -> Rows \cup {NoRow}]
    BY <1>3 DEF Written
  <2>4. QED BY <1>a, <2>1, <2>2, <2>3 DEF Shape, Ending
<1>4. ASSUME NEW k \in Keys, Expire(k) PROVE Goal
  <2>1. table.expires
    <3>1. rows[k] # NoRow /\ rows[k].life # "ever"
      BY <1>a, <1>4, ExpireIs
    <3>2. QED BY <3>1 DEF Shape, Ending
  <2>2. QED BY <1>a, <1>4, <2>1, ExpireIs DEF Ending
<1>5. CASE PurgeExpired
  BY <1>2, <1>5 DEF PurgeExpired
<1>6. ASSUME NEW c \in Calls, NEW op, NEW items, IsSet(c, op, items) PROVE Goal
  <2>1. rows' = rows \/ rows' \in Stored(c, items)
    BY <1>6 DEF IsSet, Set
  <2>2. (\E item \in Items : items = <<item>>) \/ items \in Items \X Items
    BY <1>6 DEF IsSet
  <2>3. QED BY <1>1, <1>3, <1>a, <2>1, <2>2, StoredWrites
<1>7. ASSUME NEW c \in Calls, NEW op, NEW items, IsErase(c, op, items) PROVE Goal
  BY <1>2, <1>7 DEF IsErase, Erase
<1>8. ASSUME NEW c \in Calls, BulkWrite(c) PROVE Goal
  BY <1>1, <1>8 DEF BulkWrite
<1>9. ASSUME NEW c \in Calls, BulkNext(c) PROVE Goal
  BY <1>1, <1>2, <1>3, <1>9, BulkRows
<1>10. ASSUME NEW c \in Calls, NEW op, NEW k \in Keys, Meets(c, op, k) PROVE Goal
  BY <1>1, <1>2, <1>10, MeetsRows
<1>11. ASSUME NEW c \in Calls, Drop(c) PROVE Goal
  BY <1>2, <1>11 DEF Drop
<1>12. ASSUME NEW c \in Calls, NEW item, NEW r, IsPut(c, item, r) PROVE Goal
  <2>1. rows' = rows \/ rows' \in Updated(c, r, item)
    BY <1>12, PutMoves
  <2>2. item \in Patches /\ r \in Rows \cup {NoRow}
    BY <1>12, PutMoves
  <2>3. QED BY <1>1, <1>3, <1>a, <2>1, <2>2, UpdatedWrites
<1>13. ASSUME NEW c \in Calls, NEW item, NEW pc, IsSelect(c, item) \/ GivesUp(c, pc) PROVE Goal
  BY <1>1, <1>13 DEF IsSelect, Select, GivesUp
<1>14. CASE UNCHANGED vars
  BY <1>1, <1>14 DEF vars
<1>15. QED BY <1>4, <1>5, <1>6, <1>7, <1>8, <1>9, <1>10, <1>11, <1>12, <1>13, <1>14, StepsAre

LEMMA ShapeStep == Shape /\ [Next]_vars => Shape'
<1> SUFFICES ASSUME Shape, [Next]_vars PROVE Shape'
  OBVIOUS
<1>1. rows' \in [Keys -> Rows \cup {NoRow}] /\ Ending'
  BY RowsStay
<1>2. ASSUME table' = table, NEW c \in Calls, NEW q \in Request, Form(q), call' = [call EXCEPT ![c] = q]
      PROVE  table' \in Tables /\ call' \in [Calls -> Request'] /\ Formed'
  BY <1>2, RequestsStay, SettingStays DEF Shape, Typed
<1>3. table' \in Tables /\ call' \in [Calls -> Request'] /\ Formed'
  <2>1. ASSUME UNCHANGED <<table, call>> PROVE table' \in Tables /\ call' \in [Calls -> Request'] /\ Formed'
    <3>1. \A d \in Calls : Form(call[d])'
      BY <2>1, SettingStays DEF Form, Shape, Formed
    <3>2. QED BY <2>1, <3>1, SettingStays DEF Shape, Typed, Formed
  <2>2. CASE (\E k \in Keys : Expire(k)) \/ PurgeExpired \/ UNCHANGED vars
    BY <2>1, <2>2 DEF Expire, PurgeExpired, vars
  <2>3. ASSUME NEW c \in Calls, NEW op, NEW items, IsSet(c, op, items)
        PROVE  table' \in Tables /\ call' \in [Calls -> Request'] /\ Formed'
    BY <1>2, <2>3, SetMoves
  <2>4. ASSUME NEW c \in Calls, NEW op, NEW items, IsErase(c, op, items)
        PROVE  table' \in Tables /\ call' \in [Calls -> Request'] /\ Formed'
    BY <1>2, <2>4, EraseMoves
  <2>5. ASSUME NEW c \in Calls, BulkWrite(c)
        PROVE  table' \in Tables /\ call' \in [Calls -> Request'] /\ Formed'
    BY <1>2, <2>5, BulkMoves
  <2>6. ASSUME NEW c \in Calls, BulkNext(c)
        PROVE  table' \in Tables /\ call' \in [Calls -> Request'] /\ Formed'
    BY <1>2, <2>6, BulkNextMoves
  <2>7. ASSUME NEW c \in Calls, NEW op \in Fetching, NEW k \in Keys, Asks(c, op), Meets(c, op, k)
        PROVE  table' \in Tables /\ call' \in [Calls -> Request'] /\ Formed'
    BY <1>2, <2>7, MeetsMoves
  <2>8. ASSUME NEW c \in Calls, NEW item, NEW r, IsPut(c, item, r)
        PROVE  table' \in Tables /\ call' \in [Calls -> Request'] /\ Formed'
    BY <1>2, <2>8, PutMoves
  <2>9. ASSUME NEW c \in Calls, NEW item, IsSelect(c, item)
        PROVE  table' \in Tables /\ call' \in [Calls -> Request'] /\ Formed'
    BY <1>2, <2>9, SelectMoves
  <2>10. ASSUME NEW c \in Calls, NEW pc, (Drop(c) /\ pc = "ok") \/ GivesUp(c, pc)
         PROVE  table' \in Tables /\ call' \in [Calls -> Request'] /\ Formed'
    BY <1>2, <2>10, EndingMoves
  <2>11. QED BY <2>2, <2>3, <2>4, <2>5, <2>6, <2>7, <2>8, <2>9, <2>10, StepsAre
<1>4. QED BY <1>1, <1>3 DEF Shape, Typed

(* Who is about to write an update was so before, or has just read.        *)
LEMMA WritersAre ==
  ASSUME Shape, [Next]_vars, NEW d \in Calls, call'[d].pc = "write"
  PROVE  \/ call'[d] = call[d]
         \/ /\ UNCHANGED <<rows, over>>
            /\ \E item \in Patches : call'[d].items = <<item>> /\ call'[d].read = rows[item.key]
<1> DEFINE Goal == \/ call'[d] = call[d]
                   \/ /\ UNCHANGED <<rows, over>>
                      /\ \E item \in Patches : call'[d].items = <<item>> /\ call'[d].read = rows[item.key]
<1>a. call \in [Calls -> Request]
  BY DEF Shape, Typed
<1>b. call'[d] = call[d] => Goal
  OBVIOUS
<1>c. ASSUME UNCHANGED <<rows, over>>, NEW item \in Patches,
             call'[d].items = <<item>>, call'[d].read = rows[item.key]
      PROVE  Goal
  BY <1>c
<1> HIDE DEF Goal
<1>1. ASSUME NEW c \in Calls, NEW q, call' = [call EXCEPT ![c] = q], q.pc # "write" PROVE Goal
  <2>1. c # d
    BY <1>a, <1>1
  <2>2. QED BY <1>a, <1>b, <1>1, <2>1
<1>2. ASSUME NEW c \in Calls, NEW op, NEW items, NEW pc, pc # "write",
             call' = [call EXCEPT ![c] = Made(op, items, pc)]
      PROVE  Goal
  <2>1. Made(op, items, pc).pc # "write"
    BY <1>2 DEF Made
  <2>2. QED BY <1>1, <1>2, <2>1
<1>3. ASSUME NEW c \in Calls, NEW op, NEW items, IsSet(c, op, items) PROVE Goal
  BY <1>2, <1>3, SetMoves
<1>4. ASSUME NEW c \in Calls, NEW op, NEW items, IsErase(c, op, items) PROVE Goal
  BY <1>2, <1>4, EraseMoves
<1>5. ASSUME NEW c \in Calls, BulkWrite(c) PROVE Goal
  BY <1>2, <1>5, BulkMoves
<1>6. ASSUME NEW c \in Calls, BulkNext(c) PROVE Goal
  <2>1. PICK pc \in {"ok", "failed", "bulk"}, n \in Nat :
          call' = [call EXCEPT ![c] = [call[c] EXCEPT !.pc = pc, !.step = n]]
    <3>1. \E pc \in {"ok", "failed", "bulk"}, n \in Nat :
            LET q == [call[c] EXCEPT !.pc = pc, !.step = n] IN
            /\ q \in Request /\ Form(q) /\ call' = [call EXCEPT ![c] = q]
            /\ IF pc = "failed" THEN n = call[c].step /\ UNCHANGED <<rows, over>>
               ELSE n = call[c].step + 1
            /\ pc # "failed" => (pc = "ok" <=> n = Len(call[c].items))
      BY <1>6, BulkNextMoves
    <3>2. QED BY <3>1
  <2>2. [call[c] EXCEPT !.pc = pc, !.step = n].pc = pc
    BY <1>a DEF Request
  <2>3. QED BY <1>1, <2>1, <2>2
<1>7. ASSUME NEW c \in Calls, NEW op \in Fetching, NEW k \in Keys, Asks(c, op), Meets(c, op, k) PROVE Goal
  <2>1. PICK pc \in {"ok", "drop"} : call' = [call EXCEPT ![c] = Made(op, <<[key |-> k]>>, pc)]
    BY <1>7, MeetsMoves
  <2>2. QED BY <1>2, <2>1
<1>8. ASSUME NEW c \in Calls, NEW item, NEW r, IsPut(c, item, r) PROVE Goal
  BY <1>2, <1>8, PutMoves
<1>9. ASSUME NEW c \in Calls, NEW item, IsSelect(c, item) PROVE Goal
  <2>1. PICK n \in Nat :
          LET q == [op |-> "update", items |-> <<item>>, pc |-> "write",
                    read |-> rows[item.key], step |-> n] IN
          q \in Request /\ Form(q) /\ call' = [call EXCEPT ![c] = q]
    BY <1>9, SelectMoves
  <2>2. item \in Patches /\ UNCHANGED <<rows, over>>
    BY <1>9, SelectMoves
  <2>3. CASE c = d
    BY <1>a, <1>c, <2>1, <2>2, <2>3
  <2>4. CASE c # d
    BY <1>a, <1>b, <2>1, <2>4
  <2>5. QED BY <2>3, <2>4
<1>10. ASSUME NEW c \in Calls, NEW pc, (Drop(c) /\ pc = "ok") \/ GivesUp(c, pc) PROVE Goal
  <2>1. LET q == [call[c] EXCEPT !.pc = pc] IN
        q \in Request /\ call' = [call EXCEPT ![c] = q] /\ pc \in {"ok", "failed", "again"}
    BY <1>10, EndingMoves
  <2>2. [call[c] EXCEPT !.pc = pc].pc = pc
    BY <1>a DEF Request
  <2>3. QED BY <1>1, <2>1, <2>2
<1>11. CASE (\E k \in Keys : Expire(k)) \/ PurgeExpired \/ UNCHANGED vars
  BY <1>b, <1>11 DEF Expire, PurgeExpired, vars
<1> USE DEF Goal
<1>12. QED BY <1>3, <1>4, <1>5, <1>6, <1>7, <1>8, <1>9, <1>10, <1>11, StepsAre

(* What writes the rows writes them where it is said to.                   *)
LEMMA SetRows ==
  ASSUME Shape, NEW c \in Calls, NEW op, NEW items, IsSet(c, op, items)
  PROVE  \/ Goes(c, op, items, "failed") /\ UNCHANGED <<rows, over>>
         \/ /\ Goes(c, op, items, "ok") /\ Written({c}, KeysOf(items))
            /\ over' = Replaced(c, KeysOf(items))
<1>1. (\E item \in Items : items = <<item>>) \/ items \in Items \X Items
  BY DEF IsSet
<1>2. \/ Goes(c, op, items, "failed") /\ UNCHANGED <<rows, over>>
      \/ /\ Goes(c, op, items, "ok") /\ rows' \in Stored(c, items)
         /\ over' = Replaced(c, KeysOf(items))
  BY DEF IsSet, Set
<1>3. QED BY <1>1, <1>2, StoredWrites DEF Shape

LEMMA PutRows ==
  ASSUME Shape, NEW c \in Calls, NEW item, NEW r, IsPut(c, item, r)
  PROVE  LET v == {c} \cup (IF Alive(r) THEN r.val ELSE {}) IN
         \/ call' = [call EXCEPT ![c] = Made("update", <<item>>, "failed")] /\ UNCHANGED <<rows, over>>
         \/ /\ call' = [call EXCEPT ![c] = Made("update", <<item>>, "ok")]
            /\ Written(v, {item.key}) /\ over' = over \ {<<c, item.key>>}
<1>1. PICK pc \in {"ok", "failed"} :
        /\ call' = [call EXCEPT ![c] = Made("update", <<item>>, pc)]
        /\ IF pc = "failed" THEN UNCHANGED <<rows, over>>
           ELSE rows' \in Updated(c, r, item) /\ over' = over \ {<<c, item.key>>}
  BY PutMoves
<1>2. CASE pc = "failed"
  BY <1>1, <1>2
<1>3. CASE pc = "ok"
  BY <1>1, <1>3, PutMoves, UpdatedWrites DEF Shape
<1>4. QED BY <1>2, <1>3

(* Where the driver locks no gaps, no row goes that an update may want.    *)
LEMMA FoundStep ==
  ASSUME Keeping, Shape, RowsFound, [Next]_vars
  PROVE  RowsFound'
<1>a. table' = table /\ Shape'
  BY TableStays, ShapeStep
<1> SUFFICES ASSUME driver \in {"postgres", "mongodb"}, "update" \in table.operations
             PROVE  /\ \A k \in Keys : Alive(rows'[k])
                    /\ \A d \in Calls : call'[d].pc = "write" => Alive(call'[d].read)
  BY <1>a, SettingStays DEF RowsFound, Alive
<1>b. ~table.expires /\ table.operations \cap Erasing = {} /\ \A k \in Keys : Alive(rows[k])
  BY DEF Keeping, UpdatesFindRows, RowsFound, Shape, Typed, driver
<1>1. \A d \in Calls : call'[d].pc = "write" => Alive(call'[d].read)
  <2> SUFFICES ASSUME NEW d \in Calls, call'[d].pc = "write" PROVE Alive(call'[d].read)
    OBVIOUS
  <2>1. CASE call'[d] = call[d]
    BY <2>1 DEF RowsFound
  <2>2. CASE \E item \in Patches : call'[d].read = rows[item.key]
    BY <1>b, <2>2 DEF Patches
  <2>3. QED BY <2>1, <2>2, WritersAre
<1>2. ASSUME rows' = rows \/ \E v, keys : Written(v, keys) PROVE \A k \in Keys : Alive(rows'[k])
  <2>1. ASSUME NEW v, NEW k \in Keys, Fresh(k, v) PROVE Alive(rows'[k])
    BY <2>1, LivesAre DEF Fresh, Alive
  <2>2. QED BY <1>b, <1>2, <2>1 DEF Written
<1>3. \A k \in Keys : ~Expired(rows[k])
  BY <1>b DEF Alive, Expired
<1>4. CASE (\E k \in Keys : Expire(k)) \/ PurgeExpired \/ UNCHANGED vars
  <2>1. \A k \in Keys : ~Expire(k)
    BY <1>b DEF Shape, Ending, Expire
  <2>2. ~PurgeExpired
    BY <1>3 DEF PurgeExpired
  <2>3. QED BY <1>1, <1>2, <1>4, <2>1, <2>2 DEF vars
<1>5. ASSUME NEW c \in Calls, NEW op, NEW items, IsSet(c, op, items)
      PROVE  \A k \in Keys : Alive(rows'[k])
  BY <1>2, <1>5, SetRows
<1>6. \A c \in Calls : \A op, items : ~IsErase(c, op, items)
  BY <1>b DEF IsErase, Asks
<1>7. ASSUME NEW c \in Calls, BulkNext(c) PROVE \A k \in Keys : Alive(rows'[k])
  <2>1. call[c].op # "deleteRecords"
    BY <1>b, <1>7 DEF BulkNext, Shape, Formed, Form, Erasing
  <2>2. QED BY <1>2, <1>7, <2>1, BulkRows
<1>8. ASSUME NEW c \in Calls, NEW op \in Fetching, NEW k \in Keys, Asks(c, op), Meets(c, op, k)
      PROVE  \A m \in Keys : Alive(rows'[m])
  BY <1>2, <1>3, <1>8, MeetsRows
<1>9. \A c \in Calls : ~Drop(c)
  BY <1>b DEF Drop, Shape, Formed, Form
<1>10. ASSUME NEW c \in Calls, NEW item, NEW r, IsPut(c, item, r) PROVE \A k \in Keys : Alive(rows'[k])
  BY <1>2, <1>10, PutRows
<1>11. ASSUME NEW c \in Calls, NEW item, NEW pc, BulkWrite(c) \/ IsSelect(c, item) \/ GivesUp(c, pc)
       PROVE  \A k \in Keys : Alive(rows'[k])
  BY <1>2, <1>11 DEF BulkWrite, IsSelect, Select, GivesUp
<1>12. \A m \in Keys : Alive(rows'[m])
  BY <1>4, <1>5, <1>6, <1>7, <1>8, <1>9, <1>10, <1>11, StepsAre
<1>13. QED BY <1>1, <1>12

(* A key that an update waits to write under is not written by others.     *)
LEMMA LocksHold ==
  ASSUME Keeping, Shape, RowsFound, [Next]_vars, NEW d \in Calls, call[d].pc = "write",
         call'[d] = call[d], driver # "mongodb", NEW k \in KeysOf(call[d].items)
  PROVE  k \in Keys /\ (rows'[k] = rows[k] \/ ~Alive(rows'[k]))
<1> DEFINE Goal == rows'[k] = rows[k] \/ ~Alive(rows'[k])
<1>a. /\ Typed /\ KeysNameRows(table) /\ call[d].op = "update" /\ driver \in {"postgres", "mysql"}
      /\ "update" \in table.operations /\ \E item \in Patches : call[d].items = <<item>>
  BY TableIs DEF Keeping, Shape, Formed, Form, Typed, driver
<1>b. k \in Keys
  BY <1>a, KeysOfOne DEF Patches
<1>c. Holds(d, k) \/ HoldsGap(d, k)
  <2>1. driver = "postgres" => call[d].read # NoRow
    BY <1>a DEF RowsFound, Alive
  <2>2. QED BY <1>a, <2>1 DEF Holds, HoldsGap
<1>1. ASSUME NEW c \in Calls, c # d, NEW keys, Free(c, keys) PROVE k \notin keys
  BY <1>c, <1>1 DEF Free, Unlocked
<1>2. ASSUME rows' = rows PROVE Goal
  BY <1>2
<1>3. ASSUME NEW keys, rows' = Without(keys) PROVE Goal
  BY <1>a, <1>b, <1>3, WithoutIs DEF Alive
<1>4. ASSUME NEW v, NEW keys, Written(v, keys), k \notin keys PROVE Goal
  BY <1>a, <1>b, <1>4 DEF Written
<1>5. ASSUME NEW m \in Keys, Expire(m) PROVE Goal
  BY <1>a, <1>b, <1>5, ExpireIs DEF Alive
<1>6. CASE PurgeExpired
  BY <1>b, <1>3, <1>6 DEF PurgeExpired
<1>7. ASSUME NEW c \in Calls, NEW op, NEW items, IsSet(c, op, items) PROVE Goal
  <2>1. c # d
    BY <1>7, SetMoves
  <2>2. k \notin KeysOf(items)
    BY <1>1, <1>7, <2>1 DEF IsSet, Set
  <2>3. QED BY <1>2, <1>4, <1>7, <2>2, SetRows
<1>8. ASSUME NEW c \in Calls, NEW op, NEW items, IsErase(c, op, items) PROVE Goal
  BY <1>3, <1>8 DEF IsErase, Erase
<1>9. \A c \in Calls : ~BulkNext(c) /\ ~BulkWrite(c)
  BY DEF BulkNext, BulkWrite, Shape, Formed, Form
<1>10. ASSUME NEW c \in Calls, NEW op \in Fetching, NEW m \in Keys, Asks(c, op), Meets(c, op, m) PROVE Goal
  BY <1>2, <1>3, <1>10, MeetsRows
<1>11. ASSUME NEW c \in Calls, Drop(c) PROVE Goal
  BY <1>3, <1>11 DEF Drop
<1>12. ASSUME NEW c \in Calls, NEW item, NEW r, IsPut(c, item, r) PROVE Goal
  <2>1. PICK pc \in {"ok", "failed"} : call' = [call EXCEPT ![c] = Made("update", <<item>>, pc)]
    BY <1>12, PutMoves
  <2>2. c # d
    BY <1>a, <2>1 DEF Made, Typed
  <2>3. item \in Patches /\ Free(c, {item.key} \cup Holders(rows, Patched(c, r, item).item))
    BY <1>12 DEF IsPut, Put
  <2>4. k \notin {item.key}
    BY <1>1, <2>2, <2>3
  <2>5. QED BY <1>2, <1>4, <1>12, <2>4, PutRows
<1>13. ASSUME NEW c \in Calls, NEW item, NEW pc, IsSelect(c, item) \/ GivesUp(c, pc) PROVE Goal
  BY <1>2, <1>13 DEF IsSelect, Select, GivesUp
<1>14. CASE UNCHANGED vars
  BY <1>b, <1>2, <1>14 DEF vars
<1>15. Goal
  BY <1>5, <1>6, <1>7, <1>8, <1>9, <1>10, <1>11, <1>12, <1>13, <1>14, StepsAre
<1>16. QED BY <1>b, <1>15

LEMMA ReadsCurrentStep ==
  ASSUME Keeping, Shape, RowsFound, ReadsCurrent, [Next]_vars, table' = table
  PROVE  ReadsCurrent'
<1> SUFFICES ASSUME NEW d \in Calls, call'[d].pc = "write", driver # "mongodb",
                    NEW k \in KeysOf(call'[d].items), Alive(rows'[k])
             PROVE  Alive(call'[d].read) /\ rows'[k].val \subseteq call'[d].read.val
  BY SettingStays DEF ReadsCurrent, KeysOf, Alive
<1>1. CASE call'[d] = call[d]
  <2>1. rows'[k] = rows[k]
    BY <1>1, LocksHold
  <2>2. QED BY <1>1, <2>1 DEF ReadsCurrent
<1>2. ASSUME rows' = rows, NEW item \in Patches, call'[d].items = <<item>>, call'[d].read = rows[item.key]
      PROVE  Alive(call'[d].read) /\ rows'[k].val \subseteq call'[d].read.val
  BY <1>2, KeysOfOne
<1>3. QED BY <1>1, <1>2, WritersAre

LEMMA RowWritten ==
  ASSUME NEW k, NEW v, Fresh(k, v)
  PROVE  Alive(rows'[k]) /\ rows'[k].val = v
BY LivesAre DEF Fresh, Alive

(* An update keeps what there is.                                          *)
LEMMA PutKnows ==
  ASSUME Shape, ReadsCurrent, RowsFound, NEW c \in Calls, NEW item, NEW r, IsPut(c, item, r),
         Alive(rows[item.key])
  PROVE  Alive(r) /\ rows[item.key].val \subseteq r.val
<1>1. CASE driver = "sqlite"
  BY <1>1 DEF IsPut
<1>2. CASE driver # "sqlite"
  <2>1. /\ call[c].pc = "write" /\ call[c].items = <<item>> /\ r = call[c].read
        /\ driver = "mongodb" /\ Alive(r) => rows[item.key] # NoRow /\ rows[item.key].val = r.val
    BY <1>2 DEF IsPut
  <2>2. CASE driver = "mongodb"
    <3>1. "update" \in table.operations
      BY <2>1 DEF Shape, Formed, Form
    <3>2. Alive(r)
      BY <2>1, <2>2, <3>1 DEF RowsFound
    <3>3. QED BY <2>1, <2>2, <3>2
  <2>3. CASE driver # "mongodb"
    BY <2>1, <2>3, KeysOfOne DEF ReadsCurrent
  <2>4. QED BY <2>2, <2>3
<1>3. QED BY <1>1, <1>2

LEMMA ClaimsStep ==
  ASSUME Keeping, KeepInv, [Next]_vars
  PROVE  ClaimsKept'
<1> SUFFICES ASSUME NEW c \in Calls, NEW k \in Keys, Claims(c, k)', <<c, k>> \notin over'
             PROVE  Alive(rows'[k]) /\ c \in rows'[k].val
  BY DEF ClaimsKept, Alive
<1> DEFINE Goal == Alive(rows'[k]) /\ c \in rows'[k].val
<1>a. Shape /\ Typed /\ KeysNameRows(table)
  BY DEF KeepInv, Shape, Typed, Keeping
<1>b. /\ call'[c].pc \in {"ok", "bulk"} /\ call'[c].op \in Writing
      /\ call'[c].pc = "ok" => k \in KeysOf(call'[c].items)
      /\ call'[c].pc = "bulk" => call'[c].step = 1 /\ k = call'[c].items[1].key
  BY DEF Claims, Writing
<1>c. ASSUME call'[c] = call[c], <<c, k>> \notin over PROVE Alive(rows[k]) /\ c \in rows[k].val
  BY <1>c DEF KeepInv, ClaimsKept, Claims
<1>d. ASSUME call'[c] = call[c], <<c, k>> \notin over, rows'[k] = rows[k] PROVE Goal
  BY <1>c, <1>d
<1>e. ASSUME NEW v, Fresh(k, v), c \in v PROVE Goal
  BY <1>e, RowWritten
<1>f. ASSUME NEW e \in Calls, NEW q, call' = [call EXCEPT ![e] = q]
      PROVE  call'[e] = q /\ (c # e => call'[c] = call[c])
  BY <1>a, <1>f DEF Typed
<1>g. ASSUME NEW e \in Calls, NEW q, call' = [call EXCEPT ![e] = q],
             q.pc \notin {"ok", "bulk"} \/ q.op \notin Writing
      PROVE  call'[c] = call[c]
  BY <1>b, <1>f, <1>g
<1>h. ASSUME NEW e \in Calls, c # e, NEW keys, over' = Replaced(e, keys)
      PROVE  <<c, k>> \notin over /\ k \notin keys
  BY <1>h DEF Replaced
<1>i. ASSUME NEW keys, rows' = Without(keys), k \notin keys PROVE rows'[k] = rows[k]
  BY <1>a, <1>i, WithoutIs
<1>j. ASSUME NEW v, NEW keys, Written(v, keys) PROVE IF k \in keys THEN Fresh(k, v) ELSE rows'[k] = rows[k]
  BY <1>a, <1>j DEF Written
<1>m. ASSUME NEW e \in Calls, NEW op, NEW items, NEW pc, Goes(e, op, items, pc)
      PROVE  call'[e].op = op /\ call'[e].items = items /\ call'[e].pc = pc /\ call'[e].step = 0
  BY <1>a, <1>m DEF Goes, Made, Typed
<1> HIDE DEF Goal
<1>1. ASSUME NEW e \in Calls, NEW op, NEW items, IsSet(e, op, items) PROVE Goal
  <2>1. CASE Goes(e, op, items, "failed") /\ UNCHANGED <<rows, over>>
    <3>1. Made(op, items, "failed").pc \notin {"ok", "bulk"}
      BY DEF Made
    <3>2. call'[c] = call[c]
      BY <1>g, <2>1, <3>1 DEF Goes
    <3>3. QED BY <1>d, <2>1, <3>2
  <2>2. CASE /\ Goes(e, op, items, "ok") /\ Written({e}, KeysOf(items))
             /\ over' = Replaced(e, KeysOf(items))
    <3>1. CASE c = e
      <4>1. call'[c] = Made(op, items, "ok")
        BY <1>f, <2>2, <3>1 DEF Goes
      <4>2. k \in KeysOf(items)
        BY <1>b, <4>1 DEF Made
      <4>3. Fresh(k, {e})
        BY <1>j, <2>2, <4>2
      <4>4. QED BY <1>e, <3>1, <4>3
    <3>2. CASE c # e
      <4>1. call'[c] = call[c]
        BY <1>f, <2>2, <3>2 DEF Goes
      <4>2. <<c, k>> \notin over /\ k \notin KeysOf(items)
        BY <1>h, <2>2, <3>2
      <4>3. rows'[k] = rows[k]
        BY <1>j, <2>2, <4>2
      <4>4. QED BY <1>d, <4>1, <4>2, <4>3
    <3>3. QED BY <3>1, <3>2
  <2>3. QED BY <1>1, <1>a, <2>1, <2>2, SetRows
<1>2. ASSUME NEW e \in Calls, NEW op, NEW items, IsErase(e, op, items) PROVE Goal
  <2>1. /\ Goes(e, op, items, "ok") /\ over' = Replaced(e, KeysOf(items))
        /\ rows' = Without(KeysOf(items)) /\ op \notin Writing
    BY <1>2 DEF IsErase, Erase, Writing, Erasing
  <2>2. c # e
    BY <1>b, <1>m, <2>1
  <2>3. call'[c] = call[c]
    BY <1>f, <2>1, <2>2 DEF Goes
  <2>4. <<c, k>> \notin over /\ k \notin KeysOf(items)
    BY <1>h, <2>1, <2>2
  <2>5. QED BY <1>d, <1>i, <2>1, <2>3, <2>4
<1>3. ASSUME NEW e \in Calls, BulkWrite(e) PROVE Goal
  <2>1. PICK op, items : Goes(e, op, items, "bulk")
    BY <1>3 DEF BulkWrite
  <2>2. c # e
    BY <1>b, <1>m, <2>1
  <2>3. call'[c] = call[c]
    BY <1>f, <2>1, <2>2 DEF Goes
  <2>4. QED BY <1>3, <1>d, <2>3 DEF BulkWrite
<1>4. ASSUME NEW e \in Calls, BulkNext(e) PROVE Goal
  <2> DEFINE n   == call[e].step + 1
             key == call[e].items[n].key
  <2>1. /\ call[e].pc = "bulk" /\ call'[e].op = call[e].op /\ call'[e].items = call[e].items
        /\ \A d \in Calls : d # e => call'[d] = call[d]
        /\ \/ call'[e].pc = "failed" /\ UNCHANGED <<rows, over>>
           \/ /\ call'[e].pc = IF n = Len(call[e].items) THEN "ok" ELSE "bulk"
              /\ call'[e].step = n /\ over' = Replaced(e, {key})
              /\ \/ call[e].op = "setRecords" /\ n \in {1, 2} /\ key \in Keys /\ Written({e}, {key})
                 \/ call[e].op = "deleteRecords" /\ rows' = Without({key})
    BY <1>4, <1>a, BulkRows
  <2> HIDE DEF n, key
  <2>2. CASE call'[e].pc = "failed" /\ UNCHANGED <<rows, over>>
    <3>1. c # e
      BY <1>b, <2>2
    <3>2. QED BY <1>d, <2>1, <2>2, <3>1
  <2>3. CASE /\ c # e /\ over' = Replaced(e, {key})
             /\ rows' = Without({key}) \/ Written({e}, {key})
    <3>1. <<c, k>> \notin over /\ k \notin {key} /\ call'[c] = call[c]
      BY <1>h, <2>1, <2>3
    <3>2. rows'[k] = rows[k]
      BY <1>i, <1>j, <2>3, <3>1
    <3>3. QED BY <1>d, <3>1, <3>2
  <2>4. CASE /\ c = e /\ call'[e].pc = IF n = Len(call[e].items) THEN "ok" ELSE "bulk"
             /\ call'[e].step = n /\ over' = Replaced(e, {key}) /\ n \in {1, 2}
             /\ call[e].op = "setRecords" /\ Written({e}, {key})
    <3>1. call[e].items \in Items \X Items
      BY <1>a, <2>4 DEF Shape, Formed, Form
    <3>2. k \in {call[e].items[1].key, call[e].items[2].key} /\ Len(call[e].items) = 2
      BY <1>b, <2>1, <2>4, <3>1, KeysOfTwo
    <3>3. CASE k = key
      <4>1. Fresh(k, {e})
        BY <1>j, <2>4, <3>3
      <4>2. QED BY <1>e, <2>4, <4>1
    <3>4. CASE k # key
      <4>1. n = 2 /\ k = call[e].items[1].key
        BY <1>b, <2>1, <2>4, <3>2, <3>4 DEF key
      <4>2. call[e].step = 1
        BY <1>a, <4>1 DEF n, Shape, Typed, Request
      <4>3. <<c, k>> \notin over
        BY <2>4, <3>4 DEF Replaced
      <4>4. Alive(rows[k]) /\ c \in rows[k].val
        BY <2>1, <2>4, <4>1, <4>2, <4>3 DEF KeepInv, ClaimsKept, Claims
      <4>5. rows'[k] = rows[k]
        BY <1>j, <2>4, <3>4
      <4>6. QED BY <4>4, <4>5 DEF Goal
    <3>5. QED BY <3>3, <3>4
  <2>5. c = e => call[e].op # "deleteRecords"
    BY <1>b, <2>1 DEF Writing
  <2>6. QED BY <2>1, <2>2, <2>3, <2>4, <2>5
<1>5. ASSUME NEW e \in Calls, NEW op \in Fetching, NEW m \in Keys, Asks(e, op), Meets(e, op, m) PROVE Goal
  <2>1. PICK pc : Goes(e, op, <<[key |-> m]>>, pc)
    BY <1>5 DEF Meets
  <2>2. c # e
    BY <1>b, <1>m, <2>1 DEF Fetching, Writing
  <2>3. call'[c] = call[c] /\ <<c, k>> \notin over
    BY <1>5, <1>f, <2>1, <2>2 DEF Goes, Meets
  <2>4. ~Expired(rows[k])
    BY <1>c, <2>3 DEF Alive, Expired
  <2>5. rows'[k] = rows[k]
    BY <1>5, <1>i, <2>4, MeetsRows
  <2>6. QED BY <1>d, <2>3, <2>5
<1>6. ASSUME NEW e \in Calls, Drop(e) PROVE Goal
  <2>1. /\ call[e].op \in Fetching /\ call[e].op \in table.operations /\ table.expires
        /\ driver # "mysql" /\ ~(driver = "sqlite" /\ ~table.shared)
    BY <1>6, <1>a DEF Drop, Shape, Formed, Form, Fetching
  <2>2. table.operations \cap Writing = {}
    BY <1>a, <2>1 DEF Keeping, ReadsDropNothing, Typed, driver
  <2>3. call'[c].op = call[c].op
    BY <1>6, <1>a DEF Drop, Ends, Typed, Request
  <2>4. call[c].op \in table.operations
    BY <1>a, <1>b, <2>3 DEF Shape, Formed, Form, Writing
  <2>5. QED BY <1>b, <2>2, <2>3, <2>4
<1>7. ASSUME NEW e \in Calls, NEW item, NEW r, IsPut(e, item, r) PROVE Goal
  <2> DEFINE v == {e} \cup (IF Alive(r) THEN r.val ELSE {})
  <2>1. CASE /\ call' = [call EXCEPT ![e] = Made("update", <<item>>, "failed")] /\ UNCHANGED <<rows, over>>
    <3>1. Goes(e, "update", <<item>>, "failed")
      BY <2>1 DEF Goes
    <3>2. c # e
      BY <1>b, <1>m, <3>1
    <3>3. call'[c] = call[c]
      BY <1>f, <2>1, <3>2
    <3>4. QED BY <1>d, <2>1, <3>3
  <2>2. CASE /\ call' = [call EXCEPT ![e] = Made("update", <<item>>, "ok")]
             /\ Written(v, {item.key}) /\ over' = over \ {<<e, item.key>>}
    <3>1. CASE c = e
      <4>1. k = item.key
        <5>1. Goes(e, "update", <<item>>, "ok")
          BY <2>2 DEF Goes
        <5>2. k \in KeysOf(<<item>>)
          BY <1>b, <1>m, <3>1, <5>1
        <5>3. QED BY <5>2, KeysOfOne
      <4>2. Fresh(k, v)
        BY <1>j, <2>2, <4>1
      <4>3. QED BY <1>e, <3>1, <4>2
    <3>2. CASE c # e
      <4>1. call'[c] = call[c] /\ <<c, k>> \notin over
        BY <1>f, <2>2, <3>2
      <4>2. CASE k # item.key
        BY <1>d, <1>j, <2>2, <4>1, <4>2
      <4>3. CASE k = item.key
        <5>1. Alive(r) /\ rows[k].val \subseteq r.val
          BY <1>7, <1>c, <4>1, <4>3, PutKnows DEF KeepInv
        <5>2. Fresh(k, v)
          BY <1>j, <2>2, <4>3
        <5>3. c \in v
          BY <1>c, <4>1, <5>1
        <5>4. QED BY <1>e, <5>2, <5>3
      <4>4. QED BY <4>2, <4>3
    <3>3. QED BY <3>1, <3>2
  <2>3. QED BY <1>7, <1>a, <2>1, <2>2, PutRows
<1>8. ASSUME NEW e \in Calls, NEW item, IsSelect(e, item) PROVE Goal
  <2>1. PICK n : call' = [call EXCEPT ![e] = [op |-> "update", items |-> <<item>>, pc |-> "write",
                                              read |-> rows[item.key], step |-> n]]
    BY <1>8, <1>a, SelectMoves
  <2>2. c # e
    <3>1. call'[e] = [op |-> "update", items |-> <<item>>, pc |-> "write",
                      read |-> rows[item.key], step |-> n]
      BY <1>f, <2>1
    <3>2. QED BY <1>b, <3>1
  <2>3. call'[c] = call[c]
    BY <1>f, <2>1, <2>2
  <2>4. QED BY <1>8, <1>d, <2>3 DEF IsSelect, Select
<1>9. ASSUME NEW e \in Calls, NEW pc, GivesUp(e, pc) PROVE Goal
  <2>1. call'[e].pc = pc /\ pc \in {"failed", "again"} /\ (c # e => call'[c] = call[c])
    BY <1>9, <1>a DEF GivesUp, Ends, Typed, Request
  <2>2. c # e
    BY <1>b, <2>1
  <2>3. QED BY <1>9, <1>d, <2>1, <2>2 DEF GivesUp
<1>10. ASSUME NEW m \in Keys, Expire(m) PROVE Goal
  <2>1. <<c, k>> \notin over /\ k # m /\ call'[c] = call[c] /\ rows'[k] = rows[k]
    BY <1>10, <1>a, ExpireIs
  <2>2. QED BY <1>d, <2>1
<1>11. CASE PurgeExpired
  <2>1. call' = call /\ over' = over
    BY <1>11 DEF PurgeExpired
  <2>2. ~Expired(rows[k])
    BY <1>c, <2>1 DEF Alive, Expired
  <2>3. rows'[k] = rows[k]
    BY <1>11, <1>i, <2>2 DEF PurgeExpired
  <2>4. Goal
    BY <1>d, <2>1, <2>3
  <2>5. QED BY <2>4 DEF Goal
<1>12. CASE UNCHANGED vars
  <2>1. Goal
    BY <1>12, <1>d DEF vars
  <2>2. QED BY <2>1 DEF Goal
<1> USE DEF Goal
<1>13. QED BY <1>a, <1>1, <1>2, <1>3, <1>4, <1>5, <1>6, <1>7, <1>8, <1>9, <1>10, <1>11, <1>12, StepsAre

(* What calls have read is what was there.                                 *)
LEMMA ReadsAre ==
  ASSUME Shape, [Next]_vars, NEW d \in Calls
  PROVE  call'[d].read \in {call[d].read, NoRow} \cup {rows[k] : k \in Keys}
<1> DEFINE Goal == call'[d].read \in {call[d].read, NoRow} \cup {rows[k] : k \in Keys}
<1>a. call \in [Calls -> Request]
  BY DEF Shape, Typed
<1>1. ASSUME NEW c \in Calls, NEW q, call' = [call EXCEPT ![c] = q],
             q.read \in {call[c].read, NoRow} \cup {rows[k] : k \in Keys}
      PROVE  Goal
  BY <1>a, <1>1
<1>2. ASSUME NEW c \in Calls, NEW op, NEW items, NEW pc,
             call' = [call EXCEPT ![c] = Made(op, items, pc)]
      PROVE  Goal
  <2>1. Made(op, items, pc).read = NoRow
    BY DEF Made
  <2>2. QED BY <1>1, <1>2, <2>1
<1>3. ASSUME NEW c \in Calls, NEW op, NEW items, IsSet(c, op, items) PROVE Goal
  <2>1. PICK pc : Goes(c, op, items, pc)
    BY <1>3 DEF IsSet, Set
  <2>2. QED BY <1>2, <2>1 DEF Goes
<1>4. ASSUME NEW c \in Calls, NEW op, NEW items, IsErase(c, op, items) PROVE Goal
  BY <1>2, <1>4 DEF IsErase, Erase, Goes
<1>5. ASSUME NEW c \in Calls, BulkWrite(c) PROVE Goal
  <2>1. PICK op, items : Goes(c, op, items, "bulk")
    BY <1>5 DEF BulkWrite
  <2>2. QED BY <1>2, <2>1 DEF Goes
<1>6. ASSUME NEW c \in Calls, BulkNext(c) PROVE Goal
  <2>1. PICK pc \in {"ok", "failed", "bulk"}, n \in Nat :
          call' = [call EXCEPT ![c] = [call[c] EXCEPT !.pc = pc, !.step = n]]
    BY <1>6, BulkNextMoves
  <2>2. [call[c] EXCEPT !.pc = pc, !.step = n].read = call[c].read
    BY <1>a DEF Request
  <2>3. QED BY <1>1, <2>1, <2>2
<1>7. ASSUME NEW c \in Calls, NEW op \in Fetching, NEW k \in Keys, Asks(c, op), Meets(c, op, k) PROVE Goal
  <2>1. PICK pc : Goes(c, op, <<[key |-> k]>>, pc)
    BY <1>7 DEF Meets
  <2>2. QED BY <1>2, <2>1 DEF Goes
<1>8. ASSUME NEW c \in Calls, NEW item, NEW r, IsPut(c, item, r) PROVE Goal
  <2>1. PICK pc : Goes(c, "update", <<item>>, pc)
    BY <1>8 DEF IsPut, Put
  <2>2. QED BY <1>2, <2>1 DEF Goes
<1>9. ASSUME NEW c \in Calls, NEW item, IsSelect(c, item) PROVE Goal
  <2>1. PICK n : call' = [call EXCEPT ![c] = [op |-> "update", items |-> <<item>>, pc |-> "write",
                                              read |-> rows[item.key], step |-> n]]
    BY <1>9, SelectMoves
  <2>2. item.key \in Keys
    BY <1>9 DEF IsSelect, Patches
  <2>3. QED BY <1>1, <2>1, <2>2
<1>10. ASSUME NEW c \in Calls, NEW pc, (Drop(c) /\ pc = "ok") \/ GivesUp(c, pc) PROVE Goal
  <2>1. call' = [call EXCEPT ![c] = [call[c] EXCEPT !.pc = pc]]
    BY <1>10, EndingMoves
  <2>2. [call[c] EXCEPT !.pc = pc].read = call[c].read
    BY <1>a DEF Request
  <2>3. QED BY <1>1, <2>1, <2>2
<1>11. CASE (\E k \in Keys : Expire(k)) \/ PurgeExpired \/ UNCHANGED vars
  BY <1>11 DEF Expire, PurgeExpired, vars
<1>12. QED BY <1>3, <1>4, <1>5, <1>6, <1>7, <1>8, <1>9, <1>10, <1>11, StepsAre

(* Where no record of a bulk is refused, whoever has written is answered,  *)
(* or about to be.                                                         *)
LEMMA WritersAnswered ==
  ASSUME Whole, Shape, [Next]_vars, NEW c \in Calls, call[c].pc \in {"ok", "bulk"}
  PROVE  call'[c].pc \in {"ok", "bulk"}
<1> DEFINE Goal == call'[c].pc \in {"ok", "bulk"}
<1>a. call \in [Calls -> Request]
  BY DEF Shape, Typed
<1>1. ASSUME NEW e \in Calls, NEW q, call' = [call EXCEPT ![e] = q], call[e].pc \notin {"ok", "bulk"}
      PROVE  Goal
  BY <1>a, <1>1
<1>2. ASSUME NEW e \in Calls, BulkNext(e) PROVE Goal
  <2>1. CASE c # e
    <3>1. call'[c] = call[c]
      BY <1>2, <2>1, BulkRows
    <3>2. QED BY <3>1
  <2>2. CASE c = e
    <3>1. ASSUME call[e].op = "setRecords" PROVE Upsert(rows, call[e].items[call[e].step + 1], {e}) # {}
      <4>1. ~table.unique
        BY <1>2, <3>1 DEF Whole, BulkNext, Shape, Typed, Formed, Form, driver
      <4>2. QED BY <4>1 DEF Upsert, Accepts, Holders
    <3>2. call'[e].pc = "failed" => call[e].op = "setRecords"
      BY <1>2, <1>a DEF BulkNext, Request
    <3>3. QED BY <1>2, <2>2, <3>1, <3>2, BulkRows
  <2>3. QED BY <2>1, <2>2
<1>3. ASSUME NEW e \in Calls, NEW op, NEW items, IsSet(e, op, items) PROVE Goal
  <2>1. PICK pc : Goes(e, op, items, pc)
    BY <1>3 DEF IsSet, Set
  <2>2. QED BY <1>1, <1>3, <2>1, SetMoves DEF Goes
<1>4. ASSUME NEW e \in Calls, NEW op, NEW items, IsErase(e, op, items) PROVE Goal
  BY <1>1, <1>4, EraseMoves
<1>5. ASSUME NEW e \in Calls, BulkWrite(e) PROVE Goal
  <2>1. PICK op, items : Goes(e, op, items, "bulk")
    BY <1>5 DEF BulkWrite
  <2>2. QED BY <1>1, <1>5, <2>1, BulkMoves DEF Goes
<1>6. ASSUME NEW e \in Calls, NEW op \in Fetching, NEW k \in Keys, Asks(e, op), Meets(e, op, k) PROVE Goal
  <2>1. PICK pc : Goes(e, op, <<[key |-> k]>>, pc)
    BY <1>6 DEF Meets
  <2>2. QED BY <1>1, <1>6, <2>1, MeetsMoves DEF Goes
<1>7. ASSUME NEW e \in Calls, NEW item, NEW r, IsPut(e, item, r) PROVE Goal
  <2>1. PICK pc : Goes(e, "update", <<item>>, pc)
    BY <1>7 DEF IsPut, Put
  <2>2. QED BY <1>1, <1>7, <2>1, PutMoves DEF Goes
<1>8. ASSUME NEW e \in Calls, NEW item, IsSelect(e, item) PROVE Goal
  <2>1. PICK q : call' = [call EXCEPT ![e] = q]
    BY <1>8 DEF IsSelect, Select
  <2>2. QED BY <1>1, <1>8, <2>1, SelectMoves
<1>9. ASSUME NEW e \in Calls, NEW pc, (Drop(e) /\ pc = "ok") \/ GivesUp(e, pc) PROVE Goal
  BY <1>1, <1>9, EndingMoves
<1>10. CASE (\E k \in Keys : Expire(k)) \/ PurgeExpired \/ UNCHANGED vars
  BY <1>10 DEF Expire, PurgeExpired, vars
<1>11. QED BY <1>2, <1>3, <1>4, <1>5, <1>6, <1>7, <1>8, <1>9, <1>10, StepsAre

(* Who writes is answered, and writes its own name and what it has read.   *)
LEMMA NamesAre ==
  ASSUME Shape, [Next]_vars, NEW k \in Keys, rows'[k] # NoRow
  PROVE  \/ rows[k] # NoRow /\ rows'[k].val = rows[k].val
         \/ \E e \in Calls :
              /\ call'[e].pc \in {"ok", "bulk"}
              /\ \/ rows'[k].val = {e}
                 \/ \E r \in {call[e].read} \cup {rows[m] : m \in Keys} :
                      r # NoRow /\ rows'[k].val = {e} \cup r.val
<1> DEFINE Goal == \/ rows[k] # NoRow /\ rows'[k].val = rows[k].val
                   \/ \E e \in Calls :
                        /\ call'[e].pc \in {"ok", "bulk"}
                        /\ \/ rows'[k].val = {e}
                           \/ \E r \in {call[e].read} \cup {rows[m] : m \in Keys} :
                                r # NoRow /\ rows'[k].val = {e} \cup r.val
<1>a. Typed
  BY DEF Shape
<1>1. ASSUME rows' = rows PROVE Goal
  BY <1>1
<1>2. ASSUME NEW keys, rows' = Without(keys) PROVE Goal
  BY <1>a, <1>2, WithoutIs
<1>3. ASSUME NEW e \in Calls, NEW keys, Written({e}, keys), call'[e].pc \in {"ok", "bulk"} PROVE Goal
  BY <1>3 DEF Written, Fresh
<1>4. ASSUME NEW e \in Calls, NEW op, NEW items, NEW pc, Goes(e, op, items, pc) PROVE call'[e].pc = pc
  BY <1>4, <1>a DEF Goes, Made, Typed
<1>5. ASSUME NEW e \in Calls, NEW op, NEW items, IsSet(e, op, items) PROVE Goal
  BY <1>1, <1>3, <1>4, <1>5, SetRows
<1>6. ASSUME NEW e \in Calls, NEW op, NEW items, IsErase(e, op, items) PROVE Goal
  BY <1>2, <1>6 DEF IsErase, Erase
<1>7. ASSUME NEW e \in Calls, BulkNext(e) PROVE Goal
  BY <1>1, <1>2, <1>3, <1>7, BulkRows
<1>8. ASSUME NEW e \in Calls, NEW op, NEW m \in Keys, Meets(e, op, m) PROVE Goal
  BY <1>1, <1>2, <1>8, MeetsRows
<1>9. ASSUME NEW e \in Calls, Drop(e) PROVE Goal
  BY <1>2, <1>9 DEF Drop
<1>10. ASSUME NEW e \in Calls, NEW item, NEW r, IsPut(e, item, r) PROVE Goal
  <2>1. CASE UNCHANGED <<rows, over>>
    BY <1>1, <2>1
  <2>2. CASE /\ Goes(e, "update", <<item>>, "ok")
             /\ Written({e} \cup (IF Alive(r) THEN r.val ELSE {}), {item.key})
    <3>1. call'[e].pc = "ok"
      BY <1>4, <2>2
    <3>2. r \in {call[e].read} \cup {rows[m] : m \in Keys}
      BY <1>10 DEF IsPut, Patches
    <3>3. CASE rows'[k] = rows[k]
      BY <3>3
    <3>4. CASE rows'[k].val = {e} \cup (IF Alive(r) THEN r.val ELSE {})
      <4>1. CASE Alive(r)
        BY <3>1, <3>2, <3>4, <4>1 DEF Alive
      <4>2. CASE ~Alive(r)
        BY <3>1, <3>4, <4>2
      <4>3. QED BY <4>1, <4>2
    <3>5. QED BY <2>2, <3>3, <3>4 DEF Written, Fresh
  <2>3. QED BY <1>10, <2>1, <2>2, PutRows DEF Goes
<1>11. ASSUME NEW e \in Calls, NEW item, NEW pc, BulkWrite(e) \/ IsSelect(e, item) \/ GivesUp(e, pc) PROVE Goal
  BY <1>1, <1>11 DEF BulkWrite, IsSelect, Select, GivesUp
<1>12. ASSUME NEW m \in Keys, Expire(m) PROVE Goal
  BY <1>12, <1>a, ExpireIs
<1>13. CASE PurgeExpired
  BY <1>2, <1>13 DEF PurgeExpired
<1>14. CASE UNCHANGED vars
  BY <1>1, <1>14 DEF vars
<1>15. QED BY <1>5, <1>6, <1>7, <1>8, <1>9, <1>10, <1>11, <1>12, <1>13, <1>14, StepsAre

LEMMA UnwrittenStep ==
  ASSUME Whole, Shape, Unwritten, [Next]_vars
  PROVE  Unwritten'
<1> SUFFICES ASSUME NEW c \in Calls, call'[c].pc \notin {"ok", "bulk"}
             PROVE  /\ \A k \in Keys : rows'[k] # NoRow => c \notin rows'[k].val
                    /\ \A d \in Calls : call'[d].read # NoRow => c \notin call'[d].read.val
  BY DEF Unwritten
<1>1. call[c].pc \notin {"ok", "bulk"}
  BY WritersAnswered
<1>2. /\ \A k \in Keys : rows[k] # NoRow => c \notin rows[k].val
      /\ \A d \in Calls : call[d].read # NoRow => c \notin call[d].read.val
  BY <1>1 DEF Unwritten
<1>3. ASSUME NEW k \in Keys, rows'[k] # NoRow PROVE c \notin rows'[k].val
  BY <1>2, <1>3, NamesAre
<1>4. ASSUME NEW d \in Calls, call'[d].read # NoRow PROVE c \notin call'[d].read.val
  BY <1>2, <1>4, ReadsAre
<1>5. QED BY <1>3, <1>4

-----------------------------------------------------------------------------
LEMMA InitShape == Init => Shape
<1> SUFFICES ASSUME Init PROVE Shape
  OBVIOUS
<1>1. table \in Tables /\ \A c \in Calls : call[c] = Made("none", <<>>, "idle")
  BY DEF Init
<1>2. \A k \in Keys : rows[k] \in Rows \cup {NoRow} /\ (rows[k] # NoRow /\ ~table.expires => rows[k].life = "ever")
  BY DEF Init, Rows
<1>3. Made("none", <<>>, "idle") \in Request
  BY DEF Made, Request, Lists
<1>4. \A c \in Calls : Form(call[c])
  BY <1>1 DEF Made, Form
<1>5. Typed
  BY <1>1, <1>2, <1>3 DEF Init, Typed
<1>6. QED BY <1>2, <1>4, <1>5 DEF Shape, Formed, Ending

LEMMA InitKeeps == Keeping /\ Init => KeepInv
<1> SUFFICES ASSUME Keeping, Init PROVE KeepInv
  OBVIOUS
<1>1. \A c \in Calls : call[c].pc = "idle" /\ call[c].op = "none"
  BY DEF Init, Made
<1>2. ClaimsKept /\ ReadsCurrent
  BY <1>1 DEF ClaimsKept, Claims, ReadsCurrent
<1>3. RowsFound
  <2>1. driver \in {"postgres", "mongodb"} /\ "update" \in table.operations => table.seeded /\ table \in Tables
    BY DEF Keeping, UpdatesFindRows, Init, driver
  <2>2. table.seeded => \A k \in Keys : rows[k] \in Rows /\ rows[k].life # "over"
    BY DEF Init, Rows
  <2>3. QED BY <1>1, <2>1, <2>2 DEF RowsFound, Alive
<1>4. QED BY <1>2, <1>3, InitShape DEF KeepInv

LEMMA InitUnwritten == Init => Unwritten
BY DEF Init, Made, Unwritten

LEMMA KeepInvStep == Keeping /\ KeepInv /\ [Next]_vars => KeepInv'
<1> SUFFICES ASSUME Keeping, KeepInv, [Next]_vars PROVE KeepInv'
  OBVIOUS
<1>1. table' = table
  BY TableStays
<1>2. QED BY <1>1, ShapeStep, FoundStep, ReadsCurrentStep, ClaimsStep DEF KeepInv

LEMMA KeepInvGives == KeepInv => WritesKept
<1> SUFFICES ASSUME KeepInv, NEW c \in Calls, NEW k \in KeysOf(call[c].items),
                    call[c].pc = "ok", call[c].op \in Writing, <<c, k>> \notin over
             PROVE  Alive(rows[k]) /\ c \in rows[k].val
  BY DEF WritesKept, Writing
<1>1. k \in Keys
  <2>1. Form(call[c])
    BY DEF KeepInv, Shape, Formed
  <2>2. CASE call[c].op \in {"set", "update"}
    <3>1. PICK item \in Items \cup Patches : call[c].items = <<item>>
      BY <2>1, <2>2 DEF Form
    <3>2. QED BY <3>1, KeysOfOne DEF Items, Patches
  <2>3. CASE call[c].op = "setRecords"
    BY <2>1, <2>3, KeysOfTwo DEF Form, Items
  <2>4. QED BY <2>2, <2>3 DEF Writing
<1>2. QED BY <1>1 DEF KeepInv, ClaimsKept, Claims

(* A table keeps what setRecord(), setRecords() and updateRecord() have    *)
(* answered, until it is written over, deleted or expires, if keys name    *)
(* its rows, no read drops a row that came after it, and updates that lock *)
(* no gaps find their rows.                                                *)
THEOREM UpdatesStay ==
  ASSUME Keeping
  PROVE  Spec => []WritesKept
<1>1. Init => KeepInv
  BY InitKeeps
<1>2. KeepInv /\ [Next]_vars => KeepInv'
  BY KeepInvStep
<1>3. KeepInv => WritesKept
  BY KeepInvGives
<1>4. QED BY <1>1, <1>2, <1>3, PTL DEF Spec

(* A call that was refused has left nothing in the table, nor in what      *)
(* others have read, if bulkWrite() of mongodb has no reason to refuse.    *)
THEOREM NothingRefusedStays ==
  ASSUME Whole
  PROVE  Spec => []RefusedLeavesNothing
<1>1. Init => Shape /\ Unwritten
  BY InitShape, InitUnwritten
<1>2. (Shape /\ Unwritten) /\ [Next]_vars => (Shape /\ Unwritten)'
  BY ShapeStep, UnwrittenStep
<1>3. Shape /\ Unwritten => RefusedLeavesNothing
  BY DEF Unwritten, RefusedLeavesNothing
<1>4. QED BY <1>1, <1>2, <1>3, PTL DEF Spec

=============================================================================
