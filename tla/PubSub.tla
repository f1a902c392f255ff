------------------------------- MODULE PubSub -------------------------------
(***************************************************************************)
(* PubSubManager (src/pubsub/pubsub.ts): a message is handed to the        *)
(* handlers of its own process at once and stored in a table; the other    *)
(* processes poll the table for messages with a timestamp beyond the last  *)
(* one they have processed.  A poll is not awaited by the next, storing    *)
(* takes time, and timestamps are taken before it.                         *)
(*                                                                         *)
(* A message is published once.  The clocks of the processes agree.  How   *)
(* often a handler is called is counted; the handlers themselves, and      *)
(* keys that are watched (which are channels), are left out.               *)
(***************************************************************************)
EXTENDS Naturals, FiniteSets

CONSTANTS
  Processes,        (* each with a PubSubManager                           *)
  Messages,
  Handlers,
  Sender,           (* the process of a message                            *)
  Home,             (* the process of a handler                            *)
  Channel,          (* the channel of a message or handler                 *)
  Limit,            (* records a poll asks for (100)                       *)
  Retention,        (* MESSAGE_TTL_MS, in ticks                            *)
  MaxTime,          (* bound on the clock                                  *)
  MaxPolls,         (* bound on the polls of a process under way           *)
  MaxListens,       (* bound on how often a handler is subscribed          *)
  MaxFaults         (* bound on the calls of the storage that fail         *)

PubSubAssumption ==
  /\ Sender \in [Messages -> Processes] /\ Home \in [Handlers -> Processes]
  /\ {Limit, Retention, MaxTime, MaxPolls, MaxListens, MaxFaults} \subseteq Nat

VARIABLES
  now,              (* Date.now()                                          *)
  stamp,            (* timestamp, 0 before a message is published          *)
  sending,          (* messages whose set() is under way                   *)
  rows,             (* the records of the event table                      *)
  last,             (* lastProcessedTimestamp                              *)
  subscribers,      (* channelSubscribers                                  *)
  listeners,        (* how often a handler listens to the local bus        *)
  polling,          (* whose pollTimer is armed                            *)
  polls,            (* what the polls under way have found                 *)
  closed,           (* isClosed                                            *)
  heard,            (* history: how often a handler was called             *)
  ahead,            (* history: the messages that had a later timestamp,   *)
                    (* when they were stored, than all stored before       *)
  faults            (* calls of the storage that have failed so far        *)

vars == <<now, stamp, sending, rows, last, subscribers, listeners, polling, polls,
          closed, heard, ahead, faults>>

TypeOK ==
  /\ now \in Nat /\ stamp \in [Messages -> Nat] /\ last \in [Processes -> Nat]
  /\ sending \subseteq Messages /\ rows \subseteq Messages /\ ahead \subseteq Messages
  /\ subscribers \subseteq Handlers
  /\ listeners \in [Handlers -> Nat]
  /\ polling \subseteq Processes /\ closed \subseteq Processes
  /\ polls \in [Processes -> SUBSET SUBSET Messages]
  /\ heard \in [Handlers -> [Messages -> Nat]]
  /\ faults \in Nat

(* The managers are made at time 1.                                        *)
Init ==
  /\ now = 1
  /\ stamp = [m \in Messages |-> 0]
  /\ sending = {} /\ rows = {}
  /\ last = [p \in Processes |-> 1]
  /\ subscribers = {} /\ listeners = [h \in Handlers |-> 0]
  /\ polling = {} /\ polls = [p \in Processes |-> {}]
  /\ closed = {}
  /\ heard = [h \in Handlers |-> [m \in Messages |-> 0]]
  /\ ahead = {} /\ faults = 0

Published == {m \in Messages : stamp[m] # 0}
Of(p)     == {h \in Handlers : Home[h] = p}

-----------------------------------------------------------------------------
(* publish(): the local bus first, then the table, with errors swallowed.  *)
Publish(m) ==
  /\ m \notin Published /\ Sender[m] \notin closed
  /\ stamp' = [stamp EXCEPT ![m] = now]
  /\ heard' = [h \in Handlers |->
       IF Home[h] = Sender[m] /\ Channel[h] = Channel[m]
       THEN [heard[h] EXCEPT ![m] = @ + listeners[h]] ELSE heard[h]]
  /\ sending' = sending \cup {m}
  /\ UNCHANGED <<now, rows, last, subscribers, listeners, polling, polls, closed, ahead, faults>>

Stores(m) ==
  /\ m \in sending
  /\ sending' = sending \ {m}
  /\ rows' = rows \cup {m}
  /\ ahead' = IF \A k \in Published \ (sending \cup {m}) : stamp[k] < stamp[m]
              THEN ahead \cup {m} ELSE ahead
  /\ UNCHANGED <<now, stamp, last, subscribers, listeners, polling, polls, closed, heard, faults>>

StoreFails(m) ==
  /\ m \in sending /\ faults < MaxFaults
  /\ sending' = sending \ {m}
  /\ faults' = faults + 1
  /\ UNCHANGED <<now, stamp, rows, last, subscribers, listeners, polling, polls, closed, heard, ahead>>

Expires(m) ==
  /\ m \in rows /\ now >= stamp[m] + Retention
  /\ rows' = rows \ {m}
  /\ UNCHANGED <<now, stamp, sending, last, subscribers, listeners, polling, polls, closed, heard,
                 ahead, faults>>

-----------------------------------------------------------------------------
(* subscribe() and unsubscribe(): the Set knows a handler once, the bus as *)
(* often as it was subscribed.                                             *)
Subscribe(h) ==
  /\ Home[h] \notin closed /\ listeners[h] < MaxListens
  /\ subscribers' = subscribers \cup {h}
  /\ listeners' = [listeners EXCEPT ![h] = @ + 1]
  /\ polling' = polling \cup {Home[h]}
  /\ UNCHANGED <<now, stamp, sending, rows, last, polls, closed, heard, ahead, faults>>

Unsubscribe(h) ==
  /\ listeners[h] > 0
  /\ subscribers' = subscribers \ {h}
  /\ listeners' = [listeners EXCEPT ![h] = @ - 1]
  /\ polling' = IF subscribers' \cap Of(Home[h]) = {} THEN polling \ {Home[h]} ELSE polling
  /\ UNCHANGED <<now, stamp, sending, rows, last, polls, closed, heard, ahead, faults>>

Close(p) ==
  /\ p \notin closed
  /\ closed' = closed \cup {p}
  /\ polling' = polling \ {p}
  /\ subscribers' = subscribers \ Of(p)
  /\ listeners' = [h \in Handlers |-> IF h \in Of(p) THEN 0 ELSE listeners[h]]
  /\ UNCHANGED <<now, stamp, sending, rows, last, polls, heard, ahead, faults>>

-----------------------------------------------------------------------------
(* pollEvents(), cut at the await of its query.                            *)

(* Mutant: the records come in no order.                                   *)
AnyListing(S) == {F \in SUBSET S : Cardinality(F) <= Limit /\ (Cardinality(F) = Limit \/ F = S)}

(* What a query for the first of S by timestamp may answer.                *)
Listing(S) ==
  {F \in SUBSET S : /\ Cardinality(F) <= Limit /\ (Cardinality(F) = Limit \/ F = S)
                    /\ \A m \in F, k \in S \ F : stamp[m] <= stamp[k]}

PollFinds(p) ==
  /\ p \in polling \ closed /\ subscribers \cap Of(p) # {}
  /\ Cardinality(polls[p]) < MaxPolls
  /\ \E F \in Listing({m \in rows : stamp[m] > last[p]}) :
       F # {} /\ F \notin polls[p] /\ polls' = [polls EXCEPT ![p] = @ \cup {F}]
  /\ UNCHANGED <<now, stamp, sending, rows, last, subscribers, listeners, polling, closed, heard,
                 ahead, faults>>

(* Mutant: what another poll has processed is processed again.             *)
AllOf(F, p) == F

(* The records that the loop processes: beyond the last timestamp, which   *)
(* moves with each, so that of those with the same one only the first is.  *)
Beyond(F, p) == {m \in F : stamp[m] > last[p]}

(* The handlers that a record reaches, the process that sent it aside.     *)
Reaches(m, h) == h \in subscribers /\ Channel[h] = Channel[m] /\ Sender[m] # Home[h]

PollDelivers(p) == \E F \in polls[p] :
  LET B == Beyond(F, p) IN
  /\ polls' = [polls EXCEPT ![p] = @ \ {F}]
  /\ \E D \in SUBSET B :
       /\ \A m \in B : \E k \in D : stamp[k] = stamp[m]
       /\ \A m, k \in D : stamp[m] = stamp[k] => m = k
       /\ heard' = [h \in Handlers |-> [m \in Messages |->
            IF Home[h] = p /\ m \in D /\ Reaches(m, h) THEN heard[h][m] + 1 ELSE heard[h][m]]]
  /\ IF B = {} THEN UNCHANGED last
     ELSE \E m \in B : /\ \A k \in B : stamp[k] <= stamp[m]
                       /\ last' = [last EXCEPT ![p] = stamp[m]]
  /\ UNCHANGED <<now, stamp, sending, rows, subscribers, listeners, polling, closed, ahead, faults>>

PollFails(p) == \E F \in polls[p] :
  /\ faults < MaxFaults
  /\ polls' = [polls EXCEPT ![p] = @ \ {F}]
  /\ faults' = faults + 1
  /\ UNCHANGED <<now, stamp, sending, rows, last, subscribers, listeners, polling, closed, heard, ahead>>

-----------------------------------------------------------------------------
Tick ==
  /\ now < MaxTime
  /\ now' = now + 1
  /\ UNCHANGED <<stamp, sending, rows, last, subscribers, listeners, polling, polls, closed, heard,
                 ahead, faults>>

Next ==
  \/ \E m \in Messages : Publish(m) \/ Stores(m) \/ StoreFails(m) \/ Expires(m)
  \/ \E h \in Handlers : Subscribe(h) \/ Unsubscribe(h)
  \/ \E p \in Processes : Close(p) \/ PollFinds(p) \/ PollDelivers(p) \/ PollFails(p)
  \/ Tick

Spec == Init /\ [][Next]_vars

(* The timer fires again and again, and a query is answered.               *)
Fairness == \A p \in Processes : WF_vars(PollFinds(p)) /\ WF_vars(PollDelivers(p))

FairSpec == Spec /\ Fairness

-----------------------------------------------------------------------------
(* What a handler hears from other processes comes in the order of the     *)
(* timestamps, whichever poll brings it.                                   *)
HeardInOrder ==
  [][\A h \in Handlers, m, k \in Messages :
       /\ Sender[m] # Home[h] /\ Sender[k] # Home[h]
       /\ heard[h][k] > 0 /\ heard'[h][m] > heard[h][m]
       => stamp[k] < stamp[m]]_vars

(* Of another process a handler hears what is stored in the order of the   *)
(* timestamps and has a timestamp of its own, as long as it is subscribed  *)
(* and the record is kept: no overlap of polls, no limit and no failed     *)
(* query makes the high-water mark skip it.                                *)
MessagesArrive ==
  \A h \in Handlers, m \in Messages :
    Sender[m] # Home[h] /\ Channel[h] = Channel[m] =>
      (m \in rows \cap ahead /\ h \in subscribers /\ stamp[m] > last[Home[h]])
        ~> \/ heard[h][m] > 0 \/ h \notin subscribers \/ m \notin rows
           \/ \E k \in Messages \ {m} : stamp[k] = stamp[m]

(* Found violated: the same without regard to the order of the storing.    *)
NoneOvertaken ==
  \A h \in Handlers, m \in Messages :
    Sender[m] # Home[h] /\ Channel[h] = Channel[m] =>
      (m \in rows /\ h \in subscribers /\ stamp[m] > last[Home[h]])
        ~> \/ heard[h][m] > 0 \/ h \notin subscribers \/ m \notin rows
           \/ \E k \in Messages \ {m} : stamp[k] = stamp[m]

(* Found violated: messages of the same timestamp arrive all.              *)
TwinsArrive ==
  \A h \in Handlers, m \in Messages :
    Sender[m] # Home[h] /\ Channel[h] = Channel[m] =>
      (m \in rows \cap ahead /\ h \in subscribers /\ stamp[m] > last[Home[h]])
        ~> (heard[h][m] > 0 \/ h \notin subscribers \/ m \notin rows)

(* Found violated with MaxListens = 2: whoever listens hears the others.   *)
ListenersServed == \A h \in Handlers : listeners[h] > 0 => h \in subscribers /\ Home[h] \in polling

(* Found violated: a handler hears nothing older than its subscription.    *)
NothingFromThePast ==
  [][\A h \in Handlers : h \in subscribers' \ subscribers =>
       \A m \in rows : stamp[m] < now => stamp[m] <= last[Home[h]]]_vars

=============================================================================
