----------------------------- MODULE RateLimiter -----------------------------
(***************************************************************************)
(* RateLimiter (src/limiter/rate-limiter.ts) for one key: consume() reads  *)
(* the counter of the window before, then increments that of the window it *)
(* began in, and grants if the one, weighted by what is left of the        *)
(* window, and the other are within the limit.  Counters live in a table   *)
(* and expire two windows after they were last incremented; calls of many  *)
(* processes overlap, and a call may be slow.  The clocks agree, and no    *)
(* more than one call does the steps of the table's update() at a time     *)
(* (DriverUpdate).  check() answers from the same two counters and changes *)
(* nothing.                                                                *)
(***************************************************************************)
EXTENDS Naturals, FiniteSets

CONSTANTS
  Calls,            (* of consume()                                        *)
  Tokens,           (* how many a call may ask for                         *)
  Window,           (* windowMs, in ticks                                  *)
  Limit,
  MaxTime,          (* bound on the clock                                  *)
  MaxDelay,         (* how long a call may be under way                    *)
  MaxResets         (* calls of reset()                                    *)

RateLimiterAssumption ==
  /\ {Limit, MaxTime, MaxDelay, MaxResets} \cup Tokens \subseteq Nat
  /\ Window \in Nat \ {0} /\ Window <= MaxTime

VARIABLES
  now,              (* Date.now()                                          *)
  counter,          (* the counter of a window, and when it expires        *)
  call,             (* the calls: when they began, what they have read     *)
  granted,          (* history: the tokens granted in a window             *)
  resets

vars == <<now, counter, call, granted, resets>>

Windows   == 0..(MaxTime \div Window)
WindowOf(t) == t \div Window
ElapsedAt(t) == t % Window

Idle == [pc |-> "idle", at |-> 0, tokens |-> 0, prev |-> 0, before |-> 0]

(* The clock starts in the second window, so that each has one before.     *)
Init ==
  /\ now = Window
  /\ counter = [w \in Windows |-> [count |-> 0, until |-> 0]]
  /\ call = [c \in Calls |-> Idle]
  /\ granted = [w \in Windows |-> 0]
  /\ resets = 0

(* get(): a counter that has expired counts nothing.                       *)
Counted(w) == IF now < counter[w].until THEN counter[w].count ELSE 0

-----------------------------------------------------------------------------
Begins(c) ==
  /\ call[c].pc = "idle"
  /\ \E n \in Tokens : call' = [call EXCEPT ![c] = [Idle EXCEPT !.pc = "read", !.at = now, !.tokens = n]]
  /\ UNCHANGED <<now, counter, granted, resets>>

(* The window before; "before" is what it has granted by now.              *)
Reads(c) ==
  LET w == WindowOf(call[c].at) - 1 IN
  /\ call[c].pc = "read"
  /\ call' = [call EXCEPT ![c].pc = "add", ![c].prev = Counted(w), ![c].before = granted[w]]
  /\ UNCHANGED <<now, counter, granted, resets>>

Ends(c, pc) == call' = [call EXCEPT ![c] = [Idle EXCEPT !.pc = pc]]

(* Mutant: the present window alone.                                       *)
EstimateOfWindow(prev, cur, at) == cur

Weighted(n, at) == (n * (Window - ElapsedAt(at))) \div Window

Estimate(prev, cur, at) == Weighted(prev, at) + cur

(* increment(): the counter starts anew when it has expired, and lives for *)
(* two windows more.  Tokens that are not granted have been counted, too.  *)
Adds(c) ==
  LET w   == WindowOf(call[c].at)
      cur == Counted(w) + call[c].tokens
  IN
  /\ call[c].pc = "add"
  /\ counter' = [counter EXCEPT ![w] = [count |-> cur, until |-> now + 2 * Window]]
  /\ IF Estimate(call[c].prev, cur, call[c].at) <= Limit
     THEN /\ granted' = [granted EXCEPT ![w] = @ + call[c].tokens]
          /\ call' = [call EXCEPT ![c] = [Idle EXCEPT !.pc = "granted", !.at = call[c].at]]
     ELSE Ends(c, "refused") /\ UNCHANGED granted
  /\ UNCHANGED <<now, resets>>

Fails(c) ==
  /\ call[c].pc \in {"read", "add"}
  /\ Ends(c, "failed")
  /\ UNCHANGED <<now, counter, granted, resets>>

(* reset() deletes the two counters.                                       *)
Reset ==
  /\ resets < MaxResets
  /\ counter' = [w \in Windows |-> IF w \in {WindowOf(now), WindowOf(now) - 1}
                                   THEN [count |-> 0, until |-> 0] ELSE counter[w]]
  /\ resets' = resets + 1
  /\ UNCHANGED <<now, call, granted>>

Tick ==
  /\ now < MaxTime
  /\ \A c \in Calls : call[c].pc \in {"read", "add"} => now < call[c].at + MaxDelay
  /\ now' = now + 1
  /\ UNCHANGED <<counter, call, granted, resets>>

Next ==
  \/ \E c \in Calls : Begins(c) \/ Reads(c) \/ Adds(c) \/ Fails(c)
  \/ Reset \/ Tick

Spec == Init /\ [][Next]_vars

-----------------------------------------------------------------------------
(* Without reset(), no window grants more than the limit, and what a call  *)
(* is granted leaves room for the weighted share of what the window before *)
(* had granted when the call looked: calls that overlap see each other's   *)
(* tokens, and no counter is gone while it is needed.                      *)
LimitKept ==
  [][resets = 0 => \A c \in Calls :
       call[c].pc = "add" /\ call'[c].pc = "granted" =>
         Weighted(call[c].before, call[c].at) + granted'[WindowOf(call[c].at)] <= Limit]_vars

(* Found violated: of calls that ask for one token each, no more than the  *)
(* limit are granted in any span as long as a window.                      *)
SlidingLimitKept ==
  \A t \in 0..now :
    Cardinality({c \in Calls : call[c].pc = "granted" /\ call[c].at \in t..(t + Window - 1)}) <= Limit

=============================================================================
