------------------------------ MODULE Services ------------------------------
(***************************************************************************)
(* The services built on tables: publish and subscribe, the rate limiter,  *)
(* the tiered cache, blobs, soft deletion and recurring jobs, each an      *)
(* instance of its module.  They do not interact: a behaviour is one of    *)
(* one service, chosen at the start, and the others stay as they are at    *)
(* first.                                                                  *)
(***************************************************************************)
EXTENDS Naturals

CONSTANTS
  None,
  Processes, Messages, Handlers, Sender, Home, Channel, PollLimit, Retention,
  LastTick, MaxPolls, MaxListens, MaxFaults,               (* PubSub       *)
  Consumptions, Tokens, Window, Limit, LastTime, MaxDelay, MaxResets,
                                                           (* RateLimiter  *)
  CacheCalls, Refreshes, Tiers, CacheSettings,             (* TieredCache  *)
  Puts, Gets, Deletes, Pieces, BlobSettings,               (* BlobStore    *)
  Callers, Values, MaxSteps,                               (* SoftDelete   *)
  Workers, Schedulers, Schedules, LastMinute, MaxPeriod    (* Schedule     *)

VARIABLES
  part,             (* the service that runs                               *)
  now, stamp, sending, posts, last, subscribers, listeners, polling, polls, closed, heard, ahead,
  faults,                                                  (* PubSub       *)
  clock, counter, consumer, granted, resets,               (* RateLimiter  *)
  setting, tier, job, inFlight, latest, lost,              (* TieredCache  *)
  way, chunk, meta, user, failures,                        (* BlobStore    *)
  row, mortal, caller, steps,                              (* SoftDelete   *)
  plan, minute, planned, jobs, worker, scheduler, starts, mishaps
                                                           (* Schedule     *)

-----------------------------------------------------------------------------
P == INSTANCE PubSub WITH rows <- posts, Limit <- PollLimit, MaxTime <- LastTick

L == INSTANCE RateLimiter WITH now <- clock, call <- consumer,
  Calls <- Consumptions, MaxTime <- LastTime

C == INSTANCE TieredCache WITH Calls <- CacheCalls, Settings <- CacheSettings

B == INSTANCE BlobStore WITH setting <- way, call <- user, faults <- failures,
  Settings <- BlobSettings

D == INSTANCE SoftDelete WITH call <- caller

S == INSTANCE Schedule WITH setting <- plan, now <- minute, row <- planned, caller <- scheduler,
  faults <- mishaps, Callers <- Schedulers, Settings <- Schedules, MaxTime <- LastMinute

(* What the modules ask of their constants.                                *)
ASSUME ServicesAssumption ==
  /\ P!PubSubAssumption /\ L!RateLimiterAssumption /\ C!TieredCacheAssumption
  /\ B!BlobStoreAssumption /\ D!SoftDeleteAssumption /\ S!ScheduleAssumption

-----------------------------------------------------------------------------
pubsub   == <<now, stamp, sending, posts, last, subscribers, listeners, polling, polls, closed,
              heard, ahead, faults>>
limiter  == <<clock, counter, consumer, granted, resets>>
cache    == <<setting, tier, job, inFlight, latest, lost>>
blobs    == <<way, chunk, meta, user, failures>>
soft     == <<row, mortal, caller, steps>>
schedule == <<plan, minute, planned, jobs, worker, scheduler, starts, mishaps>>
services == <<part, pubsub, limiter, cache, blobs, soft, schedule>>

(* Which instance of a service stays as it is makes no difference.         *)
ServicesInit ==
  /\ part \in {"pubsub", "limiter", "cache", "blobs", "soft", "schedule"}
  /\ P!Init /\ L!Init /\ C!Init /\ B!Init /\ D!Init /\ S!Init
  /\ part # "cache" => setting = CHOOSE s \in CacheSettings : TRUE
  /\ part # "blobs" => way = CHOOSE s \in BlobSettings : TRUE
  /\ part # "schedule" => plan = CHOOSE s \in Schedules : TRUE

ServicesNext ==
  \/ part = "pubsub"   /\ P!Next /\ UNCHANGED <<part, limiter, cache, blobs, soft, schedule>>
  \/ part = "limiter"  /\ L!Next /\ UNCHANGED <<part, pubsub, cache, blobs, soft, schedule>>
  \/ part = "cache"    /\ C!Next /\ UNCHANGED <<part, pubsub, limiter, blobs, soft, schedule>>
  \/ part = "blobs"    /\ B!Next /\ UNCHANGED <<part, pubsub, limiter, cache, soft, schedule>>
  \/ part = "soft"     /\ D!Next /\ UNCHANGED <<part, pubsub, limiter, cache, blobs, schedule>>
  \/ part = "schedule" /\ S!Next /\ UNCHANGED <<part, pubsub, limiter, cache, blobs, soft>>

(* With the fairness of PubSub.                                            *)
ServicesSpec == ServicesInit /\ [][ServicesNext]_services /\ P!Fairness

-----------------------------------------------------------------------------
(* The properties, which their modules put into words.                     *)
HeardInOrder    == P!HeardInOrder
MessagesArrive  == P!MessagesArrive
LimitKept       == L!LimitKept
OneRunner       == C!OneRunner
Coherent        == C!Coherent
WholeOrNothing  == B!WholeOrNothing
NothingInvented == D!NothingInvented
EachTimeOnce    == S!EachTimeOnce
KeepsRunning    == S!KeepsRunning

=============================================================================
