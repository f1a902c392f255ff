----------------------------- MODULE TieredCache -----------------------------
(***************************************************************************)
(* Cache (src/cache/cache.ts) for one key: reads go through the tiers and  *)
(* backfill those above the hit one after the other, writes and deletions  *)
(* go to all tiers at once; wrap() runs a function on a miss, for all      *)
(* callers of the key that come meanwhile, and may refresh a hit that is   *)
(* about to expire in the background.  @Cacheable is wrap(), @CacheClear a *)
(* deletion after the method.                                              *)
(*                                                                         *)
(* A value goes by the name of the job that brought it: set() writes its   *)
(* own, a function computes its own.  Expiry and eviction are a tier that  *)
(* loses its entry, whenever it likes.                                     *)
(***************************************************************************)
EXTENDS Naturals

CONSTANTS
  Calls,            (* calls of get(), set(), delete() and wrap()          *)
  Refreshes,        (* background refreshes                                *)
  Tiers,            (* the stores: 1..N, the closest first                 *)
  Settings,         (* what is called, and what fails                      *)
  None

TieredCacheAssumption ==
  /\ None \notin Calls \cup Refreshes /\ Calls \cap Refreshes = {}
  /\ 1 \in Tiers /\ Tiers \subseteq Nat \ {0} /\ \A i \in Tiers : 1..i \subseteq Tiers
  /\ \A s \in Settings : {s.overlap, s.refreshes, s.storeFails} \subseteq BOOLEAN

VARIABLES
  setting,          (* the one of Settings that is checked                 *)
  tier,             (* the value that each tier has                        *)
  job,              (* how far each call and refresh is                    *)
  inFlight,         (* inFlightMisses: the wrap() that others join         *)
  latest,           (* history: the value written last, None if deleted    *)
  lost              (* entries lost so far                                 *)

vars == <<setting, tier, job, inFlight, latest, lost>>

Jobs == Calls \cup Refreshes

Idle == [op |-> "none", pc |-> "idle", at |-> 0, hit |-> 0, val |-> None, todo |-> {}]

Init ==
  /\ setting \in Settings
  /\ tier = [i \in Tiers |-> None]
  /\ job = [j \in Jobs |-> Idle]
  /\ inFlight = None /\ latest = None /\ lost = 0

Over(j)  == job[j].pc \in {"done", "failed"}
Underway == {j \in Jobs : (job[j].pc # "idle" /\ ~Over(j)) \/ job[j].todo # {}}

-----------------------------------------------------------------------------
(* The calls begin.  Programs may wait for each before they make the next. *)

Begins(c, op, pc) ==
  /\ job[c].pc = "idle" /\ op \in setting.operations
  /\ setting.overlap \/ Underway = {}
  /\ job' = [job EXCEPT ![c] = [Idle EXCEPT !.op = op, !.pc = pc, !.at = 1]]
  /\ UNCHANGED <<setting, tier, latest, lost>>

Get(c) == Begins(c, "get", "read") /\ UNCHANGED inFlight

(* Mutant: a value is deleted from the closest store only.                 *)
DeletesNear(j, v) == [job[j] EXCEPT !.pc = "write", !.val = v, !.todo = IF v = None THEN {1} ELSE Tiers]

(* Promise.all over the stores.                                            *)
Stores(j, v) == [job[j] EXCEPT !.pc = "write", !.val = v, !.todo = Tiers]

(* set(), or with None delete().                                           *)
Writes(c, op, v) ==
  /\ job[c].pc = "idle" /\ op \in setting.operations
  /\ setting.overlap \/ Underway = {}
  /\ job' = [job EXCEPT ![c] = [Stores(c, v) EXCEPT !.op = op]]
  /\ latest' = v
  /\ UNCHANGED <<setting, tier, inFlight, lost>>

Set(c)    == Writes(c, "set", c)
Delete(c) == Writes(c, "delete", None)

(* wrap() joins the run of the key, which may yet turn out to be a hit.    *)
WrapRuns(c)  == inFlight = None /\ Begins(c, "wrap", "read") /\ inFlight' = c
WrapJoins(c) ==
  /\ inFlight # None /\ job[c].pc = "idle" /\ "wrap" \in setting.operations /\ setting.overlap
  /\ job' = [job EXCEPT ![c] = [Idle EXCEPT !.op = "wrap", !.pc = "join", !.val = inFlight]]
  /\ UNCHANGED <<setting, tier, inFlight, latest, lost>>

-----------------------------------------------------------------------------
(* Mutant: others may run the function while its value is being stored.    *)
ForgetsEarly(j, pc) == inFlight' = IF inFlight = j /\ pc \in {"done", "failed", "write"} THEN None ELSE inFlight

(* finally { inFlightMisses.delete(key) }                                  *)
Forgets(j, pc) == inFlight' = IF inFlight = j /\ pc \in {"done", "failed"} THEN None ELSE inFlight

(* Job j is as "next" says.                                                *)
Becomes(j, next) == job' = [job EXCEPT ![j] = next] /\ Forgets(j, next.pc)

Ended(j, pc) == [job[j] EXCEPT !.pc = pc, !.at = 0, !.hit = 0, !.val = IF job[j].todo = {} THEN None ELSE @]

(* readRaw(): one tier after the other.                                    *)
Read(j) ==
  LET i == job[j].at IN
  /\ job[j].pc = "read"
  /\ IF tier[i] # None
     THEN Becomes(j, [job[j] EXCEPT !.val = tier[i], !.hit = i, !.at = 1,
                                    !.pc = IF i = 1 THEN "hit" ELSE "backfill"])
     ELSE IF i + 1 \in Tiers     THEN Becomes(j, [job[j] EXCEPT !.at = i + 1])
     ELSE IF job[j].op = "wrap"  THEN Becomes(j, [job[j] EXCEPT !.pc = "fn"])
     ELSE Becomes(j, Ended(j, "done"))
  /\ UNCHANGED <<setting, tier, latest, lost>>

(* backfill(): the tiers above the hit, each awaited.                      *)
Backfill(j) ==
  LET i == job[j].at IN
  /\ job[j].pc = "backfill"
  /\ tier' = [tier EXCEPT ![i] = job[j].val]
  /\ Becomes(j, [job[j] EXCEPT !.at = i + 1, !.pc = IF i + 1 = job[j].hit THEN "hit" ELSE @])
  /\ UNCHANGED <<setting, latest, lost>>

(* The hit is answered.                                                    *)
Answers(j) ==
  /\ job[j].pc = "hit"
  /\ Becomes(j, Ended(j, "done"))
  /\ UNCHANGED <<setting, tier, latest, lost>>

(* refreshInBackground(): as well, and only if none is under way.          *)
AnswersStale(j, r) ==
  /\ job[j].pc = "hit" /\ job[j].op = "wrap" /\ setting.refreshes
  /\ job[r].pc = "idle" /\ \A q \in Refreshes : job[q].pc \notin {"fn", "write"}
  /\ job' = [job EXCEPT ![j] = Ended(j, "done"), ![r] = [Idle EXCEPT !.op = "wrap", !.pc = "fn"]]
  /\ Forgets(j, "done")
  /\ UNCHANGED <<setting, tier, latest, lost>>

(* The function returns a value, or undefined, which is a deletion.        *)
Computes(j) ==
  /\ job[j].pc = "fn"
  /\ \E v \in {j, None} : Becomes(j, Stores(j, v)) /\ latest' = v
  /\ UNCHANGED <<setting, tier, lost>>

(* A store has written.  After a failure the others go on.                 *)
Applies(j, i) ==
  /\ i \in job[j].todo
  /\ tier' = [tier EXCEPT ![i] = job[j].val]
  /\ LET rest == [job[j] EXCEPT !.todo = @ \ {i}] IN
     Becomes(j, IF rest.todo = {} THEN [rest EXCEPT !.pc = IF @ = "write" THEN "done" ELSE @, !.at = 0, !.val = None]
                ELSE rest)
  /\ UNCHANGED <<setting, latest, lost>>

(* Who joined gets what the run got.                                       *)
Joined(c) ==
  /\ job[c].pc = "join" /\ Over(job[c].val)
  /\ Becomes(c, Ended(c, job[job[c].val].pc))
  /\ UNCHANGED <<setting, tier, latest, lost>>

(* The function, or a store, fails.                                        *)
Fails(j) ==
  /\ \/ job[j].pc = "fn" /\ Becomes(j, Ended(j, "failed"))
     \/ setting.storeFails /\ job[j].pc \in {"read", "backfill"} /\ Becomes(j, Ended(j, "failed"))
     \/ setting.storeFails /\ job[j].pc = "write" /\ \E i \in job[j].todo :
          Becomes(j, [job[j] EXCEPT !.pc = "failed", !.at = 0, !.todo = @ \ {i}])
  /\ UNCHANGED <<setting, tier, latest, lost>>

Loses(i) ==
  /\ tier[i] # None /\ lost < setting.losses
  /\ tier' = [tier EXCEPT ![i] = None]
  /\ lost' = lost + 1
  /\ UNCHANGED <<setting, job, inFlight, latest>>

Next ==
  \/ \E c \in Calls : Get(c) \/ Set(c) \/ Delete(c) \/ WrapRuns(c) \/ WrapJoins(c) \/ Joined(c)
  \/ \E j \in Jobs :
       \/ Read(j) \/ Backfill(j) \/ Answers(j) \/ Computes(j) \/ Fails(j)
       \/ \E i \in Tiers : Applies(j, i)
       \/ \E r \in Refreshes : AnswersStale(j, r)
  \/ \E i \in Tiers : Loses(i)

Spec == Init /\ [][Next]_vars

-----------------------------------------------------------------------------
(* Of the calls of wrap() one at most runs its function or stores what it  *)
(* has computed; and it is a run that goes on that later calls join, never *)
(* one that has failed.                                                    *)
OneRunner ==
  /\ \A c, d \in Calls :
       job[c].op = "wrap" /\ job[d].op = "wrap" /\ {job[c].pc, job[d].pc} \subseteq {"fn", "write"} => c = d
  /\ inFlight # None => ~Over(inFlight)

(* With no job under way every tier has the value written last or none,    *)
(* and none has one after a deletion.                                      *)
Agree == Underway = {} => \A i \in Tiers : tier[i] \in {None, latest}

(* The tiers agree if calls do not overlap and no store fails, whatever    *)
(* was evicted, expired and backfilled.  (Of others they do not: a         *)
(* backfill or a function that is late brings an older value back.)        *)
Coherent == ~setting.overlap /\ ~setting.storeFails => Agree

=============================================================================
