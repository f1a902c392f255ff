------------------------------ MODULE Schedule ------------------------------
(***************************************************************************)
(* Recurring jobs of a queue (src/queue/queue.ts): schedule() stores a row *)
(* and pushes the first job, and whoever completes or buries a job of the  *)
(* schedule pushes the next one.  There is no scheduler process: the chain *)
(* of jobs is all that keeps a schedule going.                             *)
(*                                                                         *)
(* One schedule.  Its jobs are told apart by the time in their id, as in   *)
(* the code; names, keys and ids are sequences of their parts between      *)
(* colons.  Of the queue there is as much as decides which jobs run        *)
(* (JobQueue has the rest): a job is taken when it is due, by another      *)
(* worker when its lease has run out, and its holder completes or rejects  *)
(* it.  Every await is a point at which others come in.                    *)
(***************************************************************************)
EXTENDS Naturals, Sequences, FiniteSets

CONSTANTS
  Workers,          (* consumers of the queue                              *)
  Callers,          (* calls of schedule()                                 *)
  Settings,         (* what is scheduled, and what goes wrong              *)
  MaxTime,          (* bound on the clock                                  *)
  MaxPeriod,        (* bound on a period and a clock put back, together    *)
  None

ScheduleAssumption ==
  /\ MaxTime \in Nat \ {0} /\ MaxPeriod \in Nat
  /\ \A s \in Settings :
       /\ {s.queue, s.name} \subseteq Seq(STRING) \ {<<>>}
       /\ {s.period, s.turn, s.back, s.attempts, s.faults} \subseteq Nat
       /\ s.period > 0 /\ s.back <= s.turn /\ s.period + s.back <= MaxPeriod
       /\ {s.cron, s.strays, s.removes, s.rejects, s.unschedules, s.crashes, s.triggerFails,
           s.lapses, s.prompt} \subseteq BOOLEAN

VARIABLES
  setting,          (* the one of Settings that is checked                 *)
  now,              (* Date.now()                                          *)
  row,              (* there is a row in _kvdb_schedules                   *)
  jobs,             (* the jobs of the schedule, by the time in their id   *)
  worker,           (* what each worker is doing                           *)
  caller,           (* how far each call of schedule() is                  *)
  starts,           (* history: first attempts begun, by the time          *)
  faults            (* crashes, lapses and failures so far                 *)

vars == <<setting, now, row, jobs, worker, caller, starts, faults>>

-----------------------------------------------------------------------------
Period == setting.period
Times  == 0..(MaxTime + MaxPeriod)

NoJob == [state |-> "none", runAt |-> 0, attempts |-> 0, by |-> None]
Fresh(at) == [state |-> "delayed", runAt |-> at, attempts |-> 0, by |-> None]
Idle  == [pc |-> "idle", id |-> 0, next |-> 0]
Quiet == [pc |-> "idle", next |-> 0, runAt |-> 0]

Init ==
  /\ setting \in Settings
  /\ now = 1 /\ row = FALSE
  /\ jobs = [t \in Times |-> NoJob]
  /\ worker = [w \in Workers |-> Idle]
  /\ caller = [c \in Callers |-> Quiet]
  /\ starts = [t \in Times |-> 0]
  /\ faults = 0

Pending == {t \in Times : jobs[t].state \in {"delayed", "active"}}

-----------------------------------------------------------------------------
(* The local time: at setting.turn the clock is put back by setting.back.  *)
Local(t) == IF t < setting.turn THEN t ELSE t - setting.back

(* The time that a Date is set to: a local time that comes twice means the *)
(* first.                                                                  *)
Instant(l) == IF l < setting.turn THEN l ELSE l + setting.back

(* Mutant: the present minute is a match too.                              *)
FromNow(t) ==
  IF setting.cron
  THEN Instant(CHOOSE l \in Local(t)..(Local(t) + Period - 1) : l % Period = 0)
  ELSE t + Period

(* getNextCronTime(), for the expression that matches every multiple of    *)
(* Period: the first match later on the local clock; or now + everyMs.     *)
NextRun(t) ==
  IF setting.cron
  THEN Instant(CHOOSE l \in (Local(t) + 1)..(Local(t) + Period) : l % Period = 0)
  ELSE t + Period

Delay == IF NextRun(now) > now THEN NextRun(now) - now ELSE 0

(* schedule() computes the time, writes the row, then pushes: the delay is *)
(* counted from the push.                                                  *)
ScheduleBegins(c) ==
  /\ caller[c].pc = "idle"
  /\ caller' = [caller EXCEPT ![c] = [pc |-> "row", next |-> NextRun(now), runAt |-> Delay]]
  /\ UNCHANGED <<setting, now, row, jobs, worker, starts, faults>>

ScheduleWrites(c) ==
  /\ caller[c].pc = "row"
  /\ row' = TRUE
  /\ caller' = [caller EXCEPT ![c].pc = "push", ![c].runAt = @ + now]
  /\ UNCHANGED <<setting, now, jobs, worker, starts, faults>>

SchedulePushes(c) ==
  /\ caller[c].pc = "push"
  /\ jobs' = [jobs EXCEPT ![caller[c].next] = Fresh(caller[c].runAt)]
  /\ caller' = [caller EXCEPT ![c] = [Quiet EXCEPT !.pc = "done"]]
  /\ UNCHANGED <<setting, now, row, worker, starts, faults>>

(* The key of the row of a schedule, and the name that is taken from an id:*)
(* the third part.                                                         *)
RowKey(name) == setting.queue \o name
ScheduleName == (<<"sched">> \o setting.queue \o setting.name)[3]

(* The row that triggerNextSchedule() looks for is there, and is that of   *)
(* the schedule whose job it is.                                           *)
Found == row /\ ScheduleName # "" /\ RowKey(<<ScheduleName>>) = RowKey(setting.name)

(* A job of another schedule, whose name is this one's, a colon and more,  *)
(* has ended: triggerNextSchedule() finds this row, and pushes.            *)
Strays(c) ==
  /\ setting.strays /\ caller[c].pc = "idle" /\ Found
  /\ caller' = [caller EXCEPT ![c] = [pc |-> "push", next |-> NextRun(now), runAt |-> now + Delay]]
  /\ UNCHANGED <<setting, now, row, jobs, worker, starts, faults>>

Unschedule ==
  /\ setting.unschedules /\ row
  /\ row' = FALSE
  /\ UNCHANGED <<setting, now, jobs, worker, caller, starts, faults>>

-----------------------------------------------------------------------------
Goes(w, pc) ==
  worker' = [worker EXCEPT ![w] = IF pc = "idle" THEN Idle ELSE [@ EXCEPT !.pc = pc]]

Busy(w, t) == worker[w].pc # "idle" /\ worker[w].id = t

(* pop(): a job that is due, or whose lease has run out.  The holder of    *)
(* one that lapsed may be at work still.                                   *)
Take(w, t) ==
  LET lapsed == jobs[t].state = "active"
      slow   == lapsed /\ Busy(jobs[t].by, t)
  IN
  /\ worker[w].pc = "idle"
  /\ lapsed \/ (jobs[t].state = "delayed" /\ jobs[t].runAt <= now)
  /\ slow => setting.lapses /\ faults < setting.faults
  /\ faults' = IF slow THEN faults + 1 ELSE faults
  /\ jobs' = [jobs EXCEPT ![t].state = "active", ![t].by = w, ![t].attempts = @ + 1]
  /\ starts' = [starts EXCEPT ![t] = IF jobs[t].attempts = 0 THEN @ + 1 ELSE @]
  /\ worker' = [worker EXCEPT ![w] = [pc |-> "work", id |-> t, next |-> 0]]
  /\ UNCHANGED <<setting, now, row, caller>>

Holds(w) == jobs[worker[w].id].state = "active" /\ jobs[worker[w].id].by = w

(* Mutant: the job goes first, then the next one is pushed.                *)
AckDeletesFirst(w) ==
  /\ worker[w].pc = "work"
  /\ IF Holds(w) THEN Goes(w, IF setting.removes THEN "trigger" ELSE "complete") ELSE Goes(w, "idle")
  /\ jobs' = IF Holds(w) /\ setting.removes THEN [jobs EXCEPT ![worker[w].id] = NoJob] ELSE jobs
  /\ UNCHANGED <<setting, now, row, caller, starts, faults>>

(* ack(): the token is compared; with removeOnComplete the next job is     *)
(* pushed before the job is deleted, else after it is marked.              *)
Ack(w) ==
  /\ worker[w].pc = "work"
  /\ Goes(w, IF ~Holds(w) THEN "idle" ELSE IF setting.removes THEN "trigger" ELSE "complete")
  /\ UNCHANGED <<setting, now, row, jobs, caller, starts, faults>>

(* nack(): the job is to be tried again, or buried.                        *)
Nack(w) ==
  /\ worker[w].pc = "work" /\ setting.rejects
  /\ Goes(w, IF ~Holds(w) THEN "idle"
             ELSE IF jobs[worker[w].id].attempts < setting.attempts THEN "retry" ELSE "bury")
  /\ UNCHANGED <<setting, now, row, jobs, caller, starts, faults>>

(* The update that ends an attempt: what it finds is not compared again.   *)
Marks(w) ==
  LET id == worker[w].id IN
  /\ worker[w].pc \in {"complete", "bury", "retry"}
  /\ jobs' = IF jobs[id].state = "none" THEN jobs
             ELSE CASE worker[w].pc = "complete" -> [jobs EXCEPT ![id].state = "completed"]
                    [] worker[w].pc = "bury"     -> [jobs EXCEPT ![id].state = "failed"]
                    [] OTHER -> [jobs EXCEPT ![id].state = "delayed", ![id].runAt = now]
  /\ Goes(w, IF worker[w].pc = "retry" \/ jobs[id].state = "none" THEN "idle" ELSE "trigger")
  /\ UNCHANGED <<setting, now, row, caller, starts, faults>>

After == IF setting.removes THEN "delete" ELSE "idle"

(* triggerNextSchedule(): the row is read; without one the chain ends.     *)
Triggers(w) ==
  /\ worker[w].pc = "trigger"
  /\ IF Found THEN worker' = [worker EXCEPT ![w].pc = "push", ![w].next = NextRun(now)]
     ELSE Goes(w, After)
  /\ UNCHANGED <<setting, now, row, jobs, caller, starts, faults>>

(* push() under the id of a job that is there overwrites it.               *)
TriggerPushes(w) ==
  /\ worker[w].pc = "push"
  /\ jobs' = [jobs EXCEPT ![worker[w].next] = Fresh(worker[w].next)]
  /\ Goes(w, After)
  /\ UNCHANGED <<setting, now, row, caller, starts, faults>>

Removes(w) ==
  /\ worker[w].pc = "delete"
  /\ jobs' = [jobs EXCEPT ![worker[w].id] = NoJob]
  /\ Goes(w, "idle")
  /\ UNCHANGED <<setting, now, row, caller, starts, faults>>

(* A failure in triggerNextSchedule() is swallowed.                        *)
TriggerFails(w) ==
  /\ setting.triggerFails /\ faults < setting.faults
  /\ worker[w].pc \in {"trigger", "push"}
  /\ Goes(w, After)
  /\ faults' = faults + 1
  /\ UNCHANGED <<setting, now, row, jobs, caller, starts>>

(* The process of a worker dies; another one comes in its place.           *)
Crash(w) ==
  /\ setting.crashes /\ faults < setting.faults
  /\ worker[w].pc # "idle"
  /\ worker' = [worker EXCEPT ![w] = Idle]
  /\ faults' = faults + 1
  /\ UNCHANGED <<setting, now, row, jobs, caller, starts>>

-----------------------------------------------------------------------------
(* With prompt pushes none is under way when its time comes.               *)
Tick ==
  /\ now < MaxTime
  /\ setting.prompt =>
       /\ \A c \in Callers : caller[c].pc \notin {"row", "push"}
       /\ \A w \in Workers : worker[w].pc # "push"
  /\ now' = now + 1
  /\ UNCHANGED <<setting, row, jobs, worker, caller, starts, faults>>

Next ==
  \/ \E c \in Callers : ScheduleBegins(c) \/ ScheduleWrites(c) \/ SchedulePushes(c) \/ Strays(c)
  \/ \E w \in Workers :
       \/ \E t \in Times : Take(w, t)
       \/ Ack(w) \/ Nack(w) \/ Marks(w) \/ Triggers(w) \/ TriggerPushes(w) \/ Removes(w)
       \/ TriggerFails(w) \/ Crash(w)
  \/ Unschedule \/ Tick

Spec == Init /\ [][Next]_vars

-----------------------------------------------------------------------------
(* The job of a time is begun once, however many calls schedule it, and    *)
(* whoever pushes it again: a retried job, one that was taken twice, a     *)
(* second schedule().                                                      *)
EachTimeOnce == setting.cron => \A t \in Times : starts[t] <= 1

(* As long as a schedule is there, some job of it is unfinished or about   *)
(* to be pushed, if no trigger fails.                                      *)
NeverEnds ==
  row /\ ~setting.triggerFails =>
         \/ Pending # {}
         \/ \E c \in Callers : caller[c].pc = "push"
         \/ \E w \in Workers : worker[w].pc \in {"trigger", "push"}

PlainNames == Len(setting.queue) = 1 /\ Len(setting.name) = 1 /\ setting.name # <<"">>

(* A schedule whose name has no colon and is not empty, of a queue with no *)
(* colon, goes on: no failed job ends it, no lost lease, no second         *)
(* schedule() and, where jobs are removed when they complete and none is   *)
(* rejected, no crash.  The pushes are prompt, and no match falls into the *)
(* hour that a clock put back repeats.                                     *)
KeepsRunning == PlainNames => NeverEnds

(* Not of everyMs: one job waits at a time.                                *)
OneChain == Cardinality({t \in Times : jobs[t].state = "delayed"}) <= 1

=============================================================================
