------------------------------- MODULE Worker -------------------------------
(***************************************************************************)
(* The worker of a queue (src/queue/worker.ts): the loop that takes jobs   *)
(* while a slot is free, sleeps when there is nothing to do and is woken   *)
(* when a job ends; pause(), resume(), start() and close().                *)
(*                                                                         *)
(* What happens between two awaits is one action.  Of the queue only the   *)
(* jobs that pop() may return are here (JobQueue has the rest); heartbeats *)
(* are in JobQueue and Lifecycle.                                          *)
(***************************************************************************)
EXTENDS Naturals, FiniteSets

CONSTANTS
  Jobs,
  Concurrency,      (* slots of the worker                                 *)
  Loops,            (* names for the dispatch loops that run at a time     *)
  Runs,             (* names for the job promises that are open at a time  *)
  Closers,          (* callers of close()                                  *)
  Overlap,          (* the queue may hand out a job whose processor has    *)
                    (* not ended: its lease ran out, or its retry was due  *)
  StartWhileClosing, (* start() may be called before close() has returned  *)
  None

ASSUME WorkerAssumption ==
  /\ Concurrency \in Nat \ {0} /\ IsFiniteSet(Runs)
  /\ None \notin Jobs \cup Loops \cup Runs
  /\ {Overlap, StartWhileClosing} \subseteq BOOLEAN

VARIABLES
  ready,     (* jobs that pop() may return                                 *)
  running,   (* isRunning                                                  *)
  paused,    (* isPaused                                                   *)
  loop,      (* the activations of dispatchLoop()                          *)
  dispatch,  (* dispatchPromise: the loop that close() awaits              *)
  sleeper,   (* pollResolve and pollTimeout: the loop wakeUp() would wake  *)
  active,    (* the keys of activeJobs                                     *)
  run,       (* the open job promises, activePromises                      *)
  closer     (* the calls of close()                                       *)

vars == <<ready, running, paused, loop, dispatch, sleeper, active, run, closer>>

-----------------------------------------------------------------------------
Dispatch == [pc: {"none", "head", "pop", "sleep"}, left: 0..Concurrency, popped: BOOLEAN]
Run      == [pc: {"none", "work", "ack", "nack"}, job: Jobs \cup {None}]
Closing  == [pc: {"idle", "loop", "jobs"}, loop: Loops \cup {None}, runs: SUBSET Runs]

NoLoop == [pc |-> "none", left |-> 0, popped |-> FALSE]
NoRun  == [pc |-> "none", job |-> None]
Idle   == [pc |-> "idle", loop |-> None, runs |-> {}]

Init ==
  /\ ready = {} /\ running = FALSE /\ paused = FALSE
  /\ loop = [l \in Loops |-> NoLoop] /\ dispatch = None /\ sleeper = None
  /\ active = {} /\ run = [i \in Runs |-> NoRun]
  /\ closer = [k \in Closers |-> Idle]

Open == {i \in Runs : run[i].pc # "none"}

-----------------------------------------------------------------------------
(* The dispatch loop.                                                      *)

Asleep == [pc |-> "sleep", left |-> 0, popped |-> FALSE]

(* Mutant: the loop of a closed worker sleeps.                             *)
HeadSleepsOn(isRunning, isPaused, jobs) ==
  IF ~isRunning \/ isPaused \/ Cardinality(jobs) >= Concurrency THEN Asleep
  ELSE [pc |-> "pop", left |-> Concurrency - Cardinality(jobs), popped |-> FALSE]

(* The head of the loop, with these jobs active: it ends, sleeps, or fills *)
(* the slots that are free.                                                *)
Head(isRunning, isPaused, jobs) ==
  IF ~isRunning THEN NoLoop
  ELSE IF isPaused \/ Cardinality(jobs) >= Concurrency THEN Asleep
  ELSE [pc |-> "pop", left |-> Concurrency - Cardinality(jobs), popped |-> FALSE]

(* Loop l goes on as "next" says; when it ends, who awaits it is told.     *)
Goes(l, next) ==
  /\ loop' = [loop EXCEPT ![l] = next]
  /\ sleeper' = IF next.pc = "sleep" THEN l ELSE sleeper
  /\ closer' = IF next.pc # "none" THEN closer
               ELSE [k \in Closers |-> IF closer[k].loop = l THEN [closer[k] EXCEPT !.loop = None]
                                       ELSE closer[k]]

GoesOn(l) ==
  /\ loop[l].pc = "head"
  /\ Goes(l, Head(running, paused, active))
  /\ UNCHANGED <<ready, running, paused, dispatch, active, run>>

(* pop() returns a job: it is started, and the next free slot is filled    *)
(* unless the worker was paused or closed meanwhile.                       *)
PopTakes(l, j, i) ==
  /\ loop[l].pc = "pop" /\ j \in ready /\ i \notin Open
  /\ ready' = ready \ {j}
  /\ active' = active \cup {j}
  /\ run' = [run EXCEPT ![i] = [pc |-> "work", job |-> j]]
  /\ Goes(l, IF loop[l].left > 1 /\ running /\ ~paused
             THEN [pc |-> "pop", left |-> loop[l].left - 1, popped |-> TRUE]
             ELSE Head(running, paused, active'))
  /\ UNCHANGED <<running, paused, dispatch>>

(* pop() returns nothing, or fails.  A loop that took no job sleeps, also  *)
(* when the worker was closed meanwhile.                                   *)
PopMisses(l) ==
  /\ loop[l].pc = "pop"
  /\ Goes(l, IF loop[l].popped THEN Head(running, paused, active) ELSE Asleep)
  /\ UNCHANGED <<ready, running, paused, dispatch, active, run>>

(* The timer of a sleep clears the handles, whosesoever they are.          *)
TimerFires(l) ==
  /\ loop[l].pc = "sleep"
  /\ loop' = [loop EXCEPT ![l].pc = "head"]
  /\ sleeper' = None
  /\ UNCHANGED <<ready, running, paused, dispatch, active, run, closer>>

Woken == IF sleeper = None THEN loop ELSE [loop EXCEPT ![sleeper].pc = "head"]

wakeUp == loop' = Woken /\ sleeper' = None

-----------------------------------------------------------------------------
(* The jobs.                                                               *)

(* Some process pushes j, or a lease or a delay of j runs out.             *)
Arrives(j) ==
  /\ j \notin ready /\ (Overlap \/ j \notin active)
  /\ ready' = ready \cup {j}
  /\ UNCHANGED <<running, paused, loop, dispatch, sleeper, active, run, closer>>

Continues(i, pc) ==
  /\ run' = [run EXCEPT ![i].pc = pc]
  /\ UNCHANGED <<ready, running, paused, loop, dispatch, sleeper, active, closer>>

ProcessorResolves(i) == run[i].pc = "work" /\ Continues(i, "ack")
ProcessorRejects(i)  == run[i].pc = "work" /\ Continues(i, "nack")
AckFails(i)          == run[i].pc = "ack" /\ Continues(i, "nack")

(* Mutant: the entry of the job stays.                                     *)
SettledKeepsEntry(i) ==
  /\ run[i].pc \in {"ack", "nack"}
  /\ active' = active
  /\ run' = [run EXCEPT ![i] = NoRun]
  /\ closer' = [k \in Closers |-> [closer[k] EXCEPT !.runs = @ \ {i}]]
  /\ wakeUp
  /\ UNCHANGED <<ready, running, paused, dispatch>>

(* ack() returns, or nack() returns or fails: the entry of the job goes,   *)
(* and the loop is woken for the free slot.                                *)
Settled(i) ==
  /\ run[i].pc \in {"ack", "nack"}
  /\ active' = active \ {run[i].job}
  /\ run' = [run EXCEPT ![i] = NoRun]
  /\ closer' = [k \in Closers |-> [closer[k] EXCEPT !.runs = @ \ {i}]]
  /\ wakeUp
  /\ UNCHANGED <<ready, running, paused, dispatch>>

-----------------------------------------------------------------------------
(* The calls.                                                              *)

Start(l) ==
  /\ ~running /\ loop[l].pc = "none"
  /\ StartWhileClosing \/ \A k \in Closers : closer[k].pc = "idle"
  /\ running' = TRUE /\ paused' = FALSE
  /\ dispatch' = l
  /\ Goes(l, Head(TRUE, FALSE, active))
  /\ UNCHANGED <<ready, active, run>>

Pause ==
  /\ ~paused
  /\ paused' = TRUE
  /\ UNCHANGED <<ready, running, loop, dispatch, sleeper, active, run, closer>>

Resume ==
  /\ paused
  /\ paused' = FALSE
  /\ wakeUp
  /\ UNCHANGED <<ready, running, dispatch, active, run, closer>>

(* Mutant: only the jobs are awaited, not the loop.                        *)
CloseSkipsLoop(k) ==
  /\ closer[k].pc = "idle"
  /\ IF running
     THEN /\ running' = FALSE /\ paused' = FALSE
          /\ wakeUp
          /\ closer' = [closer EXCEPT ![k] = [pc |-> "loop", loop |-> None, runs |-> {}]]
     ELSE UNCHANGED <<running, paused, loop, sleeper, closer>>
  /\ UNCHANGED <<ready, dispatch, active, run>>

(* close() stops the loop and wakes it, then awaits it; of a worker that   *)
(* is not running, or is being closed, it returns at once.                 *)
Close(k) ==
  /\ closer[k].pc = "idle"
  /\ IF running
     THEN /\ running' = FALSE /\ paused' = FALSE
          /\ wakeUp
          /\ closer' = [closer EXCEPT ![k] = [pc |-> "loop", loop |-> dispatch, runs |-> {}]]
     ELSE UNCHANGED <<running, paused, loop, sleeper, closer>>
  /\ UNCHANGED <<ready, dispatch, active, run>>

(* The loop has ended: the jobs in progress are awaited, if there are any. *)
LoopOver(k) ==
  /\ closer[k].pc = "loop" /\ closer[k].loop = None
  /\ dispatch' = None
  /\ IF Open = {} THEN closer' = [closer EXCEPT ![k] = Idle] /\ active' = {}
     ELSE closer' = [closer EXCEPT ![k].pc = "jobs", ![k].runs = Open] /\ UNCHANGED active
  /\ UNCHANGED <<ready, running, paused, loop, sleeper, run>>

JobsOver(k) ==
  /\ closer[k].pc = "jobs" /\ closer[k].runs = {}
  /\ closer' = [closer EXCEPT ![k] = Idle]
  /\ active' = {}
  /\ UNCHANGED <<ready, running, paused, loop, dispatch, sleeper, run>>

-----------------------------------------------------------------------------
Next ==
  \/ \E l \in Loops :
       \/ GoesOn(l) \/ PopMisses(l) \/ TimerFires(l) \/ Start(l)
       \/ \E j \in Jobs, i \in Runs : PopTakes(l, j, i)
  \/ \E i \in Runs : ProcessorResolves(i) \/ ProcessorRejects(i) \/ AckFails(i) \/ Settled(i)
  \/ \E j \in Jobs : Arrives(j)
  \/ \E k \in Closers : Close(k) \/ LoopOver(k) \/ JobsOver(k)
  \/ Pause \/ Resume

Spec == Init /\ [][Next]_vars

(* The runtime goes on with what it can; a processor ends; a pop() and an  *)
(* ack() or nack() is answered, and a job that is there whenever pop() asks*)
(* is returned at last.                                                    *)
Fairness ==
  /\ \A l \in Loops :
       /\ WF_vars(GoesOn(l)) /\ WF_vars(TimerFires(l))
       /\ WF_vars(PopMisses(l) \/ \E j \in Jobs, i \in Runs : PopTakes(l, j, i))
  /\ \A j \in Jobs : SF_vars(\E l \in Loops, i \in Runs : PopTakes(l, j, i))
  /\ \A i \in Runs :
       /\ WF_vars(ProcessorResolves(i) \/ ProcessorRejects(i))
       /\ WF_vars(Settled(i))
  /\ \A k \in Closers : WF_vars(LoopOver(k) \/ JobsOver(k))

FairSpec == Spec /\ Fairness

-----------------------------------------------------------------------------
(* The variables hold values of their types.                               *)
TypeOK ==
  /\ ready \subseteq Jobs /\ active \subseteq Jobs
  /\ running \in BOOLEAN /\ paused \in BOOLEAN
  /\ loop \in [Loops -> Dispatch] /\ dispatch \in Loops \cup {None}
  /\ sleeper \in Loops \cup {None}
  /\ run \in [Runs -> Run] /\ closer \in [Closers -> Closing]

(* No more than Concurrency processors run at a time, however jobs end,    *)
(* fail and are taken while pop() is awaited.                              *)
ConcurrencyKept == Cardinality(Open) <= Concurrency

(* When close() returns after it stopped the worker, no loop is left and   *)
(* no job is in progress, those taken while it waited included.            *)
ClosedIsStopped ==
  [][\A k \in Closers :
       closer[k].pc # "idle" /\ closer'[k].pc = "idle" =>
         Open' = {} /\ \A l \in Loops : loop'[l].pc = "none"]_vars

(* A worker that runs takes every job that becomes ready: a wake-up that   *)
(* is lost, or a slot that stays taken until a job is settled, delays it,  *)
(* and no more.                                                            *)
JobsTaken ==
  \A j \in Jobs : (j \in ready /\ running /\ ~paused) ~> (j \notin ready \/ ~running \/ paused)

=============================================================================
