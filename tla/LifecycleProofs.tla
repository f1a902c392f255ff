-------------------------- MODULE LifecycleProofs --------------------------
(***************************************************************************)
(* The worker and the life of the KVDB that has it.                        *)
(*                                                                         *)
(* First the slots of Worker and what its close() promises, for any number *)
(* of jobs, slots and callers, as long as start() waits for close().  That *)
(* no more processors run than there are slots needs, besides, that the    *)
(* queue never hands out a job that is still in progress here.             *)
(*                                                                         *)
(* Then what close() of the KVDB promises, for any number of connections,  *)
(* writes and callers, to a program that keeps to Orderly.                 *)
(***************************************************************************)
EXTENDS Lifecycle, TLAPS, FiniteSetTheorems

(* The entries of activeJobs are counted.                                  *)
Counted == IsFiniteSet(active)

(* There is one loop at most, the one that close() would await; when the   *)
(* worker was stopped, somebody awaits it.                                 *)
LoopAlone ==
  \A l \in Loops : loop[l].pc # "none" =>
    /\ l = dispatch
    /\ ~running => \E k \in Closers : closer[k].pc = "loop" /\ closer[k].loop = l

(* Only a worker that was stopped is being closed, by one caller.          *)
CloserAlone ==
  \A k \in Closers : closer[k].pc # "idle" =>
    ~running /\ \A m \in Closers : closer[m].pc # "idle" => m = k

(* Who awaits the jobs awaits all of them.                                 *)
JobsAwaited == \A k \in Closers : closer[k].pc = "jobs" => Open \subseteq closer[k].runs

(* The loop that would be woken sleeps.                                    *)
SleeperSleeps == sleeper # None => loop[sleeper].pc = "sleep"

(* A loop that fills slots has as many of them to fill as are free.        *)
SlotsKept ==
  /\ Cardinality(active) <= Concurrency
  /\ \A l \in Loops : loop[l].pc = "pop" =>
       loop[l].left >= 1 /\ Cardinality(active) + loop[l].left <= Concurrency

Control == LoopAlone /\ CloserAlone /\ JobsAwaited /\ SleeperSleeps

(* The inductive invariant.                                                *)
Inv == TypeOK /\ Counted /\ Control /\ SlotsKept

(* Every job in progress has an entry and a promise of its own.            *)
OneRunEach ==
  /\ \A i \in Open : run[i].job \in active
  /\ \A i, m \in Open : run[i].job = run[m].job => i = m
  /\ ready \cap active = {}

-----------------------------------------------------------------------------
(* What the head of the loop decides.                                      *)
LEMMA HeadDecides ==
  ASSUME NEW r \in BOOLEAN, NEW p \in BOOLEAN, NEW jobs, IsFiniteSet(jobs)
  PROVE  /\ Head(r, p, jobs) \in Dispatch
         /\ Head(r, p, jobs).pc \in {"none", "sleep", "pop"}
         /\ Head(r, p, jobs).pc = "none" <=> ~r
         /\ Head(r, p, jobs).pc = "pop" =>
              /\ Head(r, p, jobs).left >= 1
              /\ Cardinality(jobs) + Head(r, p, jobs).left <= Concurrency
<1>1. Cardinality(jobs) \in Nat /\ Concurrency \in Nat
  BY FS_CardinalityType, WorkerAssumption
<1> QED
  BY <1>1 DEF Head, NoLoop, Asleep, Dispatch

(* A loop that goes on leaves the types alone.                             *)
LEMMA GoesTypes ==
  ASSUME TypeOK, NEW l \in Loops, NEW next \in Dispatch, Goes(l, next)
  PROVE  /\ loop' \in [Loops -> Dispatch] /\ sleeper' \in Loops \cup {None}
         /\ closer' \in [Closers -> Closing]
<1>1. \A k \in Closers : [closer[k] EXCEPT !.loop = None] \in Closing
  BY DEF TypeOK, Closing
<1> QED
  BY <1>1 DEF Goes, TypeOK

(* A loop that goes on, and ends only when the worker was stopped.         *)
LEMMA GoesControl ==
  ASSUME TypeOK, Control, NEW l \in Loops, NEW next \in Dispatch, Goes(l, next),
         loop[l].pc \in {"head", "pop"}, next.pc = "none" => ~running,
         UNCHANGED <<running, dispatch>>
  PROVE  Control'
<1> USE WorkerAssumption DEF TypeOK, Control
<1>1. /\ loop' = [loop EXCEPT ![l] = next]
      /\ \A k \in Closers : /\ closer'[k].pc = closer[k].pc /\ closer'[k].runs = closer[k].runs
                            /\ closer'[k].loop = IF next.pc = "none" /\ closer[k].loop = l
                                                 THEN None ELSE closer[k].loop
  BY DEF Goes, Closing
<1>2. l = dispatch /\ \A m \in Loops : loop[m].pc # "none" => m = l
  BY DEF LoopAlone
<1>3. \A k \in Closers : closer[k].pc # "jobs"
  BY DEF LoopAlone, CloserAlone
<1>4. LoopAlone'
  <2> SUFFICES ASSUME NEW m \in Loops, loop'[m].pc # "none"
               PROVE  /\ m = dispatch
                      /\ ~running => \E k \in Closers : closer'[k].pc = "loop" /\ closer'[k].loop = m
    BY DEF LoopAlone
  <2>1. m = l /\ next.pc # "none"
    BY <1>1, <1>2
  <2> QED
    BY <1>1, <1>2, <2>1 DEF LoopAlone
<1>5. CloserAlone'
  BY <1>1 DEF CloserAlone
<1>6. JobsAwaited'
  BY <1>1, <1>3 DEF JobsAwaited
<1>7. SleeperSleeps'
  BY <1>1, <1>2 DEF SleeperSleeps, Goes, Dispatch
<1> QED
  BY <1>4, <1>5, <1>6, <1>7

(* Waking the loop changes nothing but that it is awake.                   *)
LEMMA WakingKeeps ==
  ASSUME TypeOK, wakeUp
  PROVE  /\ loop' \in [Loops -> Dispatch] /\ sleeper' = None
         /\ SleeperSleeps =>
              \A l \in Loops : /\ loop'[l].pc = "none" <=> loop[l].pc = "none"
                               /\ loop'[l].pc = "pop" => loop'[l] = loop[l]
BY DEF TypeOK, wakeUp, Woken, SleeperSleeps, Dispatch

-----------------------------------------------------------------------------
(* The types survive every step, and the entries stay countable.           *)
LEMMA TypeStep == Inv /\ [Next]_vars => TypeOK' /\ Counted'
<1> SUFFICES ASSUME Inv, [Next]_vars PROVE TypeOK' /\ Counted'
  OBVIOUS
<1> USE WorkerAssumption DEF Inv, TypeOK, Counted
<1>0. CASE UNCHANGED vars
  BY <1>0 DEF vars
<1>1. ASSUME NEW l \in Loops, GoesOn(l) PROVE TypeOK' /\ Counted'
  <2>1. Head(running, paused, active) \in Dispatch
    BY HeadDecides
  <2> QED
    BY <1>1, <2>1, GoesTypes DEF GoesOn
<1>2. ASSUME NEW l \in Loops, NEW j \in Jobs, NEW i \in Runs, PopTakes(l, j, i)
      PROVE  TypeOK' /\ Counted'
  <2>1. IsFiniteSet(active') /\ active' \subseteq Jobs
    BY <1>2, FS_AddElement DEF PopTakes
  <2>2. Head(running, paused, active') \in Dispatch
    BY <2>1, HeadDecides
  <2>3. loop[l].left > 1 => [pc |-> "pop", left |-> loop[l].left - 1, popped |-> TRUE] \in Dispatch
    BY DEF Dispatch
  <2>4. [pc |-> "work", job |-> j] \in Run
    BY DEF Run
  <2>5. \E next \in Dispatch : Goes(l, next)
    BY <1>2, <2>2, <2>3 DEF PopTakes
  <2>6. /\ loop' \in [Loops -> Dispatch] /\ sleeper' \in Loops \cup {None}
        /\ closer' \in [Closers -> Closing]
    BY <2>5, GoesTypes
  <2> QED
    BY <1>2, <2>1, <2>4, <2>6 DEF PopTakes
<1>3. ASSUME NEW l \in Loops, PopMisses(l) PROVE TypeOK' /\ Counted'
  <2>1. Head(running, paused, active) \in Dispatch /\ Asleep \in Dispatch
    BY HeadDecides DEF Asleep, Dispatch
  <2>2. \E next \in Dispatch : Goes(l, next)
    BY <1>3, <2>1 DEF PopMisses
  <2> QED
    BY <1>3, <2>2, GoesTypes DEF PopMisses
<1>4. ASSUME NEW l \in Loops, TimerFires(l) PROVE TypeOK' /\ Counted'
  BY <1>4 DEF TimerFires, Dispatch
<1>5. ASSUME NEW l \in Loops, Start(l) PROVE TypeOK' /\ Counted'
  <2>1. Head(TRUE, FALSE, active) \in Dispatch
    BY HeadDecides
  <2> QED
    BY <1>5, <2>1, GoesTypes DEF Start
<1>6. ASSUME NEW i \in Runs, ProcessorResolves(i) \/ ProcessorRejects(i) \/ AckFails(i)
      PROVE  TypeOK' /\ Counted'
  BY <1>6 DEF ProcessorResolves, ProcessorRejects, AckFails, Continues, Run
<1>7. ASSUME NEW i \in Runs, Settled(i) PROVE TypeOK' /\ Counted'
  <2>1. IsFiniteSet(active') /\ active' \subseteq Jobs
    BY <1>7, FS_RemoveElement DEF Settled
  <2>2. NoRun \in Run
    BY DEF NoRun, Run
  <2>3. \A k \in Closers : [closer[k] EXCEPT !.runs = @ \ {i}] \in Closing
    BY DEF Closing
  <2> QED
    BY <1>7, <2>1, <2>2, <2>3, WakingKeeps DEF Settled
<1>8. ASSUME NEW j \in Jobs, Arrives(j) PROVE TypeOK' /\ Counted'
  BY <1>8 DEF Arrives
<1>9. CASE Pause
  BY <1>9 DEF Pause
<1>10. CASE Resume
  BY <1>10, WakingKeeps DEF Resume
<1>11. ASSUME NEW k \in Closers, Close(k) PROVE TypeOK' /\ Counted'
  <2>1. [pc |-> "loop", loop |-> dispatch, runs |-> {}] \in Closing
    BY DEF Closing
  <2> QED
    BY <1>11, <2>1, WakingKeeps DEF Close
<1>12. ASSUME NEW k \in Closers, LoopOver(k) \/ JobsOver(k) PROVE TypeOK' /\ Counted'
  <2>1. Idle \in Closing /\ [closer[k] EXCEPT !.pc = "jobs", !.runs = Open] \in Closing
    BY DEF Idle, Closing, Open
  <2>2. \/ closer' = [closer EXCEPT ![k] = Idle]
        \/ closer' = [closer EXCEPT ![k] = [closer[k] EXCEPT !.pc = "jobs", !.runs = Open]]
    BY <1>12 DEF LoopOver, JobsOver, Closing
  <2>3. closer' \in [Closers -> Closing]
    BY <2>1, <2>2
  <2>4. active' \in {active, {}} /\ IsFiniteSet({})
    BY <1>12, FS_EmptySet DEF LoopOver, JobsOver
  <2> QED
    BY <1>12, <2>3, <2>4 DEF LoopOver, JobsOver
<1> QED
  BY <1>0, <1>1, <1>2, <1>3, <1>4, <1>5, <1>6, <1>7, <1>8, <1>9, <1>10, <1>11, <1>12 DEF Next

(* One loop, one caller of close(), as long as start() waits for it.       *)
LEMMA ControlStep == ~StartWhileClosing /\ Inv /\ [Next]_vars => Control'
<1> SUFFICES ASSUME ~StartWhileClosing, Inv, [Next]_vars PROVE Control'
  OBVIOUS
<1> USE WorkerAssumption DEF Inv
<1>0. CASE UNCHANGED vars
  BY <1>0 DEF vars, Control, LoopAlone, CloserAlone, JobsAwaited, SleeperSleeps, Open
<1>1. ASSUME NEW l \in Loops, GoesOn(l) PROVE Control'
  <2>1. running \in BOOLEAN /\ paused \in BOOLEAN
    BY DEF TypeOK
  <2> QED
    BY <1>1, <2>1, HeadDecides, GoesControl DEF GoesOn, Counted
<1>2. ASSUME NEW l \in Loops, NEW j \in Jobs, NEW i \in Runs, PopTakes(l, j, i) PROVE Control'
  <2>1. IsFiniteSet(active') /\ running \in BOOLEAN /\ paused \in BOOLEAN
    BY <1>2, FS_AddElement DEF PopTakes, Counted, TypeOK
  <2>2. loop[l].left > 1 => [pc |-> "pop", left |-> loop[l].left - 1, popped |-> TRUE] \in Dispatch
    BY DEF Dispatch, TypeOK
  <2>3. \E next \in Dispatch : Goes(l, next) /\ (next.pc = "none" => ~running)
    BY <1>2, <2>1, <2>2, HeadDecides DEF PopTakes
  <2> QED
    BY <1>2, <2>3, GoesControl DEF PopTakes
<1>3. ASSUME NEW l \in Loops, PopMisses(l) PROVE Control'
  <2>1. running \in BOOLEAN /\ paused \in BOOLEAN /\ Asleep \in Dispatch /\ Asleep.pc = "sleep"
    BY DEF TypeOK, Asleep, Dispatch
  <2>2. \E next \in Dispatch : Goes(l, next) /\ (next.pc = "none" => ~running)
    BY <1>3, <2>1, HeadDecides DEF PopMisses, Counted
  <2> QED
    BY <1>3, <2>2, GoesControl DEF PopMisses
<1> USE DEF Control, LoopAlone, CloserAlone, JobsAwaited, SleeperSleeps
<1>4. ASSUME NEW l \in Loops, TimerFires(l) PROVE Control'
  BY <1>4 DEF TimerFires, Open, TypeOK
<1>5. ASSUME NEW l \in Loops, Start(l) PROVE Control'
  <2>1. /\ \A k \in Closers : closer[k].pc = "idle"
        /\ \A m \in Loops : loop[m].pc = "none"
    BY <1>5 DEF Start
  <2>2. Head(TRUE, FALSE, active) \in Dispatch /\ Head(TRUE, FALSE, active).pc # "none"
    BY HeadDecides DEF Counted
  <2>3. closer' = closer /\ loop' = [loop EXCEPT ![l] = Head(TRUE, FALSE, active)]
    BY <1>5, <2>2 DEF Start, Goes
  <2>4. SleeperSleeps'
    BY <1>5, <2>1, <2>3 DEF Start, Goes, TypeOK
  <2> QED
    BY <1>5, <2>1, <2>3, <2>4 DEF Start, TypeOK
<1>6. ASSUME NEW i \in Runs, ProcessorResolves(i) \/ ProcessorRejects(i) \/ AckFails(i)
      PROVE  Control'
  <2>1. Open' = Open
    BY <1>6 DEF ProcessorResolves, ProcessorRejects, AckFails, Continues, Open, TypeOK, Run
  <2> QED
    BY <1>6, <2>1 DEF ProcessorResolves, ProcessorRejects, AckFails, Continues
<1>7. ASSUME NEW i \in Runs, Settled(i) PROVE Control'
  <2>1. Open' = Open \ {i}
    BY <1>7 DEF Settled, Open, TypeOK, Run, NoRun
  <2>2. \A k \in Closers : /\ closer'[k].pc = closer[k].pc /\ closer'[k].loop = closer[k].loop
                           /\ closer'[k].runs = closer[k].runs \ {i}
    BY <1>7 DEF Settled, TypeOK, Closing
  <2>3. running' = running /\ dispatch' = dispatch
    BY <1>7 DEF Settled
  <2>4. sleeper' = None /\ \A l \in Loops : loop'[l].pc = "none" <=> loop[l].pc = "none"
    BY <1>7, WakingKeeps DEF Settled
  <2>5. LoopAlone'
    BY <2>2, <2>3, <2>4
  <2>6. CloserAlone' /\ JobsAwaited'
    BY <2>1, <2>2, <2>3
  <2> QED
    BY <2>4, <2>5, <2>6
<1>8. ASSUME NEW j \in Jobs, Arrives(j) PROVE Control'
  BY <1>8 DEF Arrives, Open
<1>9. CASE Pause
  BY <1>9 DEF Pause, Open
<1>10. CASE Resume
  <2>1. sleeper' = None /\ \A l \in Loops : loop'[l].pc = "none" <=> loop[l].pc = "none"
    BY <1>10, WakingKeeps DEF Resume
  <2> QED
    BY <1>10, <2>1 DEF Resume, Open
<1>11. ASSUME NEW k \in Closers, Close(k) PROVE Control'
  <2>1. CASE running
    <3>1. sleeper' = None /\ \A l \in Loops : loop'[l].pc = "none" <=> loop[l].pc = "none"
      BY <1>11, <2>1, WakingKeeps DEF Close
    <3>2. /\ \A m \in Closers : m # k => closer'[m].pc = "idle"
          /\ closer'[k].pc = "loop" /\ closer'[k].loop = dispatch
      BY <1>11, <2>1 DEF Close, TypeOK
    <3>3. running' = FALSE /\ dispatch' = dispatch /\ Open' = Open
      BY <1>11, <2>1 DEF Close, Open
    <3> QED
      BY <3>1, <3>2, <3>3
  <2>2. CASE ~running
    BY <1>11, <2>2 DEF Close, Open
  <2> QED
    BY <2>1, <2>2
<1>12. ASSUME NEW k \in Closers, LoopOver(k) \/ JobsOver(k) PROVE Control'
  <2>1. /\ ~running /\ \A m \in Closers : m # k => closer[m].pc = "idle"
        /\ \A l \in Loops : loop[l].pc = "none"
    BY <1>12 DEF LoopOver, JobsOver, TypeOK
  <2>2. /\ running' = running /\ loop' = loop /\ sleeper' = sleeper /\ Open' = Open
        /\ \A m \in Closers : m # k => closer'[m] = closer[m]
        /\ closer'[k].pc = "jobs" => closer'[k].runs = Open
    BY <1>12 DEF LoopOver, JobsOver, Open, Idle, TypeOK, Closing
  <2> QED
    BY <2>1, <2>2
<1> QED
  BY <1>0, <1>1, <1>2, <1>3, <1>4, <1>5, <1>6, <1>7, <1>8, <1>9, <1>10, <1>11, <1>12 DEF Next

(* No loop has more slots to fill than are free.                           *)
LEMMA SlotsStep == Inv /\ [Next]_vars /\ TypeOK' => SlotsKept'
<1> SUFFICES ASSUME Inv, [Next]_vars, TypeOK' PROVE SlotsKept'
  OBVIOUS
<1> USE WorkerAssumption DEF Inv, SlotsKept
<1>a. /\ IsFiniteSet(active) /\ Cardinality(active) \in Nat /\ Concurrency \in Nat
      /\ running \in BOOLEAN /\ paused \in BOOLEAN
      /\ \A l \in Loops : loop[l].left \in Nat
  BY FS_CardinalityType DEF Counted, TypeOK, Dispatch
<1>0. CASE UNCHANGED vars
  BY <1>0 DEF vars
<1>1. ASSUME NEW l \in Loops, GoesOn(l) PROVE SlotsKept'
  <2>1. active' = active /\ loop' = [loop EXCEPT ![l] = Head(running, paused, active)]
    BY <1>1 DEF GoesOn, Goes
  <2> QED
    BY <1>a, <2>1, HeadDecides DEF TypeOK
<1>2. ASSUME NEW l \in Loops, NEW j \in Jobs, NEW i \in Runs, PopTakes(l, j, i) PROVE SlotsKept'
  <2>1. \A m \in Loops : m # l => loop[m].pc = "none"
    BY <1>2 DEF PopTakes, Control, LoopAlone
  <2>2. /\ IsFiniteSet(active') /\ Cardinality(active') \in Nat
        /\ Cardinality(active') <= Cardinality(active) + 1
    <3>1. active' = active \cup {j}
      BY <1>2 DEF PopTakes
    <3>2. IsFiniteSet(active')
      BY <1>a, <3>1, FS_AddElement
    <3>3. /\ Cardinality(active') \in Nat
          /\ Cardinality(active') = Cardinality(active) + 1 \/ Cardinality(active') = Cardinality(active)
      BY <1>a, <3>1, <3>2, FS_AddElement, FS_CardinalityType
    <3> QED
      BY <1>a, <3>2, <3>3
  <2>3. /\ loop[l].left >= 1 /\ Cardinality(active) + loop[l].left <= Concurrency
        /\ loop[l].left \in Nat
    BY <1>2, <1>a DEF PopTakes
  <2>4. CASE loop[l].left > 1 /\ running /\ ~paused
    <3>1. loop' = [loop EXCEPT ![l] = [pc |-> "pop", left |-> loop[l].left - 1, popped |-> TRUE]]
      BY <1>2, <2>4 DEF PopTakes, Goes
    <3> QED
      BY <1>a, <2>1, <2>2, <2>3, <2>4, <3>1 DEF TypeOK
  <2>5. CASE ~(loop[l].left > 1 /\ running /\ ~paused)
    <3>1. loop' = [loop EXCEPT ![l] = Head(running, paused, active')]
      BY <1>2, <2>5 DEF PopTakes, Goes
    <3>2. Head(running, paused, active').pc = "pop" =>
            /\ Head(running, paused, active').left >= 1
            /\ Cardinality(active') + Head(running, paused, active').left <= Concurrency
      BY <1>a, <2>2, HeadDecides
    <3> QED
      BY <1>a, <2>1, <2>2, <2>3, <3>1, <3>2 DEF TypeOK
  <2> QED
    BY <2>4, <2>5
<1>3. ASSUME NEW l \in Loops, PopMisses(l) PROVE SlotsKept'
  <2>1. active' = active
    BY <1>3 DEF PopMisses
  <2>2. loop' = [loop EXCEPT ![l] = Head(running, paused, active)] \/ loop' = [loop EXCEPT ![l] = Asleep]
    BY <1>3 DEF PopMisses, Goes
  <2> QED
    BY <1>a, <2>1, <2>2, HeadDecides DEF TypeOK, Asleep
<1>4. ASSUME NEW l \in Loops, TimerFires(l) PROVE SlotsKept'
  BY <1>4 DEF TimerFires, TypeOK, Dispatch
<1>5. ASSUME NEW l \in Loops, Start(l) PROVE SlotsKept'
  <2>1. active' = active /\ loop' = [loop EXCEPT ![l] = Head(TRUE, FALSE, active)]
    BY <1>5 DEF Start, Goes
  <2> QED
    BY <1>a, <2>1, HeadDecides DEF TypeOK
<1>6. ASSUME NEW i \in Runs, ProcessorResolves(i) \/ ProcessorRejects(i) \/ AckFails(i)
      PROVE  SlotsKept'
  BY <1>6 DEF ProcessorResolves, ProcessorRejects, AckFails, Continues
<1>7. ASSUME NEW i \in Runs, Settled(i) PROVE SlotsKept'
  <2>1. Cardinality(active') \in Nat /\ Cardinality(active') <= Cardinality(active)
    <3>1. active' = active \ {run[i].job}
      BY <1>7 DEF Settled
    <3>2. IsFiniteSet(active')
      BY <1>a, <3>1, FS_RemoveElement
    <3>3. /\ Cardinality(active') \in Nat
          /\ Cardinality(active') = Cardinality(active) - 1 \/ Cardinality(active') = Cardinality(active)
      BY <1>a, <3>1, <3>2, FS_RemoveElement, FS_CardinalityType
    <3> QED
      BY <1>a, <3>3
  <2>2. \A l \in Loops : loop'[l].pc = "pop" => loop'[l] = loop[l]
    BY <1>7, WakingKeeps DEF Settled, Control
  <2> QED
    BY <1>a, <2>1, <2>2
<1>8. ASSUME NEW j \in Jobs, Arrives(j) PROVE SlotsKept'
  BY <1>8 DEF Arrives
<1>9. CASE Pause
  BY <1>9 DEF Pause
<1>10. CASE Resume
  <2>1. \A l \in Loops : loop'[l].pc = "pop" => loop'[l] = loop[l]
    BY <1>10, WakingKeeps DEF Resume, Control
  <2> QED
    BY <1>10, <2>1 DEF Resume
<1>11. ASSUME NEW k \in Closers, Close(k) PROVE SlotsKept'
  <2>1. \A l \in Loops : loop'[l].pc = "pop" => loop'[l] = loop[l]
    BY <1>11, WakingKeeps DEF Close, Control
  <2> QED
    BY <1>11, <2>1 DEF Close
<1>12. ASSUME NEW k \in Closers, LoopOver(k) \/ JobsOver(k) PROVE SlotsKept'
  <2>1. loop' = loop /\ active' \in {active, {}} /\ Cardinality({}) = 0
    BY <1>12, FS_EmptySet DEF LoopOver, JobsOver
  <2> QED
    BY <1>a, <2>1
<1> QED
  BY <1>0, <1>1, <1>2, <1>3, <1>4, <1>5, <1>6, <1>7, <1>8, <1>9, <1>10, <1>11, <1>12 DEF Next

(* A worker that was made and not started has no loop, job or caller.      *)
LEMMA WorkerBegins == Init => Inv
<1> SUFFICES ASSUME Init PROVE Inv
  OBVIOUS
<1>1. IsFiniteSet({}) /\ Cardinality({}) = 0
  BY FS_EmptySet
<1>2. NoLoop \in Dispatch /\ NoRun \in Run /\ Idle \in Closing
  BY WorkerAssumption DEF NoLoop, NoRun, Idle, Dispatch, Run, Closing
<1>3. TypeOK /\ Counted
  BY <1>1, <1>2 DEF Init, TypeOK, Counted
<1>4. Control
  BY DEF Init, Control, LoopAlone, CloserAlone, JobsAwaited, SleeperSleeps, NoLoop, Idle
<1>5. SlotsKept
  BY <1>1, WorkerAssumption DEF Init, SlotsKept, NoLoop
<1> QED
  BY <1>3, <1>4, <1>5 DEF Inv

(* The inductive invariant of the worker.                                  *)
THEOREM WorkerInvariance == ASSUME ~StartWhileClosing PROVE Spec => []Inv
<1>1. Inv /\ [Next]_vars => Inv'
  BY TypeStep, ControlStep, SlotsStep DEF Inv
<1> QED
  BY <1>1, WorkerBegins, PTL DEF Spec

(* The variables hold values of their types.                               *)
THEOREM WorkerTypes == ASSUME ~StartWhileClosing PROVE Spec => []TypeOK
<1>1. Inv => TypeOK
  BY DEF Inv
<1> QED
  BY <1>1, WorkerInvariance, PTL

(* Who returns from close() leaves no loop and no job behind.              *)
LEMMA CloserReturns ==
  ASSUME Inv, [Next]_vars, NEW k \in Closers, closer[k].pc # "idle", closer'[k].pc = "idle"
  PROVE  Open' = {} /\ \A l \in Loops : loop'[l].pc = "none"
<1> USE WorkerAssumption DEF Inv, TypeOK
<1>1. ASSUME NEW l \in Loops, NEW next, Goes(l, next) PROVE FALSE
  BY <1>1 DEF Goes, Closing
<1>2. \A i \in Runs : ~Settled(i)
  BY DEF Settled, Closing
<1>3. \A m \in Closers : ~Close(m)
  BY DEF Close, Control, CloserAlone
<1>4. PICK m \in Closers : LoopOver(m) \/ JobsOver(m)
  BY <1>1, <1>2, <1>3
     DEF Next, vars, GoesOn, PopTakes, PopMisses, TimerFires, Start, ProcessorResolves,
         ProcessorRejects, AckFails, Continues, Arrives, Pause, Resume
<1>5. m = k
  BY <1>4 DEF LoopOver, JobsOver
<1>6. \A l \in Loops : loop[l].pc = "none"
  BY <1>4, <1>5 DEF LoopOver, JobsOver, Control, LoopAlone, CloserAlone
<1>7. Open = {}
  BY <1>4, <1>5 DEF LoopOver, JobsOver, Control, JobsAwaited, Closing
<1> QED
  BY <1>4, <1>6, <1>7 DEF LoopOver, JobsOver, Open

(* close() awaits the loop and all that the loop has started, the job that *)
(* a pop() brought after the call included.                                *)
THEOREM CloseStops == ASSUME ~StartWhileClosing PROVE Spec => ClosedIsStopped
<1>1. Inv /\ [Next]_vars =>
        [\A k \in Closers :
           closer[k].pc # "idle" /\ closer'[k].pc = "idle" =>
             Open' = {} /\ \A l \in Loops : loop'[l].pc = "none"]_vars
  BY CloserReturns
<1> QED
  BY <1>1, WorkerInvariance, PTL DEF Spec, ClosedIsStopped

-----------------------------------------------------------------------------
(* A promise is opened with an entry of its own and closed with it.        *)
LEMMA RunsStep == ~Overlap /\ Inv /\ OneRunEach /\ [Next]_vars => OneRunEach'
<1> SUFFICES ASSUME ~Overlap, Inv, OneRunEach, [Next]_vars PROVE OneRunEach'
  OBVIOUS
<1> USE DEF Inv, TypeOK, OneRunEach
<1>0. CASE UNCHANGED <<ready, active, run>>
  BY <1>0 DEF Open
<1>1. ASSUME NEW l \in Loops, NEW j \in Jobs, NEW i \in Runs, PopTakes(l, j, i) PROVE OneRunEach'
  <2>1. /\ ready' = ready \ {j} /\ active' = active \cup {j}
        /\ Open' = Open \cup {i} /\ i \notin Open /\ j \notin active
    BY <1>1 DEF PopTakes, Open
  <2>2. run'[i].job = j /\ \A m \in Open : run'[m] = run[m]
    BY <1>1, <2>1 DEF PopTakes, Open
  <2> QED
    BY <2>1, <2>2
<1>2. ASSUME NEW i \in Runs, ProcessorResolves(i) \/ ProcessorRejects(i) \/ AckFails(i)
      PROVE  OneRunEach'
  <2>1. Open' = Open /\ \A m \in Runs : run'[m].job = run[m].job
    BY <1>2 DEF ProcessorResolves, ProcessorRejects, AckFails, Continues, Open, Run
  <2> QED
    BY <1>2, <2>1 DEF ProcessorResolves, ProcessorRejects, AckFails, Continues, Open
<1>3. ASSUME NEW i \in Runs, Settled(i) PROVE OneRunEach'
  <2>1. /\ Open' = Open \ {i} /\ i \in Open /\ ready' = ready /\ active' = active \ {run[i].job}
        /\ \A m \in Open' : run'[m] = run[m]
    BY <1>3 DEF Settled, Open, Run, NoRun
  <2> QED
    BY <2>1
<1>4. ASSUME NEW j \in Jobs, Arrives(j) PROVE OneRunEach'
  BY <1>4 DEF Arrives, Open
<1>5. ASSUME NEW k \in Closers, LoopOver(k) \/ JobsOver(k) PROVE OneRunEach'
  <2>1. ready' = ready /\ run' = run /\ (active' = active \/ (active' = {} /\ Open = {}))
    BY <1>5 DEF LoopOver, JobsOver, Control, JobsAwaited
  <2> QED
    BY <2>1 DEF Open
<1> QED
  BY <1>0, <1>1, <1>2, <1>3, <1>4, <1>5
     DEF Next, vars, GoesOn, PopMisses, TimerFires, Start, Close, Pause, Resume

(* The processors that run are no more than the entries, which are no more *)
(* than the slots.                                                         *)
THEOREM SlotsHold ==
  ASSUME ~Overlap, ~StartWhileClosing PROVE Spec => []ConcurrencyKept
<1>1. Init => OneRunEach
  BY DEF Init, OneRunEach, Open, NoRun
<1>2. Inv /\ OneRunEach => ConcurrencyKept
  <2> SUFFICES ASSUME Inv, OneRunEach PROVE ConcurrencyKept
    OBVIOUS
  <2> DEFINE job == [i \in Open |-> run[i].job]
  <2>1. job \in Injection(Open, active)
    BY DEF Injection, IsInjective, OneRunEach
  <2>2. IsFiniteSet(Open) /\ Cardinality(Open) <= Cardinality(active)
    BY <2>1, FS_Injection DEF Inv, Counted
  <2>3. Cardinality(Open) \in Nat /\ Cardinality(active) \in Nat /\ Concurrency \in Nat
    BY <2>2, FS_CardinalityType, WorkerAssumption DEF Inv, Counted
  <2> QED
    BY <2>2, <2>3 DEF Inv, SlotsKept, ConcurrencyKept
<1> QED
  BY <1>1, <1>2, RunsStep, WorkerInvariance, PTL DEF Spec

-----------------------------------------------------------------------------
(* The life cycle                                                          *)

(* The program does not call while close() runs, does not start again what *)
(* it has closed, and no heartbeat outlives its job.                       *)
Orderly == ~StartWhileClosing /\ ~BeatOverlaps /\ ~LateCalls /\ ~Restarts

Unclosing == \A k \in Closers : closer[k].pc = "idle"
Stopped   == Open = {} /\ \A l \in Loops : loop[l].pc = "none"

(* A worker that neither runs nor is being closed has no loop and no job.  *)
Gone == ~running /\ Unclosing => Stopped

(* activeWorkers has the worker while it runs or is being closed.          *)
Listed == registered <=> running \/ ~Unclosing

(* One close() is under way at a time, and the worker is stopped first.    *)
InOrder ==
  \A k \in Closers : closing[k].pc # "idle" =>
    /\ ~running
    /\ \A m \in Closers : m # k => closing[m].pc = "idle" /\ closer[m].pc = "idle"
    /\ closing[k].pc # "workers" => closer[k].pc = "idle"

(* Then the buffer is emptied: what is in it was there when flush() began. *)
Emptied ==
  \A k \in Closers :
    /\ closing[k].pc = "flush" => Buffered \subseteq closing[k].awaits
    /\ closing[k].pc \in {"caches", "driver"} => Buffered = {}

(* Who has got a connection awaits an answer.                              *)
Held ==
  /\ \A l \in Loops : holds[<<"pop", l>>] # None => loop[l].pc = "pop"
  /\ \A i \in Runs : holds[<<"job", i>>] # None => run[i].pc \in {"ack", "nack"}
  /\ \A i \in Runs : holds[<<"beat", i>>] # None => beat[i] # "none"
  /\ holds[Batch] # None => Flying # {}

BeatsWork == \A i \in Runs : beat[i] # "none" => run[i].pc = "work"

(* There is one connection that is not over: the one driverPromise is for, *)
(* or, when there is none such, the one that is being closed.              *)
Linked ==
  /\ promise # None => conn[promise] \in {"connecting", "open"}
  /\ \A k \in Closers : closing[k].conn # None <=> closing[k].pc = "driver"
  /\ \A k \in Closers : closing[k].pc = "driver" => promise = None
  /\ NoOrphan /\ NothingCutOff

(* A KVDB at rest has been closed to the end, and nobody has called since. *)
Rested ==
  resting => /\ ~running /\ Unclosing /\ Buffered = {} /\ promise = None
             /\ \A k \in Closers : closing[k].pc = "idle"

Order   == Gone /\ Listed /\ InOrder /\ Rested
Storage == Held /\ BeatsWork /\ Emptied /\ Linked

(* The inductive invariant.                                                *)
LifeInv == Inv /\ LifeTypeOK /\ Order /\ Storage

(* The steps of the worker between its calls move neither isRunning nor    *)
(* the callers of close().                                                 *)
LEMMA CallersStay ==
  ASSUME TypeOK,
         \/ \E l \in Loops : GoesOn(l) \/ TimerFires(l) \/ PopMisses(l)
         \/ \E l \in Loops, j \in Jobs, i \in Runs : PopTakes(l, j, i)
         \/ \E i \in Runs : ProcessorResolves(i) \/ ProcessorRejects(i) \/ AckFails(i) \/ Settled(i)
         \/ \E j \in Jobs : Arrives(j)
         \/ Pause \/ Resume
  PROVE  running' = running /\ \A k \in Closers : closer'[k].pc = closer[k].pc
<1>1. ASSUME NEW l \in Loops, NEW next, Goes(l, next)
      PROVE  \A k \in Closers : closer'[k].pc = closer[k].pc
  BY <1>1 DEF Goes, TypeOK, Closing
<1>2. ASSUME NEW l \in Loops, GoesOn(l) \/ TimerFires(l) \/ PopMisses(l)
      PROVE  running' = running /\ \A k \in Closers : closer'[k].pc = closer[k].pc
  BY <1>1, <1>2 DEF GoesOn, TimerFires, PopMisses
<1>3. ASSUME NEW l \in Loops, NEW j \in Jobs, NEW i \in Runs, PopTakes(l, j, i)
      PROVE  running' = running /\ \A k \in Closers : closer'[k].pc = closer[k].pc
  BY <1>1, <1>3 DEF PopTakes
<1>4. ASSUME NEW i \in Runs, ProcessorResolves(i) \/ ProcessorRejects(i) \/ AckFails(i)
      PROVE  running' = running /\ \A k \in Closers : closer'[k].pc = closer[k].pc
  BY <1>4 DEF ProcessorResolves, ProcessorRejects, AckFails, Continues
<1>5. ASSUME NEW i \in Runs, Settled(i)
      PROVE  running' = running /\ \A k \in Closers : closer'[k].pc = closer[k].pc
  BY <1>5 DEF Settled, TypeOK, Closing
<1>6. ASSUME (\E j \in Jobs : Arrives(j)) \/ Pause \/ Resume
      PROVE  running' = running /\ \A k \in Closers : closer'[k].pc = closer[k].pc
  BY <1>6 DEF Arrives, Pause, Resume
<1>7. QED BY <1>2, <1>3, <1>4, <1>5, <1>6

(* A worker that has no loop and no job gets none but by start().          *)
LEMMA GoneStep == ~StartWhileClosing /\ Inv /\ Gone /\ [Next]_vars => Gone'
<1> SUFFICES ASSUME ~StartWhileClosing, Inv, Gone, [Next]_vars, ~running', Unclosing'
             PROVE  Stopped'
  BY DEF Gone
<1>1. TypeOK
  BY DEF Inv
<1>2. CASE \E k \in Closers : closer[k].pc # "idle"
  <2>1. PICK k \in Closers : closer[k].pc # "idle"
    BY <1>2
  <2>2. closer'[k].pc = "idle"
    BY DEF Unclosing
  <2>3. QED BY <2>1, <2>2, CloserReturns DEF Stopped
<1>3. CASE Unclosing /\ running
  <2>1. \A l \in Loops : ~Start(l)
    BY <1>3 DEF Start
  <2>2. PICK k \in Closers : Close(k) \/ LoopOver(k) \/ JobsOver(k)
    BY <1>1, <1>3, <2>1, CallersStay DEF Next, vars
  <2>3. Close(k)
    BY <1>3, <2>2 DEF LoopOver, JobsOver, Unclosing
  <2>4. closer'[k].pc = "loop"
    BY <1>1, <1>3, <2>3 DEF Close, TypeOK
  <2>5. QED BY <2>4 DEF Unclosing
<1>4. CASE Unclosing /\ ~running
  <2>1. Stopped
    BY <1>4 DEF Gone
  <2>2. \A l \in Loops : ~Start(l)
    <3>1. \A l \in Loops : Start(l) => running'
      BY DEF Start
    <3>2. QED BY <3>1
  <2>3. \A l \in Loops : ~GoesOn(l) /\ ~PopMisses(l) /\ ~TimerFires(l)
                         /\ \A j \in Jobs, i \in Runs : ~PopTakes(l, j, i)
    BY <2>1 DEF Stopped, GoesOn, PopMisses, TimerFires, PopTakes
  <2>4. \A i \in Runs : ~(ProcessorResolves(i) \/ ProcessorRejects(i) \/ AckFails(i) \/ Settled(i))
    BY <2>1 DEF Stopped, Open, ProcessorResolves, ProcessorRejects, AckFails, Settled
  <2>5. \A k \in Closers : ~LoopOver(k) /\ ~JobsOver(k)
    BY <1>4 DEF LoopOver, JobsOver, Unclosing
  <2>6. \/ \E j \in Jobs : Arrives(j)
        \/ \E k \in Closers : Close(k)
        \/ Pause \/ Resume \/ UNCHANGED vars
    BY <2>2, <2>3, <2>4, <2>5 DEF Next
  <2>7. run' = run /\ (loop' = loop \/ wakeUp)
    BY <1>4, <2>6 DEF Arrives, Close, Pause, Resume, vars
  <2>8. \A l \in Loops : loop'[l].pc = "none" <=> loop[l].pc = "none"
    BY <1>1, <2>7, WakingKeeps DEF Inv, Control
  <2>9. QED BY <2>1, <2>7, <2>8 DEF Stopped, Open
<1>5. QED BY <1>2, <1>3, <1>4 DEF Unclosing

(* A step of the life cycle is one of the worker, or leaves it alone.      *)
LEMMA WorkerSteps == [LifeNext]_life => [Next]_vars
<1> SUFFICES ASSUME [LifeNext]_life PROVE Next \/ UNCHANGED vars
  OBVIOUS
<1>1. CASE WorkerRuns
  BY <1>1 DEF WorkerRuns, Next
<1>2. CASE WorkerAnswered
  BY <1>2 DEF WorkerAnswered, Next
<1>3. CASE StartWorker \/ PauseOrResume
  BY <1>3 DEF StartWorker, PauseOrResume, Next
<1>4. ASSUME NEW k \in Closers, CloseWorker(k) \/ CloserRuns(k) \/ CloseBegins(k)
      PROVE  Next \/ UNCHANGED vars
  BY <1>4 DEF CloseWorker, CloserRuns, CloseBegins, Next
<1>5. ASSUME NEW k \in Closers, WorkersClosed(k) \/ Drained(k) \/ ForgetDriver(k) \/ CloseDriver(k)
      PROVE  UNCHANGED vars
  BY <1>5 DEF WorkersClosed, Drained, ForgetDriver, CloseDriver
<1>6. CASE \/ \E o \in Operations : GetDriver(o)
           \/ \E n \in Connections : Connected(n) \/ ConnectFails(n)
           \/ \E i \in Runs : Beats(i)
           \/ \E w \in Writes : Write(w)
           \/ StartBatch \/ BatchEnds \/ UNCHANGED life
  BY <1>6 DEF GetDriver, Connected, ConnectFails, Beats, Write, StartBatch, BatchEnds, life
<1>7. QED BY <1>1, <1>2, <1>3, <1>4, <1>5, <1>6 DEF LifeNext

(* So the invariant of the worker holds in the life cycle.                 *)
LEMMA WorkerKept ==
  ASSUME Orderly, Inv, Gone, [LifeNext]_life
  PROVE  Inv' /\ Gone'
BY WorkerSteps, TypeStep, ControlStep, SlotsStep, GoneStep DEF Orderly, Inv

-----------------------------------------------------------------------------
(* The operations of the storage: pops, jobs, heartbeats, the batch.       *)
LEMMA OperationsAre ==
  /\ \A l \in Loops : <<"pop", l>> \in Operations
  /\ \A i \in Runs : <<"job", i>> \in Operations /\ <<"beat", i>> \in Operations
  /\ Batch \in Operations
  /\ \A o \in Operations : \/ \E l \in Loops : o = <<"pop", l>>
                           \/ \E i \in Runs : o = <<"job", i>> \/ o = <<"beat", i>>
                           \/ o = Batch
BY DEF Operations, Batch

(* Which of them are awaited.                                              *)
LEMMA PendingIs ==
  /\ \A l \in Loops : Pending(<<"pop", l>>) <=> loop[l].pc = "pop"
  /\ \A i \in Runs : Pending(<<"job", i>>) <=> run[i].pc \in {"ack", "nack"}
  /\ \A i \in Runs : Pending(<<"beat", i>>) <=> beat[i] # "none"
  /\ Pending(Batch) <=> Flying # {}
BY DEF Pending, Batch

(* An operation that is answered lets go of its connection.                *)
LEMMA AnsweredTypes ==
  ASSUME LifeTypeOK, NEW o, Answered(o)
  PROVE  holds' \in [Operations -> Connections \cup {None}]
BY DEF Answered, LifeTypeOK

(* The types survive every step.                                           *)
LEMMA LifeTypesStep == LifeTypeOK /\ TypeOK' /\ [LifeNext]_life => LifeTypeOK'
<1> SUFFICES ASSUME LifeTypeOK, TypeOK', [LifeNext]_life PROVE LifeTypeOK'
  OBVIOUS
<1> USE LifecycleAssumption
<1>1. ASSUME NEW o \in Operations, GetDriver(o) PROVE LifeTypeOK'
  <2> DEFINE n == CHOOSE m \in Connections : ~InUse(m)
  <2>1. CASE promise # None /\ holds' = [holds EXCEPT ![o] = promise] /\ UNCHANGED link
    BY <1>1, <2>1 DEF GetDriver, LifeTypeOK, link
  <2>2. CASE /\ \E m \in Connections : ~InUse(m)
             /\ conn' = [conn EXCEPT ![n] = "connecting"] /\ promise' = n
             /\ holds' = [holds EXCEPT ![o] = n] /\ timer' = (timer \/ TtlCleanup)
    <3>1. n \in Connections
      BY <2>2
    <3>2. timer' \in BOOLEAN
      BY <2>2 DEF LifeTypeOK
    <3> HIDE DEF n
    <3>3. QED BY <1>1, <2>2, <3>1, <3>2 DEF GetDriver, LifeTypeOK
  <2>3. QED BY <1>1, <2>1, <2>2 DEF GetDriver
<1>2. ASSUME NEW n \in Connections, Connected(n) \/ ConnectFails(n) PROVE LifeTypeOK'
  BY <1>2 DEF Connected, ConnectFails, LifeTypeOK, link
<1>3. CASE WorkerRuns
  BY <1>3 DEF WorkerRuns, LifeTypeOK, link
<1>4. CASE WorkerAnswered
  <2>1. PICK o : Answered(o)
    BY <1>4 DEF WorkerAnswered, Served
  <2>2. QED BY <1>4, <2>1, AnsweredTypes DEF WorkerAnswered, LifeTypeOK, link
<1>5. CASE StartWorker \/ PauseOrResume
  BY <1>5 DEF StartWorker, PauseOrResume, LifeTypeOK, link
<1>6. ASSUME NEW i \in Runs, Beats(i) PROVE LifeTypeOK'
  <2>1. holds' = holds \/ \E o : Answered(o)
    BY <1>6 DEF Beats, Served
  <2>2. holds' \in [Operations -> Connections \cup {None}]
    BY <2>1, AnsweredTypes DEF LifeTypeOK
  <2>3. beat' \in [Runs -> {"none", "read", "write"}]
    BY <1>6 DEF Beats, LifeTypeOK
  <2>4. QED BY <1>6, <2>2, <2>3 DEF Beats, LifeTypeOK, link
<1>7. ASSUME NEW w \in Writes, Write(w) PROVE LifeTypeOK'
  <2>1. /\ write' \in [Writes -> {"none", "buffered", "flying"}]
        /\ write' = [write EXCEPT ![w] = "buffered"]
    BY <1>7 DEF Write, LifeTypeOK
  <2>2. /\ writer' \in [Writes -> Runs \cup {None}]
        /\ \A x \in Writes : x = w \/ writer'[x] = writer[x]
    BY <1>7 DEF Write, LifeTypeOK
  <2>3. \A x \in Writes : writer'[x] # None => write'[x] # "none"
    BY <2>1, <2>2 DEF LifeTypeOK
  <2>4. resting' \in BOOLEAN
    BY <1>7 DEF Write, LifeTypeOK
  <2>5. QED BY <1>7, <2>1, <2>2, <2>3, <2>4 DEF Write, LifeTypeOK, link
<1>8. CASE StartBatch
  BY <1>8 DEF StartBatch, LifeTypeOK, link
<1>9. CASE BatchEnds
  <2>1. holds' \in [Operations -> Connections \cup {None}]
    BY <1>9, AnsweredTypes DEF BatchEnds
  <2>2. /\ write' \in [Writes -> {"none", "buffered", "flying"}]
        /\ writer' \in [Writes -> Runs \cup {None}]
        /\ \A w \in Writes : writer'[w] # None => write'[w] # "none"
    BY <1>9 DEF BatchEnds, LifeTypeOK
  <2>3. closing' \in [Closers -> Shutdown]
    <3>1. \A k \in Closers : [closing[k] EXCEPT !.awaits = @ \ Flying] \in Shutdown
      BY DEF LifeTypeOK, Shutdown
    <3>2. QED BY <1>9, <3>1 DEF BatchEnds
  <2>4. QED BY <1>9, <2>1, <2>2, <2>3 DEF BatchEnds, LifeTypeOK, link
<1>10. ASSUME NEW k \in Closers, CloseWorker(k) \/ CloserRuns(k) PROVE LifeTypeOK'
  <2>1. registered' \in BOOLEAN /\ resting' \in BOOLEAN
    BY <1>10 DEF CloseWorker, CloserRuns, LifeTypeOK
  <2>2. QED BY <1>10, <2>1 DEF CloseWorker, CloserRuns, LifeTypeOK, link
<1>11. ASSUME NEW k \in Closers, Drains(k) PROVE closing' \in [Closers -> Shutdown]
  <2>1. [pc |-> "flush", awaits |-> Buffered, conn |-> None] \in Shutdown
    BY DEF Shutdown, Buffered
  <2>2. QED BY <1>11, <2>1 DEF Drains, LifeTypeOK
<1>12. ASSUME NEW k \in Closers, NEW pc \in {"workers", "caches"},
              closing' = [closing EXCEPT ![k].pc = pc]
       PROVE  closing' \in [Closers -> Shutdown]
  <2>1. [closing[k] EXCEPT !.pc = pc] \in Shutdown
    BY DEF LifeTypeOK, Shutdown
  <2>2. QED BY <1>12, <2>1 DEF LifeTypeOK
<1>13. ASSUME NEW k \in Closers, CloseBegins(k) \/ WorkersClosed(k) \/ Drained(k) PROVE LifeTypeOK'
  <2>1. closing' \in [Closers -> Shutdown]
    BY <1>11, <1>12, <1>13 DEF CloseBegins, WorkersClosed, Drained
  <2>2. registered' \in BOOLEAN /\ resting' \in BOOLEAN /\ timer' \in BOOLEAN
    BY <1>13 DEF CloseBegins, WorkersClosed, Drained, LifeTypeOK, link
  <2>3. QED BY <1>13, <2>1, <2>2 DEF CloseBegins, WorkersClosed, Drained, LifeTypeOK, link
<1>14. ASSUME NEW k \in Closers, ForgetDriver(k) \/ CloseDriver(k) PROVE LifeTypeOK'
  <2>1. AtRest \in Shutdown
    BY DEF AtRest, Shutdown
  <2>2. promise \in Connections => [closing[k] EXCEPT !.pc = "driver", !.conn = promise] \in Shutdown
    BY DEF LifeTypeOK, Shutdown
  <2>3. closing' \in [Closers -> Shutdown]
    BY <1>14, <2>1, <2>2 DEF ForgetDriver, CloseDriver, LifeTypeOK
  <2>4. conn' \in [Connections -> {"none", "connecting", "open", "closed", "failed"}]
    BY <1>14 DEF ForgetDriver, CloseDriver, LifeTypeOK
  <2>5. promise' \in Connections \cup {None} /\ resting' \in BOOLEAN
    BY <1>14 DEF ForgetDriver, CloseDriver, LifeTypeOK
  <2>6. QED BY <1>14, <2>3, <2>4, <2>5 DEF ForgetDriver, CloseDriver, LifeTypeOK
<1>15. CASE UNCHANGED life
  BY <1>15 DEF life, link, LifeTypeOK
<1>16. QED BY <1>1, <1>2, <1>3, <1>4, <1>5, <1>6, <1>7, <1>8, <1>9, <1>10, <1>13, <1>14, <1>15 DEF LifeNext

-----------------------------------------------------------------------------
(* Without loops, jobs and buffered writes no operation is pending, and    *)
(* none has a connection.                                                  *)
LEMMA Calm ==
  ASSUME LifeInv, Stopped, Buffered = {}
  PROVE  \A o \in Operations : ~Pending(o) /\ holds[o] = None
<1>1. /\ \A l \in Loops : loop[l].pc = "none"
      /\ \A i \in Runs : run[i].pc = "none"
      /\ Flying = {}
  BY DEF Stopped, Open, Flying, Buffered
<1>2. \A i \in Runs : beat[i] = "none"
  BY <1>1 DEF LifeInv, Storage, BeatsWork
<1>3. /\ \A l \in Loops : ~Pending(<<"pop", l>>) /\ holds[<<"pop", l>>] = None
      /\ \A i \in Runs : ~Pending(<<"job", i>>) /\ holds[<<"job", i>>] = None
      /\ \A i \in Runs : ~Pending(<<"beat", i>>) /\ holds[<<"beat", i>>] = None
      /\ ~Pending(Batch) /\ holds[Batch] = None
  BY <1>1, <1>2, PendingIs DEF LifeInv, Storage, Held
<1>4. QED BY <1>3, OperationsAre

(* So it is of a KVDB at rest.                                             *)
LEMMA RestIsCalm ==
  ASSUME LifeInv, resting
  PROVE  Stopped /\ Buffered = {} /\ \A o \in Operations : ~Pending(o) /\ holds[o] = None
<1>1. Stopped /\ Buffered = {}
  BY DEF LifeInv, Order, Rested, Gone
<1>2. QED BY <1>1, Calm

(* Who flushes has stopped the worker, and when the buffer is empty, too,  *)
(* nothing is left that would ask for a connection.                        *)
LEMMA CloseIsCalm ==
  ASSUME LifeInv, NEW k \in Closers, closing[k].pc \in {"flush", "caches", "driver"}
  PROVE  /\ Stopped /\ ~running /\ Unclosing
         /\ \A m \in Closers : m # k => closing[m].pc = "idle"
         /\ Buffered = {} => \A o \in Operations : ~Pending(o) /\ holds[o] = None
<1>1. /\ ~running /\ Unclosing
      /\ \A m \in Closers : m # k => closing[m].pc = "idle"
  BY DEF LifeInv, Order, InOrder, Unclosing
<1>2. Stopped
  BY <1>1 DEF LifeInv, Order, Gone
<1>3. QED BY <1>1, <1>2, Calm

(* What moves neither the worker nor the callers of close() keeps order.   *)
LEMMA OrderStays ==
  ASSUME LifeInv, running' = running, registered' = registered,
         \A k \in Closers : closer'[k].pc = closer[k].pc,
         \A k \in Closers : closing'[k].pc = closing[k].pc,
         resting' => resting /\ Buffered' = {} /\ promise' = None
  PROVE  Listed' /\ InOrder' /\ Rested'
<1>1. Unclosing' <=> Unclosing
  BY DEF Unclosing
<1>2. Listed'
  BY <1>1 DEF LifeInv, Order, Listed
<1>3. InOrder'
  BY DEF LifeInv, Order, InOrder
<1>4. Rested'
  BY <1>1 DEF LifeInv, Order, Rested
<1>5. QED BY <1>2, <1>3, <1>4

(* The program calls when nobody closes.                                   *)
LEMMA CallsWait ==
  ASSUME Orderly, MayCall
  PROVE  Unclosing /\ \A k \in Closers : closing[k].pc = "idle"
BY DEF Orderly, MayCall, Unclosing

(* One close() is under way at a time, in its order, and rest is rest.     *)
LEMMA OrderStep ==
  ASSUME Orderly, LifeInv, [LifeNext]_life
  PROVE  Listed' /\ InOrder' /\ Rested'
<1>a. TypeOK
  BY DEF LifeInv, Inv
<1> DEFINE Goal == Listed' /\ InOrder' /\ Rested'
<1>1. ASSUME NEW o \in Operations, GetDriver(o) PROVE Goal
  <2>1. ~resting
    BY <1>1, RestIsCalm DEF GetDriver
  <2>2. QED BY <1>1, <2>1, OrderStays DEF GetDriver, vars
<1>2. ASSUME NEW n \in Connections, Connected(n) \/ ConnectFails(n) PROVE Goal
  <2>1. Buffered' = Buffered /\ (promise' = promise \/ promise' = None)
    BY <1>2 DEF Connected, ConnectFails, Buffered
  <2>2. resting => Buffered' = {} /\ promise' = None
    BY <2>1 DEF LifeInv, Order, Rested
  <2>3. QED BY <1>2, <2>2, OrderStays DEF Connected, ConnectFails, vars
<1>3. CASE WorkerRuns \/ WorkerAnswered
  <2>1. running' = running /\ \A k \in Closers : closer'[k].pc = closer[k].pc
    BY <1>3, <1>a, CallersStay DEF WorkerRuns, WorkerAnswered
  <2>2. UNCHANGED <<link, write, registered, closing, resting>>
    BY <1>3 DEF WorkerRuns, WorkerAnswered
  <2>3. resting => Buffered' = {} /\ promise' = None
    BY <2>2 DEF LifeInv, Order, Rested, Buffered, link
  <2>4. QED BY <2>1, <2>2, <2>3, OrderStays
<1>4. CASE PauseOrResume
  <2>1. running' = running /\ \A k \in Closers : closer'[k].pc = closer[k].pc
    BY <1>4, <1>a, CallersStay DEF PauseOrResume
  <2>2. QED BY <1>4, <2>1, OrderStays DEF PauseOrResume
<1>5. CASE StartWorker
  <2>1. Unclosing /\ \A k \in Closers : closing[k].pc = "idle"
    BY <1>5, CallsWait DEF StartWorker
  <2>2. running' /\ registered' /\ closing' = closing /\ ~resting'
    BY <1>5 DEF StartWorker, Start, Orderly
  <2>3. QED BY <2>1, <2>2 DEF Listed, InOrder, Rested
<1>6. ASSUME NEW i \in Runs, Beats(i) PROVE Goal
  <2>1. UNCHANGED <<vars, link, write, registered, closing, resting>>
    BY <1>6 DEF Beats
  <2>2. resting => Buffered' = {} /\ promise' = None
    BY <2>1 DEF LifeInv, Order, Rested, Buffered, link
  <2>3. QED BY <2>1, <2>2, OrderStays DEF vars
<1>7. ASSUME NEW w \in Writes, Write(w) PROVE Goal
  <2>1. ~resting'
    <3>1. CASE ~resting'
      BY <3>1
    <3>2. CASE resting' = resting /\ \E i \in Runs : run[i].pc = "work"
      BY <3>2, RestIsCalm DEF Stopped, Open
    <3>3. QED BY <1>7, <3>1, <3>2 DEF Write
  <2>2. QED BY <1>7, <2>1, OrderStays DEF Write, vars
<1>8. CASE StartBatch
  <2>1. Buffered # {}
    BY <1>8 DEF StartBatch, Buffered
  <2>2. ~resting
    BY <2>1, RestIsCalm
  <2>3. QED BY <1>8, <2>2, OrderStays DEF StartBatch, vars
<1>9. CASE BatchEnds
  <2>1. Flying # {} /\ UNCHANGED <<vars, registered, resting>>
    BY <1>9 DEF BatchEnds
  <2>2. ~resting
    BY <2>1, RestIsCalm DEF Flying, Buffered
  <2>3. \A k \in Closers : closing'[k].pc = closing[k].pc
    BY <1>9 DEF BatchEnds, LifeInv, LifeTypeOK, Shutdown
  <2>4. QED BY <2>1, <2>2, <2>3, OrderStays DEF vars
<1>10. ASSUME NEW k \in Closers, Close(k), Unclosing
       PROVE  /\ ~running' /\ \A m \in Closers : m # k => closer'[m].pc = "idle"
              /\ closer'[k].pc = "idle" <=> ~running
  BY <1>10, <1>a DEF Close, TypeOK, Unclosing
<1>11. ASSUME NEW k \in Closers, CloseWorker(k) PROVE Goal
  <2>1. Unclosing /\ \A m \in Closers : closing[m].pc = "idle"
    BY <1>11, CallsWait DEF CloseWorker
  <2>2. /\ ~running' /\ \A m \in Closers : m # k => closer'[m].pc = "idle"
        /\ closer'[k].pc = "idle" <=> ~running
        /\ UNCHANGED <<registered, closing>> /\ ~resting'
    BY <1>10, <1>11, <2>1 DEF CloseWorker
  <2>3. registered <=> running
    BY <2>1 DEF LifeInv, Order, Listed
  <2>4. Unclosing' <=> ~running
    BY <2>2 DEF Unclosing
  <2>5. QED BY <2>1, <2>2, <2>3, <2>4 DEF Listed, InOrder, Rested
<1>12. ASSUME NEW k \in Closers, CloserRuns(k) PROVE Goal
  <2>1. closer[k].pc # "idle" /\ ~Unclosing
    BY <1>12 DEF CloserRuns, LoopOver, JobsOver, Unclosing
  <2>2. ~running /\ \A m \in Closers : m # k => closer[m].pc = "idle"
    BY <2>1 DEF LifeInv, Inv, Control, CloserAlone
  <2>3. /\ UNCHANGED <<running, closing, resting>> /\ \A m \in Closers : m # k => closer'[m] = closer[m]
        /\ registered' = (registered /\ closer'[k].pc # "idle")
    BY <1>12, <1>a DEF CloserRuns, LoopOver, JobsOver, TypeOK
  <2>4. registered /\ ~resting
    BY <2>1 DEF LifeInv, Order, Listed, Rested
  <2>5. Unclosing' <=> closer'[k].pc = "idle"
    BY <2>2, <2>3 DEF Unclosing
  <2>6. \A m \in Closers : closing[m].pc # "idle" => m = k /\ closing[m].pc = "workers"
    BY <2>1 DEF LifeInv, Order, InOrder
  <2>7. InOrder'
    <3>1. \A m, j \in Closers : closing[m].pc # "idle" /\ j # m => closing[j].pc = "idle" /\ closer'[j].pc = "idle"
      BY <2>2, <2>3, <2>6
    <3>2. QED BY <2>2, <2>3, <2>6, <3>1 DEF InOrder
  <2>8. QED BY <2>2, <2>3, <2>4, <2>5, <2>7 DEF Listed, Rested
<1>13. ASSUME NEW k \in Closers, CloseBegins(k) PROVE Goal
  <2>1. Unclosing /\ \A m \in Closers : closing[m].pc = "idle"
    BY <1>13, CallsWait DEF CloseBegins
  <2>2. registered <=> running
    BY <2>1 DEF LifeInv, Order, Listed
  <2>3. registered' = registered /\ ~resting'
    BY <1>13 DEF CloseBegins
  <2>4. /\ ~running' /\ \A m \in Closers : m # k => closer'[m].pc = "idle"
        /\ closer'[k].pc = "idle" <=> ~running
    <3>1. CASE registered
      BY <1>10, <1>13, <2>1, <3>1 DEF CloseBegins
    <3>2. CASE ~registered
      BY <1>13, <2>1, <2>2, <3>2 DEF CloseBegins, vars, Unclosing
    <3>3. QED BY <3>1, <3>2
  <2>5. /\ \A m \in Closers : m # k => closing'[m] = closing[m]
        /\ closing'[k].pc = IF registered THEN "workers" ELSE "flush"
    BY <1>13 DEF CloseBegins, Drains, LifeInv, LifeTypeOK, Shutdown
  <2>6. Unclosing' <=> ~running
    BY <2>4 DEF Unclosing
  <2>7. Listed' /\ Rested'
    BY <2>2, <2>3, <2>4, <2>6 DEF Listed, Rested
  <2>8. InOrder'
    <3>1. \A m \in Closers : closing'[m].pc # "idle" => m = k
      BY <2>1, <2>5
    <3>2. \A m \in Closers : m # k => closing'[m].pc = "idle" /\ closer'[m].pc = "idle"
      BY <2>1, <2>4, <2>5
    <3>3. closing'[k].pc # "workers" => closer'[k].pc = "idle"
      BY <2>2, <2>4, <2>5
    <3>4. QED BY <2>4, <3>1, <3>2, <3>3 DEF InOrder
  <2>9. QED BY <2>7, <2>8
<1>14. ASSUME NEW k \in Closers,
              WorkersClosed(k) \/ Drained(k) \/ ForgetDriver(k) \/ CloseDriver(k)
       PROVE  Goal
  <2>1. closing[k].pc # "idle" /\ closer[k].pc = "idle"
    BY <1>14 DEF WorkersClosed, Drained, ForgetDriver, CloseDriver, LifeInv, Order, InOrder
  <2>2. ~running /\ \A m \in Closers : m # k => closing[m].pc = "idle" /\ closer[m].pc = "idle"
    BY <2>1 DEF LifeInv, Order, InOrder
  <2>3. Unclosing /\ ~registered /\ ~resting
    BY <2>1, <2>2 DEF Unclosing, LifeInv, Order, Listed, Rested
  <2>4. /\ UNCHANGED vars /\ registered' = FALSE
        /\ \A m \in Closers : m # k => closing'[m] = closing[m]
    BY <1>14, <2>3 DEF WorkersClosed, Drained, ForgetDriver, CloseDriver, Drains, LifeInv, LifeTypeOK
  <2>5. Unclosing' /\ ~running'
    BY <2>2, <2>3, <2>4 DEF Unclosing, vars
  <2>6. Listed'
    BY <2>4, <2>5 DEF Listed
  <2>7. InOrder'
    <3>1. \A m \in Closers : closing'[m].pc # "idle" => m = k
      BY <2>2, <2>4
    <3>2. QED BY <2>5, <3>1 DEF InOrder, Unclosing
  <2>8. Rested'
    <3>1. CASE WorkersClosed(k) \/ Drained(k)
      BY <2>3, <3>1 DEF WorkersClosed, Drained, Rested
    <3>2. CASE ForgetDriver(k) \/ CloseDriver(k)
      <4>1. Buffered = {} /\ Buffered' = Buffered
        BY <3>2 DEF ForgetDriver, CloseDriver, Buffered, LifeInv, Storage, Emptied
      <4>2. promise' = None
        BY <3>2 DEF ForgetDriver, CloseDriver, LifeInv, Storage, Linked
      <4>3. resting' => closing'[k] = AtRest
        <5>1. CASE ForgetDriver(k)
          BY <5>1 DEF ForgetDriver, LifeInv, LifeTypeOK
        <5>2. CASE CloseDriver(k)
          BY <5>2 DEF CloseDriver, LifeInv, LifeTypeOK
        <5>3. QED BY <3>2, <5>1, <5>2
      <4>4. QED BY <2>2, <2>4, <2>5, <4>1, <4>2, <4>3 DEF Rested, AtRest
    <3>3. QED BY <1>14, <3>1, <3>2
  <2>9. QED BY <2>6, <2>7, <2>8
<1>15. CASE UNCHANGED life
  <2>1. Buffered' = Buffered /\ UNCHANGED <<vars, promise, closing, registered, resting>>
    BY <1>15 DEF life, link, Buffered
  <2>2. resting => Buffered' = {} /\ promise' = None
    BY <2>1 DEF LifeInv, Order, Rested
  <2>3. QED BY <2>1, <2>2, OrderStays DEF vars
<1>16. QED BY <1>1, <1>2, <1>3, <1>4, <1>5, <1>6, <1>7, <1>8, <1>9, <1>11, <1>12, <1>13, <1>14, <1>15
          DEF LifeNext

-----------------------------------------------------------------------------
(* Every holder of a connection awaits the storage.                        *)
LEMMA HeldIs == Held <=> \A o \in Operations : holds[o] # None => Pending(o)
BY OperationsAre, PendingIs DEF Held

(* It is kept when only who has let go of its connection is answered.      *)
LEMMA HeldStays ==
  ASSUME Held,
         \A o \in Operations : holds'[o] # None => Pending(o)' \/ holds[o] # None,
         \A o \in Operations : Pending(o) => Pending(o)' \/ holds'[o] = None
  PROVE  Held'
<1>1. \A o \in Operations : holds'[o] # None => Pending(o)'
  BY HeldIs
<1>2. /\ \A l \in Loops : Pending(<<"pop", l>>)' => loop'[l].pc = "pop"
      /\ \A i \in Runs : Pending(<<"job", i>>)' => run'[i].pc \in {"ack", "nack"}
      /\ \A i \in Runs : Pending(<<"beat", i>>)' => beat'[i] # "none"
      /\ Pending(Batch)' => Flying' # {}
  BY DEF Pending, Batch
<1>3. QED BY <1>1, <1>2, OperationsAre DEF Held

(* What the steps between two awaits make of who awaits the storage.       *)
LEMMA PendingStays ==
  ASSUME \A l \in Loops : loop[l].pc = "pop" => loop'[l].pc = "pop" \/ holds'[<<"pop", l>>] = None,
         \A i \in Runs : run[i].pc \in {"ack", "nack"} =>
           run'[i].pc \in {"ack", "nack"} \/ holds'[<<"job", i>>] = None,
         \A i \in Runs : beat[i] # "none" => beat'[i] # "none" \/ holds'[<<"beat", i>>] = None,
         Flying # {} => Flying' # {} \/ holds'[Batch] = None
  PROVE  \A o \in Operations : Pending(o) => Pending(o)' \/ holds'[o] = None
<1>1. /\ \A l \in Loops : Pending(<<"pop", l>>)' <=> loop'[l].pc = "pop"
      /\ \A i \in Runs : Pending(<<"job", i>>)' <=> run'[i].pc \in {"ack", "nack"}
      /\ \A i \in Runs : Pending(<<"beat", i>>)' <=> beat'[i] # "none"
      /\ Pending(Batch)' <=> Flying' # {}
  BY DEF Pending, Batch
<1>2. QED BY <1>1, PendingIs, OperationsAre

(* Only the operation that is answered lets go.                            *)
LEMMA AnsweredLetsGo ==
  ASSUME LifeTypeOK, NEW o \in Operations, Answered(o)
  PROVE  holds'[o] = None /\ \A p \in Operations : p # o => holds'[p] = holds[p]
BY DEF Answered, LifeTypeOK

(* A loop that awaits pop() goes on when it is answered, and not before.   *)
LEMMA PopsStay ==
  ASSUME Inv, NEW l \in Loops, loop[l].pc = "pop",
         \/ \E m \in Loops : GoesOn(m) \/ TimerFires(m) \/ Start(m)
         \/ \E m \in Loops : m # l /\ \/ PopMisses(m)
                                      \/ \E j \in Jobs, i \in Runs : PopTakes(m, j, i)
         \/ \E i \in Runs : ProcessorResolves(i) \/ ProcessorRejects(i) \/ AckFails(i) \/ Settled(i)
         \/ \E j \in Jobs : Arrives(j)
         \/ \E k \in Closers : Close(k) \/ LoopOver(k) \/ JobsOver(k)
         \/ Pause \/ Resume
  PROVE  loop'[l].pc = "pop"
<1>a. TypeOK /\ SleeperSleeps
  BY DEF Inv, Control
<1>1. ASSUME NEW m \in Loops, m # l, NEW next, Goes(m, next) PROVE loop'[l].pc = "pop"
  BY <1>a, <1>1 DEF Goes, TypeOK
<1>2. ASSUME wakeUp PROVE loop'[l].pc = "pop"
  BY <1>a, <1>2 DEF wakeUp, Woken, SleeperSleeps, TypeOK
<1>3. ASSUME NEW m \in Loops, GoesOn(m) \/ TimerFires(m) \/ Start(m) PROVE loop'[l].pc = "pop"
  <2>1. m # l
    BY <1>3 DEF GoesOn, TimerFires, Start
  <2>2. QED BY <1>a, <1>1, <1>3, <2>1 DEF GoesOn, TimerFires, Start, TypeOK
<1>4. ASSUME NEW m \in Loops, m # l,
             PopMisses(m) \/ \E j \in Jobs, i \in Runs : PopTakes(m, j, i)
      PROVE  loop'[l].pc = "pop"
  BY <1>1, <1>4 DEF PopMisses, PopTakes
<1>5. CASE \E i \in Runs : ProcessorResolves(i) \/ ProcessorRejects(i) \/ AckFails(i) \/ Settled(i)
  BY <1>2, <1>5 DEF ProcessorResolves, ProcessorRejects, AckFails, Continues, Settled
<1>6. CASE \/ \E j \in Jobs : Arrives(j)
           \/ \E k \in Closers : Close(k) \/ LoopOver(k) \/ JobsOver(k)
           \/ Pause \/ Resume
  BY <1>2, <1>6 DEF Arrives, Close, LoopOver, JobsOver, Pause, Resume
<1>7. QED BY <1>3, <1>4, <1>5, <1>6

(* Who has got a connection waits until it is answered.                    *)
LEMMA HeldStep ==
  ASSUME LifeInv, [LifeNext]_life
  PROVE  Held'
<1>a. Inv /\ TypeOK /\ LifeTypeOK /\ Held
  BY DEF LifeInv, Inv, Storage
<1>1. ASSUME \A l \in Loops : loop[l].pc = "pop" => loop'[l].pc = "pop",
             \A i \in Runs : run[i].pc \in {"ack", "nack"} => run'[i].pc \in {"ack", "nack"},
             UNCHANGED <<holds, beat>>, Flying # {} => Flying' # {}
      PROVE  Held'
  <2>1. \A o \in Operations : Pending(o) => Pending(o)' \/ holds'[o] = None
    BY <1>1, PendingStays
  <2>2. QED BY <1>a, <1>1, <2>1, HeldStays
<1>2. ASSUME \/ \E l \in Loops : GoesOn(l) \/ TimerFires(l) \/ Start(l)
             \/ \E i \in Runs : ProcessorResolves(i) \/ ProcessorRejects(i)
             \/ \E j \in Jobs : Arrives(j)
             \/ \E k \in Closers : Close(k) \/ LoopOver(k) \/ JobsOver(k)
             \/ Pause \/ Resume,
             UNCHANGED <<holds, beat, write>>
      PROVE  Held'
  <2>1. \A l \in Loops : loop[l].pc = "pop" => loop'[l].pc = "pop"
    BY <1>a, <1>2, PopsStay
  <2>2. \/ run' = run
        \/ \E m \in Runs : ProcessorResolves(m) \/ ProcessorRejects(m)
    BY <1>2 DEF GoesOn, TimerFires, Start, Arrives, Close, LoopOver, JobsOver, Pause, Resume
  <2>3. ASSUME NEW i \in Runs, run[i].pc \in {"ack", "nack"} PROVE run'[i].pc \in {"ack", "nack"}
    <3>1. CASE run' = run
      BY <2>3, <3>1
    <3>2. CASE \E m \in Runs : ProcessorResolves(m) \/ ProcessorRejects(m)
      BY <1>a, <2>3, <3>2 DEF ProcessorResolves, ProcessorRejects, Continues, TypeOK
    <3>3. QED BY <2>2, <3>1, <3>2
  <2>4. QED BY <1>1, <1>2, <2>1, <2>3 DEF Flying
<1>3. ASSUME UNCHANGED <<vars, holds, beat>>, Flying # {} => Flying' # {} PROVE Held'
  BY <1>1, <1>3 DEF vars
<1>4. ASSUME NEW o \in Operations, GetDriver(o) PROVE Held'
  <2>1. Pending(o) /\ \A p \in Operations : p # o => holds'[p] = holds[p]
    BY <1>4, <1>a DEF GetDriver, LifeTypeOK
  <2>2. UNCHANGED <<vars, beat, write>>
    BY <1>4 DEF GetDriver
  <2>3. \A p \in Operations : Pending(p) => Pending(p)' \/ holds'[p] = None
    BY <2>2, PendingStays DEF vars, Flying
  <2>4. \A p \in Operations : Pending(p) => Pending(p)'
    BY <2>2 DEF Pending, vars, Flying
  <2>5. QED BY <1>a, <2>1, <2>3, <2>4, HeldStays
<1>5. CASE WorkerRuns \/ StartWorker \/ PauseOrResume
  BY <1>2, <1>5 DEF WorkerRuns, StartWorker, PauseOrResume
<1>6. CASE WorkerAnswered
  <2>1. UNCHANGED <<beat, write>>
    BY <1>6 DEF WorkerAnswered
  <2>2. ASSUME NEW o \in Operations, Answered(o)
        PROVE  holds'[o] = None /\ \A p \in Operations : p # o => holds'[p] = holds[p]
    BY <1>a, <2>2, AnsweredLetsGo
  <2>3. ASSUME NEW l \in Loops, Answered(<<"pop", l>>),
               PopMisses(l) \/ \E j \in Jobs, i \in Runs : PopTakes(l, j, i)
        PROVE  Held'
    <3>1. \A m \in Loops : m # l /\ loop[m].pc = "pop" => loop'[m].pc = "pop"
      BY <1>a, <2>3, PopsStay
    <3>2. run' = run \/ \E j \in Jobs, i \in Runs : PopTakes(l, j, i)
      BY <2>3 DEF PopMisses
    <3>3. \A i \in Runs : run[i].pc \in {"ack", "nack"} => run'[i].pc \in {"ack", "nack"}
      BY <1>a, <3>2 DEF PopTakes, Open, TypeOK
    <3>4. /\ holds'[<<"pop", l>>] = None
          /\ \A p \in Operations : holds'[p] # None => holds[p] # None
      BY <2>2, <2>3, OperationsAre
    <3>5. \A p \in Operations : Pending(p) => Pending(p)' \/ holds'[p] = None
      BY <2>1, <3>1, <3>3, <3>4, PendingStays DEF Flying
    <3>6. QED BY <1>a, <3>4, <3>5, HeldStays
  <2>4. ASSUME NEW i \in Runs, Answered(<<"job", i>>), AckFails(i) \/ Settled(i) PROVE Held'
    <3>1. \A m \in Loops : loop[m].pc = "pop" => loop'[m].pc = "pop"
      BY <1>a, <2>4, PopsStay
    <3>2. ASSUME NEW m \in Runs, m # i, run[m].pc \in {"ack", "nack"}
          PROVE  run'[m].pc \in {"ack", "nack"}
      <4>1. CASE AckFails(i)
        BY <1>a, <3>2, <4>1 DEF AckFails, Continues, TypeOK
      <4>2. CASE Settled(i)
        BY <1>a, <3>2, <4>2 DEF Settled, TypeOK
      <4>3. QED BY <2>4, <4>1, <4>2
    <3>3. /\ holds'[<<"job", i>>] = None
          /\ \A p \in Operations : holds'[p] # None => holds[p] # None
      BY <2>2, <2>4, OperationsAre
    <3>4. \A p \in Operations : Pending(p) => Pending(p)' \/ holds'[p] = None
      BY <2>1, <3>1, <3>2, <3>3, PendingStays DEF Flying
    <3>5. QED BY <1>a, <3>3, <3>4, HeldStays
  <2>5. QED BY <1>6, <2>3, <2>4 DEF WorkerAnswered, Served
<1>7. ASSUME NEW i \in Runs, Beats(i) PROVE Held'
  <2>1. UNCHANGED <<vars, write>> /\ \A m \in Runs : m # i => beat'[m] = beat[m]
    BY <1>7, <1>a DEF Beats, LifeTypeOK
  <2>2. beat'[i] # "none" \/ holds'[<<"beat", i>>] = None
    <3>1. Answered(<<"beat", i>>) => holds'[<<"beat", i>>] = None
      BY <1>a, AnsweredLetsGo, OperationsAre
    <3>2. QED BY <1>7, <1>a, <3>1 DEF Beats, LifeTypeOK
  <2>3. \A p \in Operations : Pending(p) => Pending(p)' \/ holds'[p] = None
    BY <2>1, <2>2, PendingStays DEF vars, Flying
  <2>4. \A p \in Operations : holds'[p] # None => holds[p] # None
    <3>1. CASE holds' = holds
      BY <3>1
    <3>2. CASE Answered(<<"beat", i>>)
      BY <1>a, <3>2, AnsweredLetsGo, OperationsAre
    <3>3. QED BY <1>7, <3>1, <3>2 DEF Beats, Served
  <2>5. QED BY <1>a, <2>3, <2>4, HeldStays
<1>8. ASSUME NEW w \in Writes, Write(w) PROVE Held'
  <2>1. Flying' = Flying
    BY <1>8, <1>a DEF Write, Flying, LifeTypeOK
  <2>2. QED BY <1>3, <1>8, <2>1 DEF Write
<1>9. CASE StartBatch
  BY <1>3, <1>9 DEF StartBatch
<1>10. CASE BatchEnds
  <2>1. UNCHANGED <<vars, beat>> /\ Answered(Batch)
    BY <1>10 DEF BatchEnds
  <2>2. holds'[Batch] = None /\ \A p \in Operations : p # Batch => holds'[p] = holds[p]
    BY <1>a, <2>1, AnsweredLetsGo, OperationsAre
  <2>3. \A p \in Operations : Pending(p) => Pending(p)' \/ holds'[p] = None
    BY <2>1, <2>2, PendingStays DEF vars
  <2>4. QED BY <1>a, <2>2, <2>3, HeldStays
<1>11. ASSUME NEW k \in Closers, CloseWorker(k) \/ CloserRuns(k) PROVE Held'
  BY <1>2, <1>11 DEF CloseWorker, CloserRuns
<1>12. ASSUME NEW k \in Closers, CloseBegins(k) PROVE Held'
  <2>1. UNCHANGED <<holds, beat, write>> /\ (Close(k) \/ UNCHANGED vars)
    BY <1>12 DEF CloseBegins
  <2>2. QED BY <1>2, <1>3, <2>1 DEF Flying
<1>13. ASSUME NEW k \in Closers,
              WorkersClosed(k) \/ Drained(k) \/ ForgetDriver(k) \/ CloseDriver(k)
       PROVE  Held'
  BY <1>3, <1>13 DEF WorkersClosed, Drained, ForgetDriver, CloseDriver, Flying
<1>14. ASSUME NEW n \in Connections, Connected(n) \/ ConnectFails(n) PROVE Held'
  BY <1>3, <1>14 DEF Connected, ConnectFails, Flying
<1>15. CASE UNCHANGED life
  BY <1>3, <1>15 DEF life, Flying
<1>16. QED BY <1>4, <1>5, <1>6, <1>7, <1>8, <1>9, <1>10, <1>11, <1>12, <1>13, <1>14, <1>15 DEF LifeNext

(* A processor does not end while a heartbeat of its job is on its way.    *)
LEMMA BeatsStep ==
  ASSUME Orderly, LifeInv, [LifeNext]_life
  PROVE  BeatsWork'
<1> SUFFICES ASSUME NEW i \in Runs, beat'[i] # "none" PROVE run'[i].pc = "work"
  BY DEF BeatsWork
<1>a. TypeOK /\ beat \in [Runs -> {"none", "read", "write"}]
      /\ (beat[i] # "none" => run[i].pc = "work")
  BY DEF LifeInv, Inv, LifeTypeOK, Storage, BeatsWork
<1>1. CASE beat' = beat /\ run' = run
  BY <1>a, <1>1
<1>2. CASE WorkerRuns
  <2>1. beat' = beat /\ run[i].pc = "work" /\ run'[i].pc \notin {"ack", "nack"}
    BY <1>a, <1>2 DEF WorkerRuns, Orderly
  <2>2. CASE \E l \in Loops : GoesOn(l) \/ TimerFires(l)
    BY <2>1, <2>2 DEF GoesOn, TimerFires
  <2>3. CASE \E m \in Runs : ProcessorRejects(m) \/ ProcessorResolves(m)
    BY <1>a, <2>1, <2>3 DEF ProcessorRejects, ProcessorResolves, Continues, TypeOK, Run
  <2>4. CASE \E j \in Jobs : Arrives(j)
    BY <2>1, <2>4 DEF Arrives
  <2>5. QED BY <1>2, <2>2, <2>3, <2>4 DEF WorkerRuns
<1>3. CASE WorkerAnswered
  <2>1. beat' = beat /\ run[i].pc = "work"
    BY <1>a, <1>3 DEF WorkerAnswered
  <2>2. CASE \E l \in Loops : PopMisses(l)
    BY <2>1, <2>2 DEF PopMisses
  <2>3. CASE \E l \in Loops, j \in Jobs, m \in Runs : PopTakes(l, j, m)
    BY <1>a, <2>1, <2>3 DEF PopTakes, Open, TypeOK
  <2>4. CASE \E m \in Runs : AckFails(m) \/ Settled(m)
    BY <1>a, <2>1, <2>4 DEF AckFails, Settled, Continues, TypeOK
  <2>5. QED BY <1>3, <2>2, <2>3, <2>4 DEF WorkerAnswered
<1>4. ASSUME NEW m \in Runs, Beats(m) PROVE run'[i].pc = "work"
  <2>1. run' = run /\ (beat'[i] # "none" => beat[i] # "none" \/ run[i].pc = "work")
    BY <1>4, <1>a DEF Beats, vars
  <2>2. QED BY <1>a, <2>1
<1>5. CASE \/ \E o \in Operations : GetDriver(o)
           \/ \E n \in Connections : Connected(n) \/ ConnectFails(n)
           \/ \E w \in Writes : Write(w)
           \/ StartBatch \/ BatchEnds \/ UNCHANGED life
  <2>1. beat' = beat /\ run' = run
    BY <1>5 DEF GetDriver, Connected, ConnectFails, Write, StartBatch, BatchEnds, life, vars
  <2>2. QED BY <1>1, <2>1
<1>6. CASE StartWorker \/ PauseOrResume
  <2>1. beat' = beat /\ run' = run
    BY <1>6 DEF StartWorker, PauseOrResume, Start, Pause, Resume
  <2>2. QED BY <1>1, <2>1
<1>7. ASSUME NEW k \in Closers,
             \/ CloseWorker(k) \/ CloserRuns(k) \/ CloseBegins(k) \/ WorkersClosed(k)
             \/ Drained(k) \/ ForgetDriver(k) \/ CloseDriver(k)
      PROVE  run'[i].pc = "work"
  <2>1. beat' = beat /\ run' = run
    BY <1>7 DEF CloseWorker, CloserRuns, CloseBegins, WorkersClosed, Drained, ForgetDriver,
                CloseDriver, Close, LoopOver, JobsOver, vars
  <2>2. QED BY <1>1, <2>1
<1>8. QED BY <1>2, <1>3, <1>4, <1>5, <1>6, <1>7 DEF LifeNext

(* Nothing is buffered once flush() has begun: the program waits, and there*)
(* is no job left to write.                                                *)
LEMMA EmptiedStep ==
  ASSUME Orderly, LifeInv, [LifeNext]_life
  PROVE  Emptied'
<1>a. /\ closing \in [Closers -> Shutdown] /\ write \in [Writes -> {"none", "buffered", "flying"}]
      /\ Emptied
  BY DEF LifeInv, LifeTypeOK, Storage
<1>1. ASSUME closing' = closing, Buffered' = Buffered PROVE Emptied'
  BY <1>a, <1>1 DEF Emptied
<1>2. ASSUME NEW w \in Writes, Write(w) PROVE Emptied'
  <2>1. \A k \in Closers : closing[k].pc \notin {"flush", "caches", "driver"}
    <3> SUFFICES ASSUME NEW k \in Closers, closing[k].pc \in {"flush", "caches", "driver"} PROVE FALSE
      OBVIOUS
    <3>1. ~MayCall
      BY CallsWait
    <3>2. \A i \in Runs : run[i].pc # "work"
      BY CloseIsCalm DEF Stopped, Open
    <3>3. QED BY <1>2, <3>1, <3>2 DEF Write
  <2>2. QED BY <1>2, <2>1 DEF Write, Emptied
<1>3. CASE StartBatch
  <2>1. closing' = closing /\ Buffered' = Buffered
    BY <1>a, <1>3 DEF StartBatch, Buffered
  <2>2. QED BY <1>1, <2>1
<1>4. CASE BatchEnds
  <2>1. Buffered' = Buffered \ Flying
    BY <1>4 DEF BatchEnds, Buffered, Flying
  <2>2. \A k \in Closers : closing'[k].pc = closing[k].pc
                           /\ closing'[k].awaits = closing[k].awaits \ Flying
    BY <1>a, <1>4 DEF BatchEnds, Shutdown
  <2>3. QED BY <1>a, <2>1, <2>2 DEF Emptied
<1>5. CASE \/ \E o \in Operations : GetDriver(o)
           \/ \E n \in Connections : Connected(n) \/ ConnectFails(n)
           \/ WorkerRuns \/ WorkerAnswered \/ StartWorker \/ PauseOrResume
           \/ \E i \in Runs : Beats(i)
           \/ \E k \in Closers : CloseWorker(k) \/ CloserRuns(k)
           \/ UNCHANGED life
  <2>1. closing' = closing /\ write' = write
    BY <1>5 DEF GetDriver, Connected, ConnectFails, WorkerRuns, WorkerAnswered, StartWorker,
                PauseOrResume, Beats, CloseWorker, CloserRuns, life
  <2>2. QED BY <1>1, <2>1 DEF Buffered
<1>6. ASSUME NEW k \in Closers,
             \/ CloseBegins(k) \/ WorkersClosed(k) \/ Drained(k)
             \/ ForgetDriver(k) \/ CloseDriver(k)
      PROVE  Emptied'
  <2>1. write' = write /\ Buffered' = Buffered
    BY <1>6 DEF CloseBegins, WorkersClosed, Drained, ForgetDriver, CloseDriver, Buffered
  <2>2. \A m \in Closers : m # k => closing'[m] = closing[m]
    BY <1>a, <1>6 DEF CloseBegins, WorkersClosed, Drained, ForgetDriver, CloseDriver, Drains
  <2>3. /\ closing'[k].pc = "flush" => Buffered \subseteq closing'[k].awaits
        /\ closing'[k].pc \in {"caches", "driver"} => Buffered = {}
    <3>1. CASE Drains(k)
      BY <1>a, <3>1 DEF Drains
    <3>2. CASE closing' = [closing EXCEPT ![k].pc = "workers"]
      BY <1>a, <3>2 DEF Shutdown
    <3>3. CASE Drained(k)
      BY <1>a, <3>3 DEF Drained, Emptied, Shutdown
    <3>4. CASE ForgetDriver(k)
      BY <1>a, <3>4 DEF ForgetDriver, Emptied, Shutdown, AtRest
    <3>5. CASE CloseDriver(k)
      BY <1>a, <3>5 DEF CloseDriver, AtRest
    <3>6. QED BY <1>6, <3>1, <3>2, <3>3, <3>4, <3>5 DEF CloseBegins, WorkersClosed
  <2>4. QED BY <1>a, <2>1, <2>2, <2>3 DEF Emptied
<1>7. QED BY <1>2, <1>3, <1>4, <1>5, <1>6 DEF LifeNext

-----------------------------------------------------------------------------
(* What opens and closes no connection and moves no close() keeps the links*)
(* of the connection.                                                      *)
LEMMA LinksStay ==
  ASSUME Linked, UNCHANGED <<conn, promise>>,
         \A k \in Closers : closing'[k].pc = "driver" <=> closing[k].pc = "driver",
         \A k \in Closers : closing'[k].conn = closing[k].conn,
         \A o \in Operations : holds'[o] = holds[o] \/ holds'[o] \in {None, promise}
  PROVE  Linked'
<1>1. NoOrphan'
  BY DEF Linked, NoOrphan
<1>2. NothingCutOff'
  <2> SUFFICES ASSUME NEW o \in Operations, holds'[o] # None PROVE conn[holds'[o]] # "closed"
    BY DEF NothingCutOff
  <2>1. CASE holds'[o] = holds[o]
    BY <2>1 DEF Linked, NothingCutOff
  <2>2. CASE holds'[o] = promise
    BY <2>2 DEF Linked
  <2>3. QED BY <2>1, <2>2
<1>3. QED BY <1>1, <1>2 DEF Linked

(* In use is the connection of driverPromise or the one that is closed.    *)
LEMMA LinkedStep ==
  ASSUME Orderly, LifeInv, [LifeNext]_life
  PROVE  Linked'
<1> USE LifecycleAssumption
<1>a. LifeTypeOK /\ Linked /\ NoOrphan /\ NothingCutOff
  BY DEF LifeInv, Storage, Linked
<1>1. ASSUME UNCHANGED <<conn, promise, closing>>,
             \A o \in Operations : holds'[o] = holds[o] \/ holds'[o] \in {None, promise}
      PROVE  Linked'
  BY <1>a, <1>1, LinksStay
<1>2. ASSUME NEW o \in Operations, Answered(o)
      PROVE  \A p \in Operations : holds'[p] = holds[p] \/ holds'[p] \in {None, promise}
  BY <1>a, <1>2, AnsweredLetsGo
<1>3. CASE \/ WorkerRuns \/ StartWorker \/ PauseOrResume
           \/ \E w \in Writes : Write(w)
           \/ \E k \in Closers : CloseWorker(k) \/ CloserRuns(k)
           \/ StartBatch \/ UNCHANGED life
  <2>1. UNCHANGED <<conn, promise, closing, holds>>
    BY <1>3 DEF WorkerRuns, StartWorker, PauseOrResume, Write, CloseWorker, CloserRuns, StartBatch,
                life, link
  <2>2. QED BY <1>1, <2>1
<1>4. CASE WorkerAnswered
  <2>1. PICK o \in Operations : Answered(o)
    BY <1>4, OperationsAre DEF WorkerAnswered, Served
  <2>2. QED BY <1>1, <1>2, <1>4, <2>1 DEF WorkerAnswered, link
<1>5. ASSUME NEW i \in Runs, Beats(i) PROVE Linked'
  <2>1. holds' = holds \/ Answered(<<"beat", i>>)
    BY <1>5 DEF Beats, Served
  <2>2. \A p \in Operations : holds'[p] = holds[p] \/ holds'[p] \in {None, promise}
    BY <1>2, <2>1, OperationsAre
  <2>3. QED BY <1>1, <1>5, <2>2 DEF Beats, link
<1>6. CASE BatchEnds
  <2>1. \A p \in Operations : holds'[p] = holds[p] \/ holds'[p] \in {None, promise}
    BY <1>2, <1>6, OperationsAre DEF BatchEnds
  <2>2. \A k \in Closers : closing'[k].pc = closing[k].pc /\ closing'[k].conn = closing[k].conn
    BY <1>a, <1>6 DEF BatchEnds, LifeTypeOK, Shutdown
  <2>3. QED BY <1>a, <1>6, <2>1, <2>2, LinksStay DEF BatchEnds, link
<1>7. ASSUME NEW o \in Operations, GetDriver(o) PROVE Linked'
  <2> DEFINE n == CHOOSE m \in Connections : ~InUse(m)
  <2>1. Pending(o) /\ closing' = closing
    BY <1>7 DEF GetDriver
  <2>2. CASE promise # None /\ holds' = [holds EXCEPT ![o] = promise] /\ UNCHANGED link
    BY <1>1, <1>a, <2>1, <2>2 DEF link, LifeTypeOK
  <2>3. CASE /\ \E m \in Connections : ~InUse(m)
             /\ promise = None /\ conn' = [conn EXCEPT ![n] = "connecting"] /\ promise' = n
             /\ holds' = [holds EXCEPT ![o] = n]
    <3>1. n \in Connections /\ ~InUse(n)
      BY <2>3
    <3> HIDE DEF n
    <3>2. \A k \in Closers : closing[k].pc # "driver"
      BY <2>1, CloseIsCalm DEF LifeInv, Storage, Emptied
    <3>3. \A k \in Closers : closing[k].conn = None
      BY <1>a, <3>2 DEF Linked
    <3>4. /\ conn'[n] = "connecting" /\ holds'[o] = n
          /\ \A m \in Connections : m # n => conn'[m] = conn[m]
          /\ \A p \in Operations : p # o => holds'[p] = holds[p]
      BY <1>a, <2>3, <3>1 DEF LifeTypeOK
    <3>5. \A m \in Connections : conn[m] \notin {"connecting", "open"}
      BY <1>a, <2>3, <3>3 DEF NoOrphan
    <3>6. NoOrphan'
      BY <2>3, <3>4, <3>5 DEF NoOrphan
    <3>7. NothingCutOff'
      <4> SUFFICES ASSUME NEW p \in Operations, holds'[p] # None PROVE conn'[holds'[p]] # "closed"
        BY DEF NothingCutOff
      <4>1. CASE p = o
        BY <3>4, <4>1
      <4>2. CASE p # o
        BY <1>a, <3>1, <3>4, <4>2 DEF NothingCutOff, InUse, LifeTypeOK
      <4>3. QED BY <4>1, <4>2
    <3>8. QED BY <1>a, <2>1, <2>3, <3>1, <3>2, <3>4, <3>6, <3>7 DEF Linked
  <2>4. QED BY <1>7, <2>2, <2>3 DEF GetDriver
<1>8. ASSUME NEW n \in Connections, Connected(n) PROVE Linked'
  <2>1. /\ conn[n] = "connecting" /\ conn' = [conn EXCEPT ![n] = "open"]
        /\ UNCHANGED <<promise, holds, closing>>
    BY <1>8 DEF Connected
  <2>2. NoOrphan' /\ NothingCutOff'
    BY <1>a, <2>1 DEF NoOrphan, NothingCutOff, LifeTypeOK
  <2>3. promise' # None => conn'[promise'] \in {"connecting", "open"}
    BY <1>a, <2>1 DEF Linked, LifeTypeOK
  <2>4. QED BY <1>a, <2>1, <2>2, <2>3 DEF Linked
<1>9. ASSUME NEW n \in Connections, ConnectFails(n) PROVE Linked'
  <2>1. /\ conn[n] = "connecting" /\ conn' = [conn EXCEPT ![n] = "failed"]
        /\ promise' = None /\ UNCHANGED <<holds, closing>>
    BY <1>9 DEF ConnectFails
  <2>2. NothingCutOff'
    BY <1>a, <2>1 DEF NothingCutOff, LifeTypeOK
  <2>3. NoOrphan'
    <3> SUFFICES ASSUME NEW m \in Connections, conn'[m] \in {"connecting", "open"}
                 PROVE  \E k \in Closers : closing[k].conn = m
      BY <2>1 DEF NoOrphan
    <3>1. m # n /\ conn[m] \in {"connecting", "open"}
      BY <1>a, <2>1 DEF LifeTypeOK
    <3>2. promise # m
      <4>1. CASE promise = n
        BY <3>1, <4>1
      <4>2. CASE \E k \in Closers : closing[k].conn = n
        BY <1>a, <4>2 DEF Linked
      <4>3. QED BY <1>a, <2>1, <4>1, <4>2 DEF NoOrphan
    <3>3. QED BY <1>a, <3>1, <3>2 DEF NoOrphan
  <2>4. QED BY <1>a, <2>1, <2>2, <2>3 DEF Linked
<1>10. ASSUME NEW k \in Closers, CloseBegins(k) \/ WorkersClosed(k) \/ Drained(k) PROVE Linked'
  <2>1. UNCHANGED <<conn, promise, holds>>
    BY <1>10 DEF CloseBegins, WorkersClosed, Drained, link
  <2>2. closing[k].pc \in {"idle", "workers", "flush"} /\ closing[k].conn = None
    BY <1>10, <1>a DEF CloseBegins, WorkersClosed, Drained, Linked
  <2>3. /\ \A m \in Closers : m # k => closing'[m] = closing[m]
        /\ closing'[k].pc # "driver" /\ closing'[k].conn = None
    BY <1>10, <1>a, <2>2 DEF CloseBegins, WorkersClosed, Drained, Drains, LifeTypeOK, Shutdown
  <2>4. QED BY <1>a, <2>1, <2>2, <2>3, LinksStay
<1>11. ASSUME NEW k \in Closers, ForgetDriver(k) PROVE Linked'
  <2>1. UNCHANGED <<conn, holds>> /\ promise' = None /\ closing[k].conn = None
    BY <1>11, <1>a DEF ForgetDriver, Linked
  <2>2. /\ \A m \in Closers : m # k => closing'[m] = closing[m]
        /\ closing'[k].conn = promise
        /\ closing'[k].pc = "driver" <=> promise # None
    BY <1>11, <1>a DEF ForgetDriver, AtRest, LifeTypeOK, Shutdown
  <2>3. NoOrphan'
    BY <1>a, <2>1, <2>2 DEF NoOrphan
  <2>4. NothingCutOff'
    BY <1>a, <2>1 DEF NothingCutOff
  <2>5. QED BY <1>a, <2>1, <2>2, <2>3, <2>4 DEF Linked
<1>12. ASSUME NEW k \in Closers, CloseDriver(k) PROVE Linked'
  <2> DEFINE c == closing[k].conn
  <2>1. /\ closing[k].pc = "driver" /\ conn[c] # "connecting"
        /\ conn' = [conn EXCEPT ![c] = IF @ = "open" THEN "closed" ELSE @]
        /\ closing' = [closing EXCEPT ![k] = AtRest] /\ UNCHANGED <<promise, holds>>
    BY <1>12 DEF CloseDriver
  <2>2. promise = None /\ c # None /\ c \in Connections
    BY <1>a, <2>1 DEF Linked, LifeTypeOK, Shutdown
  <2>3. /\ \A o \in Operations : holds[o] = None
        /\ \A m \in Closers : m # k => closing[m].pc = "idle"
    BY <2>1, CloseIsCalm DEF LifeInv, Storage, Emptied
  <2>4. \A m \in Closers : m # k => closing[m].conn = None
    BY <1>a, <2>3 DEF Linked
  <2>5. closing'[k] = AtRest /\ \A m \in Closers : m # k => closing'[m] = closing[m]
    BY <1>a, <2>1 DEF LifeTypeOK
  <2>6. NothingCutOff'
    BY <2>1, <2>3 DEF NothingCutOff
  <2>7. \A n \in Connections : conn'[n] \notin {"connecting", "open"}
    <3>1. \A n \in Connections : conn[n] \in {"connecting", "open"} => n = c
      BY <1>a, <2>2, <2>4 DEF NoOrphan
    <3>2. QED BY <1>a, <2>1, <2>2, <3>1 DEF LifeTypeOK
  <2>8. NoOrphan'
    BY <2>7 DEF NoOrphan
  <2>9. \A m \in Closers : closing'[m].conn = None /\ closing'[m].pc # "driver"
    BY <2>3, <2>4, <2>5 DEF AtRest
  <2>10. QED BY <2>1, <2>2, <2>6, <2>8, <2>9 DEF Linked
<1>13. QED BY <1>3, <1>4, <1>5, <1>6, <1>7, <1>8, <1>9, <1>10, <1>11, <1>12 DEF LifeNext

-----------------------------------------------------------------------------
(* A KVDB that was made and not used is quiet.                             *)
LEMMA LifeBegins == LifeInit => LifeInv
<1> SUFFICES ASSUME LifeInit PROVE LifeInv
  OBVIOUS
<1> USE LifecycleAssumption
<1>1. Inv
  BY WorkerBegins DEF LifeInit
<1>2. LifeTypeOK
  <2>1. AtRest \in Shutdown
    BY DEF AtRest, Shutdown
  <2>2. QED BY <1>1, <2>1 DEF LifeInit, LifeTypeOK, Inv
<1>3. Order
  <2>1. Stopped /\ ~running /\ Unclosing
    BY DEF LifeInit, Init, Stopped, Open, Unclosing, NoLoop, NoRun, Idle
  <2>2. QED BY <2>1 DEF LifeInit, AtRest, Order, Gone, Listed, InOrder, Rested
<1>4. Held /\ BeatsWork /\ Emptied
  BY OperationsAre DEF LifeInit, AtRest, Held, BeatsWork, Emptied
<1>5. Linked
  BY DEF LifeInit, AtRest, Linked, NoOrphan, NothingCutOff
<1>6. QED BY <1>1, <1>2, <1>3, <1>4, <1>5 DEF LifeInv, Storage

(* The worker of a KVDB does nothing the worker alone does not, whatever   *)
(* close(), the buffer and the storage do: what is proved of it holds here.*)
THEOREM WorkerWithin == LifeSpec => Spec
<1>1. LifeInit => Init
  BY DEF LifeInit
<1>2. QED BY <1>1, WorkerSteps, PTL DEF LifeSpec, Spec

(* The inductive invariant of the life cycle, for a program that keeps to  *)
(* what Orderly asks of it.                                                *)
THEOREM LifeSound == ASSUME Orderly PROVE LifeSpec => []LifeInv
<1>1. LifeInv /\ [LifeNext]_life => LifeInv'
  <2> SUFFICES ASSUME LifeInv, [LifeNext]_life PROVE LifeInv'
    OBVIOUS
  <2>1. Inv' /\ Gone'
    BY WorkerKept DEF LifeInv, Order
  <2>2. LifeTypeOK'
    BY <2>1, LifeTypesStep DEF LifeInv, Inv
  <2>3. Listed' /\ InOrder' /\ Rested'
    BY OrderStep
  <2>4. Held' /\ BeatsWork' /\ Emptied' /\ Linked'
    BY HeldStep, BeatsStep, EmptiedStep, LinkedStep
  <2>5. QED BY <2>1, <2>2, <2>3, <2>4 DEF LifeInv, Order, Storage
<1>2. QED BY <1>1, LifeBegins, PTL DEF LifeSpec

(* What close() leaves behind when it has returned: nothing that runs, that*)
(* is buffered or that is connected.                                       *)
THEOREM NothingLeft == ASSUME Orderly PROVE LifeSpec => []ClosedIsQuiet
<1>1. LifeInv => ClosedIsQuiet
  <2> SUFFICES ASSUME LifeInv, resting
               PROVE  /\ ~running /\ Open = {} /\ Buffered = {} /\ promise = None
                      /\ \A n \in Connections : conn[n] \notin {"connecting", "open"}
    BY DEF ClosedIsQuiet
  <2>1. /\ ~running /\ Buffered = {} /\ promise = None
        /\ \A k \in Closers : closing[k].pc = "idle"
    BY DEF LifeInv, Order, Rested
  <2>2. Open = {}
    BY RestIsCalm DEF Stopped
  <2>3. \A k \in Closers : closing[k].conn = None
    BY <2>1 DEF LifeInv, Storage, Linked
  <2>4. \A n \in Connections : conn[n] \notin {"connecting", "open"}
    BY <2>1, <2>3, LifecycleAssumption DEF LifeInv, Storage, Linked, NoOrphan
  <2>5. QED BY <2>1, <2>2, <2>4
<1>2. QED BY <1>1, LifeSound, PTL

(* close() closes a connection that nobody has got.                        *)
THEOREM ServedBefore == ASSUME Orderly PROVE LifeSpec => []NothingCutOff
<1>1. LifeInv => NothingCutOff
  BY DEF LifeInv, Storage, Linked
<1>2. QED BY <1>1, LifeSound, PTL

=============================================================================
