------------------------------ MODULE Lifecycle ------------------------------
(***************************************************************************)
(* The life of a KVDB (src/core/kvdb.ts): the connection that is opened on *)
(* first use, the timer that purges, the worker of a queue, the buffered   *)
(* writes, and close(), which stops and drains them in turn.               *)
(*                                                                         *)
(* The worker is that of Worker: each of its steps is a step here, and     *)
(* those that await the storage need a connection.  The buffer is what     *)
(* WriteBatcher promises: a batch at a time, and a flush() that waits for  *)
(* the writes buffered before it.                                          *)
(***************************************************************************)
EXTENDS Worker

CONSTANTS
  Connections,      (* names for the connections that matter at a time     *)
  ClientWrites,     (* buffered writes of the program                      *)
  JobWrites,        (* and of the processors of jobs                       *)
  TtlCleanup,       (* ttlCleanupIntervalMs is set                         *)
  MayNotConnect,    (* connecting may fail                                 *)
  BeatOverlaps,     (* a heartbeat may still be on its way when its job    *)
                    (* has ended                                           *)
  LateCalls,        (* the program may call while close() runs             *)
  Restarts          (* a closed worker may be started again                *)

Writes == ClientWrites \cup JobWrites

ASSUME LifecycleAssumption ==
  /\ None \notin Connections
  /\ {TtlCleanup, MayNotConnect, BeatOverlaps, LateCalls, Restarts} \subseteq BOOLEAN
  /\ ClientWrites \cap JobWrites = {}

VARIABLES
  conn,        (* the state of every connection                            *)
  promise,     (* driverPromise                                            *)
  holds,       (* the connection an operation of the storage has got       *)
  beat,        (* the heartbeat of a job that is on its way                *)
  write,       (* the state of every buffered write                        *)
  writer,      (* the job whose processor awaits it                        *)
  registered,  (* the worker is in activeWorkers                           *)
  timer,       (* cleanupTimer                                             *)
  closing,     (* the calls of KVDB.close()                                *)
  resting      (* close() has returned and nothing was called since        *)

link == <<conn, promise, timer>>
life == <<vars, link, holds, beat, write, writer, registered, closing, resting>>

-----------------------------------------------------------------------------
Operations == ({"pop"} \X Loops) \cup ({"job", "beat"} \X Runs) \cup {<<"batch", None>>}
Batch      == <<"batch", None>>
Shutdown   == [pc: {"idle", "workers", "flush", "caches", "driver"},
               awaits: SUBSET Writes, conn: Connections \cup {None}]
AtRest     == [pc |-> "idle", awaits |-> {}, conn |-> None]

LifeInit ==
  /\ Init
  /\ conn = [n \in Connections |-> "none"] /\ promise = None
  /\ holds = [o \in Operations |-> None] /\ beat = [i \in Runs |-> "none"]
  /\ write = [w \in Writes |-> "none"] /\ writer = [w \in Writes |-> None]
  /\ registered = FALSE /\ timer = FALSE
  /\ closing = [k \in Closers |-> AtRest] /\ resting = FALSE

Flying == {w \in Writes : write[w] = "flying"}

(* The operations that await the storage.                                  *)
Pending(o) ==
  \/ o[1] = "pop" /\ loop[o[2]].pc = "pop"
  \/ o[1] = "job" /\ run[o[2]].pc \in {"ack", "nack"}
  \/ o[1] = "beat" /\ beat[o[2]] # "none"
  \/ o = Batch /\ Flying # {}

MayCall == LateCalls \/ \A k \in Closers : closing[k].pc = "idle" /\ closer[k].pc = "idle"

-----------------------------------------------------------------------------
(* The connection.                                                         *)

InUse(n) ==
  \/ conn[n] \in {"connecting", "open"} \/ promise = n
  \/ \E o \in Operations : holds[o] = n
  \/ \E k \in Closers : closing[k].conn = n

(* getDriver(): the connection there is, or a new one, with a new timer.   *)
GetDriver(o) ==
  /\ Pending(o) /\ holds[o] = None
  /\ \/ /\ promise # None
        /\ holds' = [holds EXCEPT ![o] = promise]
        /\ UNCHANGED link
     \/ /\ promise = None
        /\ \E n \in Connections : ~InUse(n)
        /\ LET n == CHOOSE m \in Connections : ~InUse(m) IN
             /\ conn' = [conn EXCEPT ![n] = "connecting"]
             /\ promise' = n
             /\ holds' = [holds EXCEPT ![o] = n]
        /\ timer' = (timer \/ TtlCleanup)
  /\ UNCHANGED <<vars, beat, write, writer, registered, closing, resting>>

Connected(n) ==
  /\ conn[n] = "connecting"
  /\ conn' = [conn EXCEPT ![n] = "open"]
  /\ UNCHANGED <<vars, promise, timer, holds, beat, write, writer, registered, closing, resting>>

(* Whatever driverPromise is by now, it is forgotten.                      *)
ConnectFails(n) ==
  /\ MayNotConnect /\ conn[n] = "connecting"
  /\ conn' = [conn EXCEPT ![n] = "failed"]
  /\ promise' = None /\ timer' = FALSE
  /\ UNCHANGED <<vars, holds, beat, write, writer, registered, closing, resting>>

(* o is done with its connection, which served it or refused to.           *)
Answered(o) ==
  /\ holds[o] # None /\ conn[holds[o]] # "connecting"
  /\ holds' = [holds EXCEPT ![o] = None]

Served(o) == Answered(o) /\ conn[holds[o]] = "open"

-----------------------------------------------------------------------------
(* The worker.                                                             *)

(* A step of the worker between two awaits that needs no storage.          *)
WorkerRuns ==
  /\ \/ \E l \in Loops : GoesOn(l) \/ TimerFires(l)
     \/ \E i \in Runs : \/ ProcessorRejects(i) /\ \A w \in Writes : writer[w] # i
                        \/ ProcessorResolves(i) /\ \A w \in Writes : writer[w] # i
     \/ \E j \in Jobs : Arrives(j)
  /\ BeatOverlaps \/ \A i \in Runs : run'[i].pc \in {"ack", "nack"} => beat[i] = "none"
  /\ UNCHANGED <<link, holds, beat, write, writer, registered, closing, resting>>

WorkerAnswered ==
  /\ \/ \E l \in Loops : \/ \E j \in Jobs, i \in Runs : PopTakes(l, j, i) /\ Served(<<"pop", l>>)
                         \/ PopMisses(l) /\ Answered(<<"pop", l>>)
     \/ \E i \in Runs : /\ Answered(<<"job", i>>)
                        /\ \/ AckFails(i)
                           \/ Settled(i) /\ (run[i].pc = "ack" => Served(<<"job", i>>))
  /\ UNCHANGED <<link, beat, write, writer, registered, closing, resting>>

(* A heartbeat reads the job, then writes it; nobody awaits it.            *)
Beats(i) ==
  /\ \/ run[i].pc = "work" /\ beat[i] = "none" /\ beat' = [beat EXCEPT ![i] = "read"] /\ UNCHANGED holds
     \/ beat[i] = "read" /\ Served(<<"beat", i>>) /\ beat' = [beat EXCEPT ![i] = "write"]
     \/ beat[i] # "none" /\ Answered(<<"beat", i>>) /\ beat' = [beat EXCEPT ![i] = "none"]
  /\ UNCHANGED <<vars, link, write, writer, registered, closing, resting>>

(* worker() and start().  start() alone does not register a worker that was*)
(* closed.                                                                 *)
StartWorker ==
  /\ MayCall /\ \E l \in Loops : Start(l)
  /\ registered' = TRUE \/ (Restarts /\ registered' = registered)
  /\ resting' = FALSE
  /\ UNCHANGED <<link, holds, beat, write, writer, closing>>

(* close() of the worker, by the program; when it returns, the event       *)
(* "closed" takes the worker out of activeWorkers.                         *)
CloseWorker(k) ==
  /\ MayCall /\ closing[k].pc = "idle" /\ Close(k)
  /\ resting' = FALSE
  /\ UNCHANGED <<link, holds, beat, write, writer, registered, closing>>

CloserRuns(k) ==
  /\ LoopOver(k) \/ JobsOver(k)
  /\ registered' = (registered /\ closer'[k].pc # "idle")
  /\ UNCHANGED <<link, holds, beat, write, writer, closing, resting>>

PauseOrResume ==
  /\ MayCall /\ (Pause \/ Resume)
  /\ resting' = FALSE
  /\ UNCHANGED <<link, holds, beat, write, writer, registered, closing>>

-----------------------------------------------------------------------------
(* The buffered writes.                                                    *)

Write(w) ==
  /\ write[w] = "none"
  /\ write' = [write EXCEPT ![w] = "buffered"]
  /\ \/ /\ w \in ClientWrites /\ MayCall
        /\ resting' = FALSE /\ UNCHANGED writer
     \/ /\ w \in JobWrites
        /\ \E i \in Runs : run[i].pc = "work" /\ writer' = [writer EXCEPT ![w] = i]
        /\ UNCHANGED resting
  /\ UNCHANGED <<vars, link, holds, beat, registered, closing>>

StartBatch ==
  /\ Flying = {} /\ \E w \in Writes : write[w] = "buffered"
  /\ write' = [w \in Writes |-> IF write[w] = "buffered" THEN "flying" ELSE write[w]]
  /\ UNCHANGED <<vars, link, holds, beat, writer, registered, closing, resting>>

(* The callers are answered, stored or not.                                *)
BatchEnds ==
  /\ Flying # {} /\ Answered(Batch)
  /\ write' = [w \in Writes |-> IF w \in Flying THEN "none" ELSE write[w]]
  /\ writer' = [w \in Writes |-> IF w \in Flying THEN None ELSE writer[w]]
  /\ closing' = [k \in Closers |-> [closing[k] EXCEPT !.awaits = @ \ Flying]]
  /\ UNCHANGED <<vars, link, beat, registered, resting>>

-----------------------------------------------------------------------------
(* close().                                                                *)

Buffered == {w \in Writes : write[w] # "none"}

(* flush() of every table.                                                 *)
Drains(k) == closing' = [closing EXCEPT ![k] = [pc |-> "flush", awaits |-> Buffered, conn |-> None]]

CloseBegins(k) ==
  /\ closing[k].pc = "idle" /\ MayCall
  /\ timer' = FALSE /\ resting' = FALSE
  /\ IF registered
     THEN Close(k) /\ closing' = [closing EXCEPT ![k].pc = "workers"]
     ELSE UNCHANGED vars /\ Drains(k)
  /\ UNCHANGED <<conn, promise, holds, beat, write, writer, registered>>

(* Mutant: the tables are flushed while the workers are still stopping.    *)
WorkersClosedEarly(k) ==
  /\ closing[k].pc = "workers"
  /\ registered' = FALSE
  /\ Drains(k)
  /\ UNCHANGED <<vars, link, holds, beat, write, writer, resting>>

WorkersClosed(k) ==
  /\ closing[k].pc = "workers" /\ closer[k].pc = "idle"
  /\ registered' = FALSE
  /\ Drains(k)
  /\ UNCHANGED <<vars, link, holds, beat, write, writer, resting>>

(* The caches and the pub/sub manager are closed next.                     *)
Drained(k) ==
  /\ closing[k].pc = "flush" /\ closing[k].awaits = {}
  /\ closing' = [closing EXCEPT ![k].pc = "caches"]
  /\ UNCHANGED <<vars, link, holds, beat, write, writer, registered, resting>>

(* The connection is forgotten, then closed.                               *)
ForgetDriver(k) ==
  /\ closing[k].pc = "caches"
  /\ promise' = None
  /\ closing' = [closing EXCEPT ![k] = IF promise = None THEN AtRest
                                       ELSE [@ EXCEPT !.pc = "driver", !.conn = promise]]
  /\ resting' = (promise = None)
  /\ UNCHANGED <<vars, conn, timer, holds, beat, write, writer, registered>>

CloseDriver(k) ==
  /\ closing[k].pc = "driver" /\ conn[closing[k].conn] # "connecting"
  /\ conn' = [conn EXCEPT ![closing[k].conn] = IF @ = "open" THEN "closed" ELSE @]
  /\ closing' = [closing EXCEPT ![k] = AtRest]
  /\ resting' = TRUE
  /\ UNCHANGED <<vars, promise, timer, holds, beat, write, writer, registered>>

-----------------------------------------------------------------------------
LifeNext ==
  \/ \E o \in Operations : GetDriver(o)
  \/ \E n \in Connections : Connected(n) \/ ConnectFails(n)
  \/ WorkerRuns \/ WorkerAnswered \/ StartWorker \/ PauseOrResume
  \/ \E i \in Runs : Beats(i)
  \/ \E w \in Writes : Write(w)
  \/ StartBatch \/ BatchEnds
  \/ \E k \in Closers : \/ CloseWorker(k) \/ CloserRuns(k)
                        \/ CloseBegins(k) \/ WorkersClosed(k) \/ Drained(k)
                        \/ ForgetDriver(k) \/ CloseDriver(k)

LifeSpec == LifeInit /\ [][LifeNext]_life

(* What the runtime does by itself; every operation of the storage is      *)
(* answered; a server that is asked again and again can be reached, a pop()*)
(* tried again and again gets the job, a processor ends.                   *)
LifeFairSpec ==
  /\ LifeSpec
  /\ \A o \in Operations : WF_life(GetDriver(o))
  /\ \A n \in Connections : SF_life(Connected(n))
  /\ \A l \in Loops :
       WF_life(\/ WorkerRuns /\ (GoesOn(l) \/ TimerFires(l))
               \/ WorkerAnswered /\ loop[l] # loop'[l])
  /\ \A i \in Runs :
       /\ (\A w \in JobWrites : []<>(writer[w] # i)) => []<>(run[i].pc # "work")
       /\ WF_life(WorkerAnswered /\ run[i].pc \in {"ack", "nack"} /\ run'[i] # run[i])
       /\ WF_life(Beats(i) /\ beat[i] # "none")
  /\ WF_life(StartBatch) /\ WF_life(BatchEnds)
  /\ \A k \in Closers : WF_life(\/ CloserRuns(k) \/ WorkersClosed(k) \/ Drained(k)
                                \/ ForgetDriver(k) \/ CloseDriver(k))

-----------------------------------------------------------------------------
(* The variables hold values of their types, and only a write that is      *)
(* buffered is awaited by a processor.                                     *)
LifeTypeOK ==
  /\ TypeOK
  /\ conn \in [Connections -> {"none", "connecting", "open", "closed", "failed"}]
  /\ promise \in Connections \cup {None}
  /\ holds \in [Operations -> Connections \cup {None}]
  /\ beat \in [Runs -> {"none", "read", "write"}]
  /\ write \in [Writes -> {"none", "buffered", "flying"}]
  /\ writer \in [Writes -> Runs \cup {None}] /\ \A w \in Writes : writer[w] # None => write[w] # "none"
  /\ closing \in [Closers -> Shutdown]
  /\ {registered, timer, resting} \subseteq BOOLEAN

(* A KVDB that was closed and not used since has nothing open: no          *)
(* connection, no buffered write, no worker, no job.                       *)
ClosedIsQuiet ==
  resting => /\ ~running /\ Open = {} /\ Buffered = {}
             /\ promise = None /\ \A n \in Connections : conn[n] \notin {"connecting", "open"}

(* The purge timer "is cleared on close()" (src/core/kvdb.ts).             *)
TimerCleared == resting => ~timer

(* close() never closes a connection under an operation that uses it: jobs *)
(* in progress are acknowledged and buffered writes are stored before.     *)
NothingCutOff == \A o \in Operations : holds[o] # None => conn[holds[o]] # "closed"

(* Every connection that was opened is the one in use or is being closed:  *)
(* none is forgotten open.                                                 *)
NoOrphan ==
  \A n \in Connections :
    conn[n] \in {"connecting", "open"} => promise = n \/ \E k \in Closers : closing[k].conn = n

(* close() returns, of the KVDB and of the worker.                         *)
CloseReturns ==
  \A k \in Closers :
    /\ (closing[k].pc # "idle") ~> (closing[k].pc = "idle")
    /\ (closer[k].pc # "idle") ~> (closer[k].pc = "idle")

=============================================================================
