------------------------------- MODULE MCJobs -------------------------------
(***************************************************************************)
(* A small instance of Worker, and one of JobQueue in which calls come     *)
(* late: a behaviour is one of either, chosen at the start, and the other  *)
(* stays as it is at first.                                                *)
(***************************************************************************)
EXTENDS Worker, TLC

CONSTANTS j1, j2, j3, l1, l2, r1, r2, r3, k1, k2, c1, c2, m1, t1, t2, t3, t4, t5, t6

VARIABLES
  part,             (* which of the two it is                              *)
  row, consumer, beat, maint, seen, pushed, acked, runs, faults

queue == <<row, consumer, beat, maint, seen, pushed, acked, runs, faults>>

-----------------------------------------------------------------------------
(* One consumer that may fall asleep over its lease, on a driver that      *)
(* compares values only; its job is tried three times, with a backoff.     *)
Consumers == {c1}
Urgency   == [j \in {j1} |-> 1]

Q == INSTANCE JobQueue WITH
  Jobs <- {j1}, Maintainers <- {m1}, Tokens <- {t1, t2, t3, t4, t5, t6}, Nobody <- None,
  NoRow <- r1, Priority <- Urgency, Removed <- {}, MaxAttempts <- 3, Lease <- 3, Backoff <- 1,
  Exponential <- TRUE, MaxDelay <- 2, MaxFaults <- 3, MaxRuns <- 6,
  AtomicRow <- FALSE, LeaseKept <- FALSE, BeatOverlaps <- FALSE

-----------------------------------------------------------------------------
JobsInit ==
  /\ part \in {"worker", "queue"}
  /\ Init /\ Q!Init

JobsNext ==
  \/ part = "worker" /\ Next   /\ UNCHANGED <<part, queue>>
  \/ part = "queue"  /\ Q!Next /\ UNCHANGED <<part, vars>>

InQueue(A) == part = "queue" /\ A

(* The fairness of Worker, which asks nothing of one that was not started; *)
(* and that of JobQueue.                                                   *)
JobsSpec ==
  /\ JobsInit /\ [][JobsNext]_<<part, vars, queue>> /\ Fairness
  /\ WF_queue(InQueue(Q!Tick))
  /\ \A c \in Consumers : /\ WF_queue(InQueue(Q!Consume(c))) /\ WF_queue(InQueue(Q!BeatWrite(c)))
                          /\ SF_queue(InQueue(Q!ProcessorFails(c) \/ Q!AckRead(c)))

-----------------------------------------------------------------------------
(* The properties of JobQueue, which puts them into words.                 *)
JobsSettle      == Q!JobsSettle
BuriedAfterMax  == Q!BuriedAfterMax

=============================================================================
