----------------------------- MODULE MCJobQueue -----------------------------
(* A small instance of JobQueue.                                           *)
EXTENDS JobQueue, TLC

CONSTANTS j1, j2

(* j1 has the lower number, and j2 is removed when it is done.             *)
TwoJobs == {j1, j2}
OnlyTwo == {j2}
OneBeforeTwo == [j \in Jobs |-> IF j = j1 THEN 1 ELSE 2]

(* Consumers are interchangeable.                                          *)
Alike == Permutations(Consumers)

=============================================================================
