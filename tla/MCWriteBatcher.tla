---------------------------- MODULE MCWriteBatcher ----------------------------
(* Keys, calls and flushers for checking WriteBatcher, and two instances   *)
(* of it in one run: batches of two, where a snapshot has several entries  *)
(* and the timer is armed, and batches of one, where the third and fourth  *)
(* call are held back by the second, which waits behind the first.         *)
EXTENDS WriteBatcher

CONSTANT f1

VARIABLE part

TwoKeys    == 1..2
OneKey     == {1}
ThreeCalls == 1..3
FourCalls  == 1..4
FiveCalls  == 1..5
OneFlusher == {f1}

Singles == INSTANCE WriteBatcher WITH MaxBatchSize <- 1, MaxBufferSize <- 1

(* Bounds: three calls of two keys, of which one has a value at first, or  *)
(* four calls of one key.                                                  *)
PairsBound   == call'[4] = IdleCall
SinglesBound == \A c \in Calls : call'[c].key # 2

PartInit ==
  /\ part \in {"pairs", "singles"} /\ Init
  /\ IF part = "pairs" THEN store[1] # store[2] ELSE store[2] = None

PartNext ==
  /\ UNCHANGED part
  /\ \/ part = "pairs" /\ Next /\ PairsBound
     \/ part = "singles" /\ Singles!Next /\ SinglesBound

Resumes ==
  \E w \in woken : IF part = "pairs" THEN Resume(w) ELSE Singles!Resume(w)

HandlerEnds ==
  IF part = "pairs" THEN HandlerResolves \/ HandlerRejects
  ELSE Singles!HandlerResolves \/ Singles!HandlerRejects

(* The fairness of WriteBatcher.                                           *)
PartSpec ==
  /\ PartInit /\ [][PartNext]_<<vars, part>>
  /\ WF_vars(TimerFires) /\ WF_vars(Resumes) /\ WF_vars(HandlerEnds)

(* WriteBatcher as it is.                                                  *)
WholeSpec ==
  part = "pairs" /\ Init /\ [][Next /\ UNCHANGED part]_<<vars, part>> /\ Fairness

=============================================================================
