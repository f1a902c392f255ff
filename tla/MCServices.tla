------------------------------ MODULE MCServices ------------------------------
(* Small instances of the services.                                        *)
EXTENDS Services, TLC

-----------------------------------------------------------------------------
(* PubSub: one process publishes two messages, the other one and listens.  *)
Senders  == "m1" :> "p1" @@ "m2" :> "p1" @@ "m3" :> "p2"
Homes    == "h2" :> "p2"
Channels == [x \in {"m1", "m2", "m3", "h2"} |-> "a"]

-----------------------------------------------------------------------------
(* TieredCache: calls of all kinds that wait for each other; wraps with    *)
(* everything that goes wrong; wraps among deletions.                      *)
Asks(operations, overlap, refreshes, storeFails) ==
  [operations |-> operations, overlap |-> overlap, refreshes |-> refreshes,
   storeFails |-> storeFails, losses |-> 1]

Asked ==
  {[Asks({"get", "set", "delete", "wrap"}, FALSE, TRUE, FALSE) EXCEPT !.losses = 2],
   Asks({"wrap"}, TRUE, TRUE, TRUE), Asks({"wrap", "delete"}, TRUE, FALSE, FALSE)}

TwoTiers == 1..2

-----------------------------------------------------------------------------
(* BlobStore: blobs of two, one and no chunks, written once each, or over  *)
(* each other by calls that wait.                                          *)
Sizes == "b1" :> 2 @@ "b2" :> 1 @@ "b3" :> 0 @@ "b4" :> 2

Ways ==
  {[alone |-> FALSE, once |-> TRUE, faults |-> 1, expires |-> TRUE],
   [alone |-> TRUE, once |-> FALSE, faults |-> 0, expires |-> TRUE]}

-----------------------------------------------------------------------------
(* SoftDelete: a scalar, an object, and one that has a field _value.       *)
Stored ==
  {[kind |-> "scalar", of |-> "is" :> "x"], [kind |-> "object", of |-> "a" :> "x"],
   [kind |-> "object", of |-> "_value" :> "y" @@ "a" :> "y"]}

-----------------------------------------------------------------------------
(* Schedule: jobs that are removed when they are done, and workers that    *)
(* crash; jobs that stay, and fail; with cron and every; a push that fails;*)
(* a clock that is put back by the two minutes between two matches.        *)
Recurs(cron, removes, rejects, crashes, triggerFails) ==
  [queue |-> <<"q">>, name |-> <<"a">>, strays |-> FALSE,
   cron |-> cron, period |-> 2, turn |-> 0, back |-> 0,
   removes |-> removes, rejects |-> rejects, attempts |-> 2,
   unschedules |-> ~triggerFails, crashes |-> crashes, triggerFails |-> triggerFails,
   lapses |-> TRUE, prompt |-> TRUE, faults |-> 1]

Plans ==
  {Recurs(TRUE, TRUE, FALSE, TRUE, FALSE),
   [Recurs(TRUE, FALSE, TRUE, FALSE, FALSE) EXCEPT !.unschedules = FALSE, !.strays = TRUE],
   Recurs(FALSE, FALSE, TRUE, FALSE, FALSE),
   [Recurs(TRUE, TRUE, TRUE, TRUE, TRUE) EXCEPT !.turn = 2, !.back = 2]}

(* Schedules on which a property fails.                                    *)
LatePushes   == {[s EXCEPT !.prompt = FALSE] : s \in Plans}
CrashBetween == {[s EXCEPT !.removes = FALSE, !.crashes = TRUE] : s \in Plans}
CrashBuried  == {[s EXCEPT !.rejects = TRUE, !.crashes = TRUE] : s \in Plans}
ColonNames   == {[s EXCEPT !.name = <<"a", "b">>] : s \in Plans}
PutBack      == {[s EXCEPT !.turn = 3, !.back = 2, !.triggerFails = FALSE] : s \in Plans}

=============================================================================
