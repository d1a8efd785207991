------------------------ MODULE MCBobserverSchedule ------------------------
(* An instance of BobserverSchedule for TLC: one hardfork by date, and      *)
(* votes for the next one, which this node knows, some time later, and for  *)
(* one that it does not know, at once.                                      *)
EXTENDS BobserverSchedule

HeaderVotes == {<<2, 13>>, <<3, 3>>}
=============================================================================
