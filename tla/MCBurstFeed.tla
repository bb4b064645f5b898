----------------------------- MODULE MCBurstFeed -----------------------------
(* Values for model checking BurstFeed.                                      *)
EXTENDS BurstFeed

Forward == {1}

=============================================================================
