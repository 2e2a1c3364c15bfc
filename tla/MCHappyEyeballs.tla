-------------------------- MODULE MCHappyEyeballs --------------------------
(* Both address families, complete: the constants only name "none".        *)
EXTENDS HappyEyeballs
=============================================================================
