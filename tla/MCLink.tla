------------------------------- MODULE MCLink -------------------------------
(* Link on two descriptor numbers and two client ports.                    *)
EXTENDS Link
=============================================================================
