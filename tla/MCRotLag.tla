------------------------------ MODULE MCRotLag ------------------------------
(* A ring of three, two packets a sendmmsg().                              *)
EXTENDS RotLag
=============================================================================
