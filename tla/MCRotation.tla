----------------------------- MODULE MCRotation -----------------------------
(* Rotation and its inductive invariant on small instances; the constants  *)
(* are given in the .cfg files.                                            *)
EXTENDS Rotation_proofs
=============================================================================
