----------------------------- MODULE MCDocument -----------------------------
(***************************************************************************)
(* The document on a small instance, every operation together.             *)
(***************************************************************************)
EXTENDS Document, TLC

TextSymmetry == Permutations(Texts)
=============================================================================
