------------------------------- MODULE MCBNFT -------------------------------
(***************************************************************************)
(* Instances of BNFT for TLC.                                              *)
(***************************************************************************)
EXTENDS BNFT, TLC

\* Token ids are interchangeable: no operator of BNFT compares them otherwise
\* than for equality.
TokenSymmetry == Permutations(Tokens)
=============================================================================
