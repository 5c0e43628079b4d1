----------------------------- MODULE MCHikeArea -----------------------------
(***************************************************************************)
(* An instance of HikeArea for TLC.                                        *)
(***************************************************************************)
EXTENDS HikeArea, TLC

Symmetric == Permutations(Threads) \cup Permutations(Buffers)
=============================================================================
