---------------------------- MODULE MCHikeDict ----------------------------
(* Six keys of two hashes: three meet in the last slot of the first table  *)
(* and run into the three that follow it.  The second table, of 16 slots,  *)
(* has room for them side by side.                                         *)
EXTENDS HikeDict, TLC

CONSTANTS k1, k2, k3, k4, k5, k6, v1, v2

MCHash == [k \in Keys |-> IF k \in {k1, k2, k3} THEN 7 ELSE 8]

\* Keys of one hash are alike.
KeySymmetry ==
  {p @@ q : p \in Permutations({k1, k2, k3}), q \in Permutations({k4, k5, k6})}

\* Bound: either few keys are live, and any number is deleted and set again,
\* or many are, of one value, and one was deleted.  The first fills the
\* array of entries, the second the index table, and each makes it grow.
Explored ==
  \/ live <= 2
  \/ Len(entries) - live <= 1 /\ \A i \in LiveEntries : entries[i].value = v1
===========================================================================
