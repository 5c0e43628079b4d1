---------------------------- MODULE OrderedMap ----------------------------
(***************************************************************************)
(* What compact-dict.md promises of map[K]V: each key has one value, and   *)
(* iteration meets the keys in the order of their insertion.  An update    *)
(* leaves a key where it is; a key that is deleted and set again comes     *)
(* last.                                                                   *)
(***************************************************************************)
EXTENDS Sequences, SequencesExt

CONSTANTS Keys, Values

VARIABLE pairs  \* Seq of [key, value], oldest first

MapInit == pairs = <<>>

KeyAt(i) == pairs[i].key

Put(k, v) ==
  IF \E i \in DOMAIN pairs : KeyAt(i) = k
    THEN pairs' = [i \in DOMAIN pairs |->
                     IF KeyAt(i) = k THEN [pairs[i] EXCEPT !.value = v] ELSE pairs[i]]
    ELSE pairs' = Append(pairs, [key |-> k, value |-> v])

Delete(k) ==
  IF \E i \in DOMAIN pairs : KeyAt(i) = k
    THEN \E i \in DOMAIN pairs : KeyAt(i) = k /\ pairs' = RemoveAt(pairs, i)
    ELSE UNCHANGED pairs

MapNext == \E k \in Keys : Delete(k) \/ \E v \in Values : Put(k, v)

MapSpec == MapInit /\ [][MapNext]_pairs
=============================================================================
