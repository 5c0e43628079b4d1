----------------------------- MODULE HikeDict -----------------------------
(***************************************************************************)
(* The compact dict behind map[K]V: an index table with open addressing    *)
(* and linear probing over an array of entries in the order of their       *)
(* insertion (__hike_compact_map_* of runtime_common.ll).                  *)
(*                                                                         *)
(* Hash stands for FNV-1a of a string key or for an integer key itself.    *)
(* It is a function of the key, so that comparing the stored hash and then *)
(* the key is comparing the key.  Entries are numbered from 1.             *)
(***************************************************************************)
EXTENDS Integers, Sequences, FiniteSets

CONSTANTS
  Keys, Values,
  Hash,         \* [Keys -> Nat]
  Requested,    \* the capacity make(map[K]V, n) asks for
  MaxEntries    \* bound: how many entries are ever written

ASSUME HashAssumption == Hash \in [Keys -> Nat]
ASSUME RequestedAssumption == Requested \in Nat
ASSUME MaxEntriesAssumption == MaxEntries \in Nat

VARIABLES
  cap,      \* slots of the index table, and room in the array of entries
  indices,  \* [0 .. cap - 1 -> number of an entry, or Empty or Deleted]
  entries,  \* Seq of [key, value, live]
  live,     \* the count of live entries, as the dict keeps it
  growing,  \* the set that waits for a growth, as a set of at most one pair
  next      \* the next entry to be rehashed

vars == <<cap, indices, entries, live, growing, next>>

Empty == -1
Deleted == -2
Slots == 0 .. cap - 1

\* What is left of a deleted entry.  The runtime clears the state word only,
\* but nothing reads the rest again.
Dead == [key |-> "none", value |-> "none", live |-> FALSE]
Entry(k, v) == [key |-> k, value |-> v, live |-> TRUE]

TypeOK ==
  /\ cap \in Nat /\ cap >= 8
  /\ indices \in [Slots -> {Empty, Deleted} \cup DOMAIN entries]
  /\ entries \in Seq({Entry(k, v) : k \in Keys, v \in Values} \cup {Dead})
  /\ Len(entries) <= cap
  /\ live \in 0 .. cap
  /\ growing \subseteq Keys \X Values
  /\ next \in 1 .. Len(entries) + 1

\* __hike_compact_map_create
Init ==
  /\ cap = IF Requested >= 8 THEN Requested ELSE 8
  /\ indices = [s \in Slots |-> Empty]
  /\ entries = <<>>
  /\ live = 0
  /\ growing = {}
  /\ next = 1

-----------------------------------------------------------------------------
(* Probing                                                                 *)

\* The slot that try number n for key k comes to.
Slot(k, n) == (Hash[k] + n) % cap

Holds(s, k) == indices[s] \in DOMAIN entries /\ entries[indices[s]].key = k

\* The slot where probing for k stops, if it does within cap tries.
FirstSlot(k, Stops(_)) ==
  LET tries == {n \in Slots : Stops(Slot(k, n))}
      first == CHOOSE n \in tries : \A m \in tries : n <= m
  IN  IF tries = {} THEN {} ELSE {Slot(k, first)}

\* __hike_compact_map_get and _delete look past deleted slots ...
LookupSlot(k) ==
  LET Stops(s) == indices[s] = Empty \/ Holds(s, k)
  IN  {s \in FirstSlot(k, Stops) : Holds(s, k)}

\* ... _set takes the first slot it may write to ...
SetSlot(k) ==
  LET Stops(s) == indices[s] \in {Empty, Deleted} \/ Holds(s, k)
  IN  FirstSlot(k, Stops)

\* ... and _grow the first empty one.
RehashSlot(k) ==
  LET Stops(s) == indices[s] = Empty
  IN  FirstSlot(k, Stops)

\* The values __hike_compact_map_get finds: none or one.
Get(k) == {entries[indices[s]].value : s \in LookupSlot(k)}

-----------------------------------------------------------------------------
(* Operations                                                              *)

\* Mutant: growth looks at the load only.
GrowsByLoad == live * 4 >= cap * 3
NeedsGrow == live * 4 >= cap * 3 \/ Len(entries) >= cap

\* The new index table is empty, and the entries move as they are.
BeginGrow(k, v) ==
  /\ cap' = cap * 2
  /\ indices' = [s \in 0 .. cap * 2 - 1 |-> Empty]
  /\ growing' = {<<k, v>>}
  /\ next' = 1
  /\ UNCHANGED <<entries, live>>

\* Mutant: an update goes to the entry that was added last.
UpdateLast(s, v) ==
  /\ entries' = [entries EXCEPT ![Len(entries)].value = v]
  /\ UNCHANGED <<indices, live>>

Update(s, v) ==
  /\ entries' = [entries EXCEPT ![indices[s]].value = v]
  /\ UNCHANGED <<indices, live>>

\* Mutant: the first deleted entry is used again.
InsertReusing(s, k, v) ==
  LET dead == {i \in DOMAIN entries : ~entries[i].live}
      i == IF dead = {} THEN Len(entries) + 1
                        ELSE CHOOSE d \in dead : \A e \in dead : d <= e
  IN  /\ entries' = IF dead = {} THEN Append(entries, Entry(k, v))
                                 ELSE [entries EXCEPT ![i] = Entry(k, v)]
      /\ indices' = [indices EXCEPT ![s] = i]
      /\ live' = live + 1

Insert(s, k, v) ==
  /\ entries' = Append(entries, Entry(k, v))
  /\ indices' = [indices EXCEPT ![s] = Len(entries) + 1]
  /\ live' = live + 1

Store(k, v) ==
  /\ IF SetSlot(k) = {}
       THEN UNCHANGED <<entries, indices, live>>
       ELSE \E s \in SetSlot(k) :
              IF Holds(s, k) THEN Update(s, v) ELSE Insert(s, k, v)
  /\ growing' = {}
  /\ next' = 1
  /\ UNCHANGED cap

\* load_map, where a set begins and comes back to after a growth.
LoadMap(k, v) == IF NeedsGrow THEN BeginGrow(k, v) ELSE Store(k, v)

Set(k, v) ==
  /\ growing = {}
  /\ Len(entries) < MaxEntries
  /\ LoadMap(k, v)

\* Mutant: an entry that collides overwrites the one in its slot.
RehashOver ==
  /\ growing # {}
  /\ next <= Len(entries)
  /\ indices' = IF entries[next].live
                  THEN [indices EXCEPT ![Slot(entries[next].key, 0)] = next]
                  ELSE indices
  /\ next' = next + 1
  /\ UNCHANGED <<cap, entries, live, growing>>

\* One turn of the loop of __hike_compact_map_grow.
Rehash ==
  /\ growing # {}
  /\ next <= Len(entries)
  /\ IF entries[next].live
       THEN \E s \in RehashSlot(entries[next].key) :
              indices' = [indices EXCEPT ![s] = next]
       ELSE UNCHANGED indices
  /\ next' = next + 1
  /\ UNCHANGED <<cap, entries, live, growing>>

Retry ==
  /\ growing # {}
  /\ next = Len(entries) + 1
  /\ \E kv \in growing : LoadMap(kv[1], kv[2])

\* Mutant: the slot of a deleted entry becomes empty.
EraseEmptying(s) ==
  /\ indices' = [indices EXCEPT ![s] = Empty]
  /\ entries' = [entries EXCEPT ![indices[s]] = Dead]
  /\ live' = live - 1

Erase(s) ==
  /\ indices' = [indices EXCEPT ![s] = Deleted]
  /\ entries' = [entries EXCEPT ![indices[s]] = Dead]
  /\ live' = live - 1

Delete(k) ==
  /\ growing = {}
  /\ IF LookupSlot(k) = {}
       THEN UNCHANGED <<indices, entries, live>>
       ELSE \E s \in LookupSlot(k) : Erase(s)
  /\ UNCHANGED <<cap, growing, next>>

Next ==
  \/ \E k \in Keys : Delete(k) \/ \E v \in Values : Set(k, v)
  \/ Rehash
  \/ Retry

Spec == Init /\ [][Next]_vars

-----------------------------------------------------------------------------
(* Correctness                                                             *)

LiveEntries == {i \in DOMAIN entries : entries[i].live}

\* The entries the index table should hold: during a growth, those it has
\* come to.
Indexed == IF growing = {} THEN LiveEntries ELSE {i \in LiveEntries : i < next}

\* The index table holds each live entry once and nothing else, so that no
\* slot leads to a deleted entry; live counts them; and probing always comes
\* to a slot that is empty.
DictInv ==
  /\ {indices[s] : s \in Slots} \ {Empty, Deleted} = Indexed
  /\ \A s, t \in Slots : indices[s] = indices[t] /\ indices[s] \in Indexed => s = t
  /\ live = Cardinality(LiveEntries)
  /\ growing # {} => ~NeedsGrow
  /\ \E s \in Slots : indices[s] \in {Empty, Deleted}

\* A get finds a key just when the dict holds a live entry of it, and reads
\* the value of one, whatever was deleted on the way there and however the
\* table has grown.
KeysFound ==
  growing = {} =>
    \A k \in Keys :
      LET held == {entries[i].value : i \in {j \in LiveEntries : entries[j].key = k}}
      IN  Get(k) \subseteq held /\ (held # {} => Get(k) # {})

\* Two live entries of one key.
Shadowed ==
  \E i, j \in LiveEntries : i # j /\ entries[i].key = entries[j].key

\* How many live entries a scan has met when it has passed entry i.
Rank(i) == Cardinality({j \in 1 .. i : entries[j].live})

\* __hike_cdict_entry_at: the live entry with the ordinal n.
EntryAt(n) == CHOOSE i \in DOMAIN entries : entries[i].live /\ Rank(i) = n

\* What a range loop comes to: __hike_cdict_len entries.
Pairs ==
  [n \in 1 .. live |->
     LET e == entries[EntryAt(n)] IN [key |-> e.key, value |-> e.value]]

Map == INSTANCE OrderedMap WITH pairs <- Pairs

\* As long as no key has two live entries, each operation of the code does to
\* the map what that operation should, at the step that ends it: a set that
\* has to grow first and probe again too.  No other step shows.
StepsOfMap ==
  [][~Shadowed /\ ~Shadowed' =>
       /\ \A k \in Keys : Delete(k) => Map!Delete(k)
       /\ \A k \in Keys, v \in Values :
            /\ Set(k, v) => IF growing' = {} THEN Map!Put(k, v) ELSE UNCHANGED Pairs
            /\ Retry /\ growing = {<<k, v>>} => Map!Put(k, v)
       /\ Rehash => UNCHANGED Pairs]_vars

\* A range loop numbers the live entries it comes to.  A set, with or without
\* a growth, leaves the number of every key alone.
OrdinalsStable ==
  [][live' >= live =>
       \A i \in DOMAIN Pairs : i \in DOMAIN Pairs' /\ Pairs'[i].key = Pairs[i].key]_vars

\* The dict is the map that its documentation describes.
ImplementsMap == Map!MapSpec
=============================================================================
