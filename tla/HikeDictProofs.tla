--------------------------- MODULE HikeDictProofs ---------------------------
(***************************************************************************)
(* Proofs about HikeDict for all keys, values and hashes, every capacity   *)
(* asked for, and any number of growths and deletions.                     *)
(***************************************************************************)
EXTENDS HikeDict, FiniteSetTheorems, WellFoundedInduction, TLAPS

-----------------------------------------------------------------------------
(* The inductive invariant                                                 *)

EntrySet == {Entry(k, v) : k \in Keys, v \in Values} \cup {Dead}

\* A lookup of the key that slot s holds comes to s: no slot on the way from
\* the key's hash is empty.
Reachable(s) ==
  LET k == entries[indices[s]].key
  IN  \E n \in Slots : /\ Slot(k, n) = s
                       /\ \A m \in 0 .. n - 1 : indices[Slot(k, m)] # Empty

Reach == \A s \in Slots : indices[s] \in DOMAIN entries => Reachable(s)

\* DictInv, but for the free slot, which follows from it by counting.
Table ==
  /\ \A s \in Slots : indices[s] \in {Empty, Deleted} \cup Indexed
  /\ \A i \in Indexed : \E s \in Slots : indices[s] = i
  /\ \A s, t \in Slots : indices[s] = indices[t] /\ indices[s] \in Indexed => s = t

Counts ==
  /\ live = Cardinality(LiveEntries)
  /\ live < cap
  /\ growing # {} => ~NeedsGrow

IInv == TypeOK /\ Table /\ Counts /\ Reach

-----------------------------------------------------------------------------
(* Probing                                                                 *)

LEMMA SlotInRange ==
  ASSUME TypeOK, NEW k \in Keys, NEW n \in Slots
  PROVE  Slot(k, n) \in Slots
<1>1. Hash[k] \in Nat
  BY HashAssumption
<1> QED BY <1>1 DEF TypeOK, Slot, Slots

\* The first try of a set of tries.
LEMMA FirstTry ==
  ASSUME TypeOK, NEW T \in SUBSET Slots, T # {}
  PROVE  \E n \in T : \A m \in T : n <= m
<1> DEFINE R == OpToRel(<, Nat)
<1>1. T \subseteq Nat
  BY DEF TypeOK, Slots
<1>2. IsWellFoundedOn(R, Nat)
  BY NatLessThanWellFounded
<1> HIDE DEF R
<1>3. PICK n \in T : \A m \in T : ~(<<m, n>> \in R)
  BY <1>1, <1>2, WFMin
<1>4. \A m \in T : ~(m < n)
  BY <1>1, <1>3 DEF R, OpToRel
<1> QED BY <1>1, <1>4

\* Where probing stops: at the first try that ends it.
LEMMA LookupStops ==
  ASSUME TypeOK, NEW k \in Keys
  PROVE  /\ \A s \in LookupSlot(k) : s \in Slots /\ Holds(s, k)
         /\ \A n \in Slots :
              /\ Holds(Slot(k, n), k)
              /\ \A m \in 0 .. n - 1 : indices[Slot(k, m)] # Empty
              => LookupSlot(k) # {}
<1> DEFINE tries == {n \in Slots : indices[Slot(k, n)] = Empty \/ Holds(Slot(k, n), k)}
           first == CHOOSE n \in tries : \A m \in tries : n <= m
<1>1. LookupSlot(k) =
        {s \in (IF tries = {} THEN {} ELSE {Slot(k, first)}) : Holds(s, k)}
  BY DEF LookupSlot, FirstSlot
<1>2. tries # {} => first \in tries /\ \A m \in tries : first <= m
  <2>1. tries # {} => \E n \in tries : \A m \in tries : n <= m
    BY FirstTry
  <2> QED BY <2>1
<1>3. tries \subseteq Slots
  OBVIOUS
<1>4. ASSUME NEW s \in LookupSlot(k) PROVE s \in Slots /\ Holds(s, k)
  <2>1. tries # {} /\ s = Slot(k, first) /\ Holds(s, k)
    BY <1>1, <1>4
  <2> HIDE DEF tries, first
  <2> QED BY <1>2, <1>3, <2>1, SlotInRange
<1>5. ASSUME NEW n \in Slots, Holds(Slot(k, n), k),
             \A m \in 0 .. n - 1 : indices[Slot(k, m)] # Empty
      PROVE  LookupSlot(k) # {}
  <2>1. n \in tries
    BY <1>5
  <2>2. first \in tries /\ first <= n
    BY <1>2, <2>1
  <2>3. Holds(Slot(k, first), k)
    <3>1. first \in Slots /\ (indices[Slot(k, first)] = Empty \/ Holds(Slot(k, first), k))
      BY <2>2
    <3> HIDE DEF tries, first
    <3>2. first = n \/ first \in 0 .. n - 1
      BY <2>2, <3>1 DEF TypeOK, Slots
    <3> QED BY <1>5, <3>1, <3>2
  <2> HIDE DEF tries, first
  <2> QED BY <1>1, <2>1, <2>3
<1> QED BY <1>4, <1>5

\* The slot a set writes to.
LEMMA SetStops ==
  ASSUME TypeOK, NEW k \in Keys, NEW s \in SetSlot(k)
  PROVE  /\ s \in Slots
         /\ indices[s] \in {Empty, Deleted} \/ Holds(s, k)
         /\ \E n \in Slots : /\ Slot(k, n) = s
                             /\ \A m \in 0 .. n - 1 : indices[Slot(k, m)] # Empty
<1> DEFINE tries == {n \in Slots : indices[Slot(k, n)] \in {Empty, Deleted} \/ Holds(Slot(k, n), k)}
           first == CHOOSE n \in tries : \A m \in tries : n <= m
<1>1. SetSlot(k) = IF tries = {} THEN {} ELSE {Slot(k, first)}
  BY DEF SetSlot, FirstSlot
<1>2. tries # {} => \E n \in tries : \A m \in tries : n <= m
  BY FirstTry
<1>3. s = Slot(k, first) /\ first \in tries /\ \A m \in tries : first <= m
  BY <1>1, <1>2
<1>4. first \in Slots /\ (indices[Slot(k, first)] \in {Empty, Deleted} \/ Holds(Slot(k, first), k))
  BY <1>3
<1>5. ASSUME NEW m \in 0 .. first - 1, indices[Slot(k, m)] = Empty PROVE FALSE
  <2>1. m \in Slots /\ ~(first <= m)
    BY <1>4 DEF TypeOK, Slots
  <2>2. m \in tries
    BY <1>5, <2>1
  <2> QED BY <1>3, <2>1, <2>2
<1> HIDE DEF tries, first
<1> QED BY <1>3, <1>4, <1>5, SlotInRange

\* The slot a growth puts an entry into.
LEMMA RehashStops ==
  ASSUME TypeOK, NEW k \in Keys, NEW s \in RehashSlot(k)
  PROVE  /\ s \in Slots
         /\ indices[s] = Empty
         /\ \E n \in Slots : /\ Slot(k, n) = s
                             /\ \A m \in 0 .. n - 1 : indices[Slot(k, m)] # Empty
<1> DEFINE tries == {n \in Slots : indices[Slot(k, n)] = Empty}
           first == CHOOSE n \in tries : \A m \in tries : n <= m
<1>1. RehashSlot(k) = IF tries = {} THEN {} ELSE {Slot(k, first)}
  BY DEF RehashSlot, FirstSlot
<1>2. tries # {} => \E n \in tries : \A m \in tries : n <= m
  BY FirstTry
<1>3. s = Slot(k, first) /\ first \in tries /\ \A m \in tries : first <= m
  BY <1>1, <1>2
<1>4. first \in Slots /\ indices[Slot(k, first)] = Empty
  BY <1>3
<1>5. ASSUME NEW m \in 0 .. first - 1, indices[Slot(k, m)] = Empty PROVE FALSE
  <2>1. m \in Slots /\ ~(first <= m)
    BY <1>4 DEF TypeOK, Slots
  <2>2. m \in tries
    BY <1>5, <2>1
  <2> QED BY <1>3, <2>1, <2>2
<1> HIDE DEF tries, first
<1> QED BY <1>3, <1>4, <1>5, SlotInRange

-----------------------------------------------------------------------------
(* Entries                                                                 *)

LEMMA EntryFacts ==
  ASSUME TypeOK
  PROVE  /\ Len(entries) \in Nat /\ DOMAIN entries = 1 .. Len(entries)
         /\ Empty \notin DOMAIN entries /\ Deleted \notin DOMAIN entries
         /\ LiveEntries \subseteq DOMAIN entries /\ Indexed \subseteq LiveEntries
         /\ \A i \in DOMAIN entries : entries[i] \in EntrySet
         /\ \A i \in LiveEntries : \E k \in Keys, v \in Values : entries[i] = Entry(k, v)
         /\ \A i \in LiveEntries : entries[i].key \in Keys
         /\ IsFiniteSet(LiveEntries)
<1>1. /\ Len(entries) \in Nat /\ DOMAIN entries = 1 .. Len(entries)
      /\ \A i \in DOMAIN entries : entries[i] \in EntrySet
  BY DEF TypeOK, EntrySet
<1>2. LiveEntries \subseteq DOMAIN entries /\ Indexed \subseteq LiveEntries
  BY DEF LiveEntries, Indexed
<1>3. \A i \in LiveEntries : \E k \in Keys, v \in Values : entries[i] = Entry(k, v)
  BY <1>1 DEF LiveEntries, EntrySet, Dead
<1>4. IsFiniteSet(LiveEntries)
  <2>1. IsFiniteSet(1 .. Len(entries))
    BY <1>1, FS_Interval
  <2> QED BY <1>1, <1>2, <2>1, FS_Subset
<1>5. \A i \in LiveEntries : entries[i].key \in Keys
  <2> SUFFICES ASSUME NEW i \in LiveEntries PROVE entries[i].key \in Keys
    OBVIOUS
  <2>1. PICK k \in Keys, v \in Values : entries[i] = Entry(k, v)
    BY <1>3
  <2> QED BY <2>1 DEF Entry
<1> QED BY <1>1, <1>2, <1>3, <1>4, <1>5 DEF Empty, Deleted

\* A slot stays reachable while another slot, or its own, is filled or marked
\* as deleted.
LEMMA StaysReachable ==
  ASSUME TypeOK, NEW t \in Slots, NEW u \in Slots, NEW x, x # Empty, cap' = cap,
         indices' = [indices EXCEPT ![u] = x],
         entries[indices[t]].key \in Keys,
         entries'[indices'[t]].key = entries[indices[t]].key,
         Reachable(t)
  PROVE  Reachable(t)'
<1> DEFINE k == entries[indices[t]].key
<1>1. PICK n \in Slots : /\ Slot(k, n) = t
                         /\ \A m \in 0 .. n - 1 : indices[Slot(k, m)] # Empty
  BY DEF Reachable
<1>2. \A m \in 0 .. n - 1 : m \in Slots
  BY DEF TypeOK, Slots
<1>3. \A m \in 0 .. n - 1 : Slot(k, m) \in Slots
  BY <1>2, SlotInRange
<1>4. \A m \in 0 .. n - 1 : indices'[Slot(k, m)] # Empty
  BY <1>1, <1>3 DEF TypeOK
<1> QED BY <1>1, <1>4 DEF Reachable, Slot, Slots

LEMMA InsertIInv ==
  ASSUME IInv, ~NeedsGrow, Indexed = LiveEntries, NEW k \in Keys, NEW v \in Values,
         NEW s \in SetSlot(k), ~Holds(s, k), Insert(s, k, v),
         growing' = {}, next' = 1, cap' = cap
  PROVE  IInv'
<1> DEFINE n == Len(entries) + 1
<1>1. /\ s \in Slots /\ indices[s] \in {Empty, Deleted} /\ Slots' = Slots
      /\ indices' = [indices EXCEPT ![s] = n]
      /\ indices'[s] = n /\ \A t \in Slots \ {s} : indices'[t] = indices[t]
  <2>1. s \in Slots /\ indices[s] \in {Empty, Deleted}
    BY SetStops DEF IInv
  <2> QED BY <2>1 DEF Insert, IInv, TypeOK, Slots
<1>2. /\ Len(entries') = n /\ DOMAIN entries' = 1 .. n /\ n \in Nat \ {0}
      /\ entries' \in Seq(EntrySet)
      /\ entries'[n] = Entry(k, v)
      /\ \A i \in DOMAIN entries : i \in 1 .. n /\ entries'[i] = entries[i]
      /\ n \notin DOMAIN entries /\ n # Empty /\ n # Deleted
  <2>1. entries \in Seq(EntrySet) /\ Entry(k, v) \in EntrySet
    BY DEF IInv, TypeOK, EntrySet
  <2> QED BY <2>1 DEF Insert, Empty, Deleted
<1>3. LiveEntries' = LiveEntries \cup {n} /\ n \notin LiveEntries /\ Indexed' = LiveEntries'
  <2>1. \A i \in 1 .. n : i = n \/ i \in DOMAIN entries
    BY EntryFacts DEF IInv
  <2>2. Entry(k, v).live
    BY DEF Entry
  <2> QED BY <1>2, <2>1, <2>2 DEF LiveEntries, Indexed
<1> HIDE DEF n
<1>4. live' = live + 1 /\ live \in Nat /\ 4 * live < 3 * cap /\ cap \in Nat /\ cap >= 8
      /\ Len(entries) < cap
  BY EntryFacts DEF Insert, NeedsGrow, IInv, TypeOK
<1>5. TypeOK'
  <2>1. indices' \in [Slots' -> {Empty, Deleted} \cup DOMAIN entries']
    <3>1. indices \in [Slots -> {Empty, Deleted} \cup DOMAIN entries]
      BY DEF IInv, TypeOK
    <3>2. DOMAIN entries \subseteq DOMAIN entries' /\ n \in DOMAIN entries'
      BY <1>2
    <3> QED BY <1>1, <3>1, <3>2
  <2>2. live' \in 0 .. cap' /\ Len(entries') <= cap'
    BY <1>2, <1>4 DEF n
  <2>3. next' \in 1 .. Len(entries') + 1
    BY <1>2
  <2> QED BY <1>2, <1>4, <2>1, <2>2, <2>3 DEF TypeOK, EntrySet
<1>6. Table'
  <2>1. Indexed \subseteq DOMAIN entries
    BY EntryFacts DEF IInv
  <2>2. indices[s] \notin LiveEntries
    BY <1>1, EntryFacts DEF IInv
  <2>3. \A t \in Slots : indices'[t] \in {Empty, Deleted} \cup Indexed'
    BY <1>1, <1>3 DEF IInv, Table
  <2>4. \A i \in Indexed' : \E t \in Slots : indices'[t] = i
    BY <1>1, <1>3, <2>2 DEF IInv, Table
  <2>5. ASSUME NEW t \in Slots, NEW u \in Slots, indices'[t] = indices'[u], indices'[t] \in Indexed'
        PROVE  t = u
    <3>1. \A r \in Slots \ {s} : indices[r] # n
      BY <1>2, <1>3 DEF IInv, Table
    <3> QED BY <1>1, <1>3, <2>5, <3>1 DEF IInv, Table
  <2> QED BY <1>1, <2>3, <2>4, <2>5 DEF Table
<1>7. Counts'
  <2>1. Cardinality(LiveEntries') = Cardinality(LiveEntries) + 1
    BY <1>3, EntryFacts, FS_AddElement DEF IInv
  <2> QED BY <1>4, <2>1 DEF IInv, Counts
<1>8. Reach'
  <2> SUFFICES ASSUME NEW t \in Slots, indices'[t] \in DOMAIN entries'
               PROVE  Reachable(t)'
    BY <1>1 DEF Reach
  <2>1. CASE t = s
    <3>1. entries'[indices'[t]].key = k
      BY <1>1, <1>2, <2>1 DEF Entry
    <3>2. PICK j \in Slots : /\ Slot(k, j) = s
                             /\ \A m \in 0 .. j - 1 : indices[Slot(k, m)] # Empty
      BY SetStops DEF IInv
    <3>3. \A m \in 0 .. j - 1 : Slot(k, m) \in Slots
      <4>1. \A m \in 0 .. j - 1 : m \in Slots
        BY DEF IInv, TypeOK, Slots
      <4> QED BY <4>1, SlotInRange DEF IInv
    <3>4. \A m \in 0 .. j - 1 : indices'[Slot(k, m)] # Empty
      BY <1>1, <1>2, <3>2, <3>3
    <3> QED BY <1>1, <2>1, <3>1, <3>2, <3>4 DEF Reachable, Slot
  <2>2. CASE t # s
    <3>1. indices[t] \in LiveEntries
      <4>1. Empty \notin 1 .. n /\ Deleted \notin 1 .. n
        BY <1>2 DEF Empty, Deleted
      <4> QED BY <1>1, <1>2, <2>2, <4>1 DEF IInv, Table
    <3>2. indices[t] \in DOMAIN entries /\ entries[indices[t]].key \in Keys
      BY <3>1, EntryFacts DEF IInv
    <3>3. entries'[indices'[t]].key = entries[indices[t]].key
      BY <1>1, <1>2, <2>2, <3>2
    <3> QED BY <1>1, <1>2, <3>2, <3>3, StaysReachable DEF IInv, Reach
  <2> QED BY <2>1, <2>2
<1> QED BY <1>5, <1>6, <1>7, <1>8 DEF IInv

LEMMA UpdateIInv ==
  ASSUME IInv, Indexed = LiveEntries, NEW k \in Keys, NEW v \in Values,
         NEW s \in Slots, Holds(s, k), Update(s, v),
         growing' = {}, next' = 1, cap' = cap
  PROVE  IInv'
<1> DEFINE i == indices[s]
<1>1. /\ i \in DOMAIN entries /\ i \in LiveEntries /\ Slots' = Slots
      /\ entries' = [entries EXCEPT ![i].value = v] /\ UNCHANGED <<indices, live>>
  BY EntryFacts DEF Holds, Update, IInv, Table, Slots
<1>2. PICK w \in Values : entries[i] = Entry(k, w)
  <2>1. PICK l \in Keys, w \in Values : entries[i] = Entry(l, w)
    BY <1>1, EntryFacts DEF IInv
  <2>2. entries[i].key = l
    BY <2>1 DEF Entry
  <2>3. entries[i].key = k
    BY DEF Holds
  <2> QED BY <2>1, <2>2, <2>3
<1>3. entries' = [entries EXCEPT ![i] = Entry(k, v)]
  <2>1. [entries[i] EXCEPT !.value = v] = Entry(k, v)
    <3>1. entries[i] \in [key : Keys, value : Values, live : BOOLEAN]
          /\ entries[i].key = k /\ entries[i].live = TRUE
      BY <1>2 DEF Entry
    <3>2. \A e \in [key : Keys, value : Values, live : BOOLEAN] :
            [e EXCEPT !.value = v] = [key |-> e.key, value |-> v, live |-> e.live]
      OBVIOUS
    <3> QED BY <3>1, <3>2 DEF Entry
  <2> QED BY <1>1, <2>1
<1> HIDE DEF i
<1>4. /\ entries' \in Seq(EntrySet) /\ DOMAIN entries' = DOMAIN entries
      /\ Len(entries') = Len(entries) /\ Len(entries) \in Nat
      /\ entries'[i] = Entry(k, v) /\ \A j \in DOMAIN entries \ {i} : entries'[j] = entries[j]
  <2>1. entries \in Seq(EntrySet) /\ Entry(k, v) \in EntrySet
    BY DEF IInv, TypeOK, EntrySet
  <2> QED BY <1>1, <1>3, <2>1
<1>5. LiveEntries' = LiveEntries /\ Indexed' = Indexed
      /\ \A j \in DOMAIN entries : entries'[j].key = entries[j].key
  BY <1>1, <1>2, <1>4 DEF LiveEntries, Indexed, Entry
<1>6. TypeOK'
  BY <1>1, <1>4 DEF IInv, TypeOK, EntrySet
<1>7. Table' /\ Counts'
  BY <1>1, <1>5 DEF IInv, Table, Counts
<1>8. Reach'
  BY <1>1, <1>4, <1>5 DEF IInv, Reach, Reachable, Slot
<1> QED BY <1>6, <1>7, <1>8 DEF IInv

\* A set that need not grow, whether it has just grown or not.
LEMMA StoreIInv ==
  ASSUME IInv, ~NeedsGrow, Indexed = LiveEntries, NEW k \in Keys, NEW v \in Values, Store(k, v)
  PROVE  IInv'
<1>1. growing' = {} /\ next' = 1 /\ cap' = cap
  BY DEF Store
<1>2. CASE SetSlot(k) = {}
  <2>1. UNCHANGED <<entries, indices, live, cap>>
    BY <1>1, <1>2 DEF Store
  <2>2. LiveEntries' = LiveEntries /\ Indexed' = Indexed /\ Slots' = Slots
    BY <1>1, <2>1 DEF LiveEntries, Indexed, Slots
  <2>3. TypeOK'
    BY <1>1, <2>1, <2>2, EntryFacts DEF IInv, TypeOK
  <2>4. Table' /\ Counts' /\ Reach'
    BY <1>1, <2>1, <2>2 DEF IInv, Table, Counts, Reach, Reachable, Slot
  <2> QED BY <2>3, <2>4 DEF IInv
<1>3. ASSUME NEW s \in SetSlot(k), IF Holds(s, k) THEN Update(s, v) ELSE Insert(s, k, v)
      PROVE  IInv'
  <2>1. s \in Slots
    BY SetStops DEF IInv
  <2> QED BY <1>1, <1>3, <2>1, UpdateIInv, InsertIInv
<1> QED BY <1>2, <1>3 DEF Store

\* A set that has to grow first.
LEMMA BeginGrowIInv ==
  ASSUME IInv, NEW k \in Keys, NEW v \in Values, BeginGrow(k, v)
  PROVE  IInv'
<1>1. /\ cap' = cap * 2 /\ growing' = {<<k, v>>} /\ next' = 1
      /\ UNCHANGED <<entries, live>>
      /\ Slots' = 0 .. cap * 2 - 1 /\ indices' = [s \in Slots' |-> Empty]
  BY DEF BeginGrow, Slots
<1>2. cap \in Nat /\ cap >= 8 /\ live \in Nat /\ live < cap /\ Len(entries) \in Nat
      /\ Len(entries) <= cap
  BY EntryFacts DEF IInv, TypeOK, Counts
<1>3. LiveEntries' = LiveEntries /\ Indexed' = {}
  <2>1. \A i \in DOMAIN entries : ~(i < 1)
    BY EntryFacts DEF IInv
  <2> QED BY <1>1, <2>1 DEF LiveEntries, Indexed
<1>4. TypeOK'
  <2>1. cap' \in Nat /\ cap' >= 8 /\ Len(entries) <= cap' /\ live \in 0 .. cap'
        /\ 1 \in 1 .. Len(entries) + 1
    BY <1>1, <1>2
  <2> QED BY <1>1, <2>1 DEF IInv, TypeOK
<1>5. Table' /\ Reach'
  BY <1>1, <1>3, EntryFacts DEF IInv, Table, Reach
<1>6. Counts'
  BY <1>1, <1>2, <1>3 DEF IInv, Counts, NeedsGrow
<1> QED BY <1>4, <1>5, <1>6 DEF IInv

LEMMA SetIInv ==
  ASSUME IInv, NEW k \in Keys, NEW v \in Values, Set(k, v)
  PROVE  IInv'
<1>1. Indexed = LiveEntries
  BY DEF Set, Indexed
<1> QED BY <1>1, BeginGrowIInv, StoreIInv DEF Set, LoadMap

LEMMA RetryIInv ==
  ASSUME IInv, Retry
  PROVE  IInv'
<1>1. PICK kv \in growing : LoadMap(kv[1], kv[2])
  BY DEF Retry
<1>2. kv[1] \in Keys /\ kv[2] \in Values /\ ~NeedsGrow
  BY DEF IInv, TypeOK, Counts
<1>3. Indexed = LiveEntries
  <2>1. \A i \in LiveEntries : i < Len(entries) + 1
    BY EntryFacts DEF IInv
  <2> QED BY <2>1 DEF Retry, Indexed
<1> QED BY <1>1, <1>2, <1>3, StoreIInv DEF LoadMap

LEMMA RehashIInv ==
  ASSUME IInv, Rehash
  PROVE  IInv'
<1>1. /\ growing # {} /\ next \in 1 .. Len(entries) /\ next \in DOMAIN entries
      /\ next' = next + 1 /\ UNCHANGED <<cap, entries, live, growing>>
      /\ Slots' = Slots /\ Len(entries) \in Nat
      /\ LiveEntries' = LiveEntries
  BY EntryFacts DEF Rehash, IInv, TypeOK, Slots, LiveEntries
<1>2. \A i \in LiveEntries : i < next + 1 <=> i < next \/ i = next
  BY <1>1, EntryFacts DEF IInv
<1>3. Counts'
  BY <1>1 DEF IInv, Counts, NeedsGrow
<1>4. next' \in 1 .. Len(entries) + 1
  BY <1>1
<1>5. CASE ~entries[next].live
  <2>1. indices' = indices /\ next \notin LiveEntries
    BY <1>5 DEF Rehash, LiveEntries
  <2>2. Indexed' = Indexed
    BY <1>1, <1>2, <2>1 DEF Indexed
  <2>3. TypeOK'
    BY <1>1, <1>4, <2>1 DEF IInv, TypeOK
  <2>4. Table' /\ Reach'
    BY <1>1, <2>1, <2>2 DEF IInv, Table, Reach, Reachable, Slot
  <2> QED BY <1>3, <2>3, <2>4 DEF IInv
<1>6. CASE entries[next].live
  <2> DEFINE k == entries[next].key
  <2>1. next \in LiveEntries /\ k \in Keys
    <3>1. next \in LiveEntries
      BY <1>1, <1>6 DEF LiveEntries
    <3> QED BY <3>1, EntryFacts DEF IInv
  <2>2. PICK s \in RehashSlot(k) : indices' = [indices EXCEPT ![s] = next]
    BY <1>6 DEF Rehash
  <2> HIDE DEF k
  <2>3. /\ s \in Slots /\ indices[s] = Empty
        /\ indices'[s] = next /\ \A t \in Slots \ {s} : indices'[t] = indices[t]
    <3>1. s \in Slots /\ indices[s] = Empty
      BY <2>1, <2>2, RehashStops DEF IInv
    <3> QED BY <2>2, <3>1 DEF IInv, TypeOK
  <2>4. Indexed' = Indexed \cup {next} /\ next \notin Indexed
    BY <1>1, <1>2, <2>1 DEF Indexed
  <2>5. next # Empty /\ next # Deleted
    BY <1>1 DEF Empty, Deleted
  <2>6. TypeOK'
    <3>1. indices' \in [Slots' -> {Empty, Deleted} \cup DOMAIN entries']
      <4>1. indices \in [Slots -> {Empty, Deleted} \cup DOMAIN entries]
        BY DEF IInv, TypeOK
      <4>2. indices' \in [Slots -> {Empty, Deleted} \cup DOMAIN entries]
        BY <1>1, <2>2, <4>1
      <4> QED BY <1>1, <4>2
    <3> QED BY <1>1, <1>4, <3>1 DEF IInv, TypeOK
  <2>7. Table'
    <3>1. indices[s] \notin Indexed /\ \A t \in Slots \ {s} : indices[t] # next
      BY <2>3, <2>4, <2>5, EntryFacts DEF IInv, Table
    <3> QED BY <1>1, <2>3, <2>4, <3>1 DEF IInv, Table
  <2>8. Reach'
    <3> SUFFICES ASSUME NEW t \in Slots, indices'[t] \in DOMAIN entries PROVE Reachable(t)'
      BY <1>1 DEF Reach
    <3>1. CASE t = s
      <4>1. PICK j \in Slots : /\ Slot(k, j) = s
                               /\ \A m \in 0 .. j - 1 : indices[Slot(k, m)] # Empty
        BY <2>1, <2>2, RehashStops DEF IInv
      <4>2. \A m \in 0 .. j - 1 : Slot(k, m) \in Slots
        <5>1. \A m \in 0 .. j - 1 : m \in Slots
          BY DEF IInv, TypeOK, Slots
        <5> QED BY <2>1, <5>1, SlotInRange DEF IInv
      <4>3. \A m \in 0 .. j - 1 : indices'[Slot(k, m)] # Empty
        BY <2>3, <2>5, <4>1, <4>2
      <4>4. entries'[indices'[t]].key = k
        BY <1>1, <2>3, <3>1 DEF k
      <4> QED BY <1>1, <3>1, <4>1, <4>3, <4>4 DEF Reachable, Slot
    <3>2. CASE t # s
      <4>1. indices'[t] = indices[t] /\ indices[t] \in DOMAIN entries
        BY <2>3, <3>2
      <4>2. indices[t] \in LiveEntries
        BY <4>1, EntryFacts DEF IInv, Table
      <4>3. entries[indices[t]].key \in Keys
        BY <4>2, EntryFacts DEF IInv
      <4> QED BY <1>1, <2>2, <2>3, <2>5, <4>1, <4>3, StaysReachable DEF IInv, Reach
    <3> QED BY <3>1, <3>2
  <2> QED BY <1>3, <2>6, <2>7, <2>8 DEF IInv
<1> QED BY <1>5, <1>6

LEMMA DeleteIInv ==
  ASSUME IInv, NEW k \in Keys, Delete(k)
  PROVE  IInv'
<1>1. growing = {} /\ UNCHANGED <<cap, growing, next>> /\ Slots' = Slots /\ Indexed = LiveEntries
  BY DEF Delete, Slots, Indexed
<1>2. CASE UNCHANGED <<indices, entries, live>>
  BY <1>1, <1>2 DEF IInv, TypeOK, Table, Counts, NeedsGrow, Reach, Reachable, Slot,
                    LiveEntries, Indexed
<1>3. ASSUME NEW s \in LookupSlot(k), Erase(s) PROVE IInv'
  <2> DEFINE i == indices[s]
  <2>1. /\ s \in Slots /\ i \in DOMAIN entries /\ i \in LiveEntries
        /\ indices' = [indices EXCEPT ![s] = Deleted]
        /\ entries' = [entries EXCEPT ![i] = Dead] /\ live' = live - 1
    <3>1. s \in Slots /\ i \in DOMAIN entries
      BY LookupStops DEF Holds, IInv
    <3> QED BY <1>1, <1>3, <3>1, EntryFacts DEF Erase, IInv, Table
  <2>2. indices'[s] = Deleted /\ \A t \in Slots \ {s} : indices'[t] = indices[t]
    BY <2>1 DEF IInv, TypeOK
  <2>3. \A t \in Slots \ {s} : indices[t] # i
    BY <1>1, <2>1 DEF IInv, Table
  <2> HIDE DEF i
  <2>4. /\ entries' \in Seq(EntrySet) /\ DOMAIN entries' = DOMAIN entries
        /\ Len(entries') = Len(entries) /\ Len(entries) \in Nat
        /\ entries'[i] = Dead /\ \A j \in DOMAIN entries \ {i} : entries'[j] = entries[j]
    <3>1. entries \in Seq(EntrySet) /\ Dead \in EntrySet
      BY DEF IInv, TypeOK, EntrySet
    <3> QED BY <2>1, <3>1
  <2>5. LiveEntries' = LiveEntries \ {i} /\ Indexed' = LiveEntries'
    BY <1>1, <2>4 DEF LiveEntries, Indexed, Dead
  <2>6. /\ Cardinality(LiveEntries') = Cardinality(LiveEntries) - 1
        /\ Cardinality(LiveEntries') \in Nat
    <3>1. IsFiniteSet(LiveEntries')
      BY <2>5, EntryFacts, FS_RemoveElement DEF IInv
    <3> QED BY <2>1, <2>5, <3>1, EntryFacts, FS_RemoveElement, FS_CardinalityType DEF IInv
  <2>7. Counts' /\ live' \in 0 .. cap'
    BY <1>1, <2>1, <2>6 DEF IInv, TypeOK, Counts
  <2>8. TypeOK'
    <3>1. indices' \in [Slots' -> {Empty, Deleted} \cup DOMAIN entries']
      BY <1>1, <2>1, <2>4 DEF IInv, TypeOK
    <3> QED BY <1>1, <2>4, <2>7, <3>1 DEF IInv, TypeOK, EntrySet
  <2>9. Table'
    <3>1. Deleted \notin LiveEntries
      BY EntryFacts DEF IInv
    <3>2. \A t \in Slots : indices'[t] \in {Empty, Deleted} \cup Indexed'
      BY <1>1, <2>2, <2>3, <2>5 DEF IInv, Table
    <3>3. \A j \in Indexed' : \E t \in Slots : indices'[t] = j
      BY <1>1, <2>1, <2>2, <2>5 DEF IInv, Table, i
    <3>4. \A t, u \in Slots : indices'[t] = indices'[u] /\ indices'[t] \in Indexed' => t = u
      BY <1>1, <2>2, <2>5, <3>1 DEF IInv, Table
    <3> QED BY <1>1, <3>2, <3>3, <3>4 DEF Table
  <2>10. Reach'
    <3> SUFFICES ASSUME NEW t \in Slots, indices'[t] \in DOMAIN entries PROVE Reachable(t)'
      BY <1>1, <2>4 DEF Reach
    <3>1. t # s
      BY <2>2, EntryFacts DEF IInv
    <3>2. indices'[t] = indices[t] /\ indices[t] \in DOMAIN entries \ {i}
      BY <2>2, <2>3, <3>1
    <3>3. entries[indices[t]].key \in Keys
      <4>1. indices[t] \in LiveEntries
        BY <3>2, EntryFacts DEF IInv, Table
      <4> QED BY <4>1, EntryFacts DEF IInv
    <3>4. entries'[indices'[t]].key = entries[indices[t]].key /\ Reachable(t)
      BY <2>4, <3>2 DEF IInv, Reach
    <3>5. Deleted # Empty
      BY DEF Deleted, Empty
    <3> QED BY <1>1, <2>1, <3>3, <3>4, <3>5, StaysReachable DEF IInv
  <2> QED BY <2>7, <2>8, <2>9, <2>10 DEF IInv
<1> QED BY <1>2, <1>3 DEF Delete

LEMMA InitIInv == Init => IInv
<1> SUFFICES ASSUME Init PROVE IInv
  OBVIOUS
<1> USE RequestedAssumption DEF Init
<1>1. cap \in Nat /\ cap >= 8 /\ Len(entries) = 0 /\ DOMAIN entries = {}
  OBVIOUS
<1>2. LiveEntries = {} /\ Indexed = {}
  BY <1>1 DEF LiveEntries, Indexed
<1>3. TypeOK
  BY <1>1 DEF TypeOK
<1>4. Table /\ Reach
  BY <1>1, <1>2 DEF Table, Reach
<1>5. Counts
  BY <1>1, <1>2, FS_EmptySet DEF Counts
<1> QED BY <1>3, <1>4, <1>5 DEF IInv

LEMMA NextIInv == IInv /\ [Next]_vars => IInv'
<1> SUFFICES ASSUME IInv, [Next]_vars PROVE IInv'
  OBVIOUS
<1>1. CASE UNCHANGED vars
  <2> USE <1>1 DEF vars
  <2>1. Slots' = Slots /\ LiveEntries' = LiveEntries /\ Indexed' = Indexed
    BY DEF Slots, LiveEntries, Indexed
  <2>2. TypeOK' /\ Table' /\ Counts'
    BY <2>1 DEF IInv, TypeOK, Table, Counts, NeedsGrow
  <2>3. Reach'
    BY <2>1 DEF IInv, Reach, Reachable, Slot
  <2> QED BY <2>2, <2>3 DEF IInv
<1>2. CASE Next
  BY <1>2, DeleteIInv, SetIInv, RehashIInv, RetryIInv DEF Next
<1> QED BY <1>1, <1>2

-----------------------------------------------------------------------------
(* What the invariant says                                                 *)

\* Fewer live entries than slots leave a slot free.
LEMMA IInvDict == IInv => DictInv
<1> SUFFICES ASSUME IInv PROVE DictInv
  OBVIOUS
<1>1. {indices[s] : s \in Slots} \ {Empty, Deleted} = Indexed
  BY EntryFacts DEF IInv, Table
<1>2. \E s \in Slots : indices[s] \in {Empty, Deleted}
  <2> SUFFICES ASSUME \A s \in Slots : indices[s] \notin {Empty, Deleted} PROVE FALSE
    OBVIOUS
  <2>1. indices \in Injection(Slots, LiveEntries)
    <3>1. \A s \in Slots : indices[s] \in Indexed
      BY DEF IInv, Table
    <3>2. indices \in [Slots -> LiveEntries]
      BY <3>1, EntryFacts DEF IInv, TypeOK
    <3>3. \A s, t \in Slots : indices[s] = indices[t] => s = t
      BY <3>1 DEF IInv, Table
    <3> QED BY <3>2, <3>3 DEF Injection, IsInjective
  <2>2. Cardinality(Slots) <= Cardinality(LiveEntries)
    BY <2>1, EntryFacts, FS_Injection DEF IInv
  <2>3. Cardinality(Slots) = cap
    BY FS_Interval DEF Slots, IInv, TypeOK
  <2> QED BY <2>2, <2>3 DEF IInv, TypeOK, Counts
<1> QED BY <1>1, <1>2 DEF IInv, Table, Counts, DictInv

LEMMA IInvKeysFound == IInv => KeysFound
<1> SUFFICES ASSUME IInv, growing = {}, NEW k \in Keys
             PROVE  LET held == {entries[i].value : i \in {j \in LiveEntries : entries[j].key = k}}
                    IN  Get(k) \subseteq held /\ (held # {} => Get(k) # {})
  BY DEF KeysFound
<1>1. Indexed = LiveEntries
  BY DEF Indexed
<1>2. ASSUME NEW s \in LookupSlot(k)
      PROVE  indices[s] \in LiveEntries /\ entries[indices[s]].key = k
  <2>1. s \in Slots /\ Holds(s, k)
    BY LookupStops DEF IInv
  <2> QED BY <1>1, <2>1, EntryFacts DEF IInv, Holds, Table
<1>3. ASSUME NEW i \in LiveEntries, entries[i].key = k PROVE LookupSlot(k) # {}
  <2>1. PICK s \in Slots : indices[s] = i
    BY <1>1 DEF IInv, Table
  <2>2. i \in DOMAIN entries /\ Reachable(s)
    BY <2>1, EntryFacts DEF IInv, Reach
  <2>3. PICK n \in Slots : /\ Slot(k, n) = s
                           /\ \A m \in 0 .. n - 1 : indices[Slot(k, m)] # Empty
    BY <1>3, <2>1, <2>2 DEF Reachable
  <2>4. Holds(Slot(k, n), k)
    BY <1>3, <2>1, <2>2, <2>3 DEF Holds
  <2> QED BY <2>3, <2>4, LookupStops DEF IInv
<1> QED BY <1>2, <1>3 DEF Get

-----------------------------------------------------------------------------
(* Ordinals                                                                *)

\* The position of i in the set A of numbers.
Position(A, i) == Cardinality({j \in A : j <= i})

LEMMA PositionFacts ==
  ASSUME NEW A \in SUBSET Nat, IsFiniteSet(A)
  PROVE  /\ Cardinality(A) \in Nat
         /\ \A i \in A : Position(A, i) \in 1 .. Cardinality(A)
         /\ \A i, j \in A : i < j => Position(A, i) < Position(A, j)
         /\ \A i, j \in A : Position(A, i) = Position(A, j) => i = j
         /\ \A n \in 1 .. Cardinality(A) : \E i \in A : Position(A, i) = n
<1> DEFINE B(i) == {j \in A : j <= i}
           N == Cardinality(A)
<1>1. \A i \in A : /\ IsFiniteSet(B(i)) /\ Position(A, i) = Cardinality(B(i))
                  /\ Cardinality(B(i)) \in Nat /\ Cardinality(B(i)) <= N
                  /\ B(i) # {}
  BY FS_Subset, FS_CardinalityType DEF Position
<1>2. N \in Nat
  BY FS_CardinalityType
<1>3. \A i \in A : Position(A, i) \in 1 .. N
  <2>1. \A i \in A : Cardinality(B(i)) # 0
    BY <1>1, FS_EmptySet
  <2> HIDE DEF B
  <2> QED BY <1>1, <1>2, <2>1
<1>4. ASSUME NEW i \in A, NEW j \in A, i < j PROVE Position(A, i) < Position(A, j)
  <2>1. B(i) \subseteq B(j) /\ j \in B(j) /\ j \notin B(i)
    <3>1. i \in Nat /\ j \in Nat /\ \A m \in A : m \in Nat
      OBVIOUS
    <3>2. j <= j /\ ~(j <= i) /\ \A m \in A : m <= i => m <= j
      BY <1>4, <3>1
    <3> QED BY <3>2
  <2> HIDE DEF B
  <2>2. Cardinality(B(i)) <= Cardinality(B(j)) /\ Cardinality(B(i)) # Cardinality(B(j))
    BY <1>1, <2>1, FS_Subset
  <2> QED BY <1>1, <2>2
<1>5. ASSUME NEW i \in A, NEW j \in A, Position(A, i) = Position(A, j) PROVE i = j
  <2>1. i < j \/ i = j \/ j < i
    OBVIOUS
  <2> QED BY <1>3, <1>4, <1>5, <2>1
<1>6. ASSUME NEW n \in 1 .. N PROVE \E i \in A : Position(A, i) = n
  <2> DEFINE f == [i \in A |-> Position(A, i)]
  <2>1. f \in Injection(A, 1 .. N)
    BY <1>3, <1>5 DEF Injection, IsInjective
  <2>2. IsFiniteSet(1 .. N) /\ Cardinality(1 .. N) = N
    BY <1>2, FS_Interval
  <2>3. f \in Surjection(A, 1 .. N)
    <3> HIDE DEF f
    <3> QED BY <2>1, <2>2, FS_Injection
  <2> QED BY <1>6, <2>3 DEF Surjection
<1> QED BY <1>2, <1>3, <1>4, <1>5, <1>6

LEMMA PositionAdd ==
  ASSUME NEW A \in SUBSET Nat, IsFiniteSet(A), NEW m \in Nat, \A j \in A : j < m
  PROVE  /\ \A i \in A : Position(A \cup {m}, i) = Position(A, i)
         /\ Position(A \cup {m}, m) = Cardinality(A) + 1
<1>1. ASSUME NEW i \in A PROVE Position(A \cup {m}, i) = Position(A, i)
  <2>1. {j \in A \cup {m} : j <= i} = {j \in A : j <= i}
    OBVIOUS
  <2> QED BY <2>1 DEF Position
<1>2. {j \in A \cup {m} : j <= m} = A \cup {m} /\ m \notin A
  <2>1. \A j \in A \cup {m} : j <= m
    <3>1. \A j \in A : j \in Nat
      OBVIOUS
    <3> QED BY <3>1
  <2>2. ~(m < m)
    OBVIOUS
  <2> QED BY <2>1, <2>2
<1> QED BY <1>1, <1>2, FS_AddElement DEF Position

LEMMA PositionRemove ==
  ASSUME NEW A \in SUBSET Nat, IsFiniteSet(A), NEW m \in A, NEW i \in A \ {m}
  PROVE  Position(A \ {m}, i) = IF i < m THEN Position(A, i) ELSE Position(A, i) - 1
<1> DEFINE B == {j \in A : j <= i}
<1>1. CASE i < m
  <2>1. {j \in A \ {m} : j <= i} = B
    BY <1>1
  <2> QED BY <1>1, <2>1 DEF Position
<1>2. CASE ~(i < m)
  <2>1. {j \in A \ {m} : j <= i} = B \ {m} /\ m \in B
    BY <1>2
  <2>2. IsFiniteSet(B)
    BY FS_Subset
  <2> HIDE DEF B
  <2>3. Cardinality(B \ {m}) = Cardinality(B) - 1
    BY <2>1, <2>2, FS_RemoveElement
  <2> QED BY <1>2, <2>1, <2>3 DEF Position, B
<1> QED BY <1>1, <1>2

PairOf(i) == [key |-> entries[i].key, value |-> entries[i].value]

\* The dict as a range loop sees it: entry by entry, in the order of the array.
InOrder ==
  /\ live \in Nat /\ Pairs = [n \in 1 .. live |-> Pairs[n]]
  /\ \A i \in LiveEntries : /\ Position(LiveEntries, i) \in 1 .. live
                           /\ Pairs[Position(LiveEntries, i)] = PairOf(i)
  /\ \A n \in 1 .. live : \E i \in LiveEntries : Position(LiveEntries, i) = n

LEMMA IInvInOrder == IInv => InOrder
<1> SUFFICES ASSUME IInv PROVE InOrder
  OBVIOUS
<1>1. /\ LiveEntries \in SUBSET Nat /\ IsFiniteSet(LiveEntries)
      /\ live = Cardinality(LiveEntries)
      /\ Len(entries) \in Nat /\ DOMAIN entries = 1 .. Len(entries)
      /\ LiveEntries = {i \in DOMAIN entries : entries[i].live}
  BY EntryFacts DEF IInv, Counts, LiveEntries
<1>2. \A i \in DOMAIN entries : Rank(i) = Position(LiveEntries, i)
  <2> SUFFICES ASSUME NEW i \in DOMAIN entries PROVE Rank(i) = Position(LiveEntries, i)
    OBVIOUS
  <2>1. {j \in 1 .. i : entries[j].live} = {j \in LiveEntries : j <= i}
    BY <1>1
  <2> QED BY <2>1 DEF Rank, Position
<1>3. ASSUME NEW i \in LiveEntries PROVE EntryAt(Position(LiveEntries, i)) = i
  <2>1. \E j \in DOMAIN entries : entries[j].live /\ Rank(j) = Position(LiveEntries, i)
    BY <1>1, <1>2
  <2>2. \A j \in DOMAIN entries :
          entries[j].live /\ Rank(j) = Position(LiveEntries, i) => j = i
    BY <1>1, <1>2, PositionFacts, SMTT(40)
  <2> QED BY <2>1, <2>2 DEF EntryAt
<1>4. \A i \in LiveEntries : /\ Position(LiveEntries, i) \in 1 .. live
                           /\ Pairs[Position(LiveEntries, i)] = PairOf(i)
  BY <1>1, <1>3, PositionFacts DEF Pairs, PairOf
<1>5. Pairs = [n \in 1 .. live |-> Pairs[n]]
  BY DEF Pairs
<1> QED BY <1>1, <1>4, <1>5, PositionFacts DEF InOrder

LEMMA NextInOrder == IInv /\ [Next]_vars => InOrder /\ InOrder'
  BY IInvInOrder, NextIInv, PTL

-----------------------------------------------------------------------------
(* What the operations do to the map                                       *)

LEMMA Remainder == ASSUME NEW c \in Nat, c > 0, NEW q \in Nat, NEW s \in 0 .. c - 1
  PROVE (c * q + s) % c = s
<1>1. ASSUME NEW x \in Int, NEW y \in 0 .. c - 1, c * q + s = c * x + y PROVE y = s
  <2>1. c * (q - x) = y - s
    BY <1>1
  <2>2. CASE q - x >= 1
    <3>1. c * (q - x) >= c
      BY <2>2
    <3> QED BY <2>1, <3>1
  <2>3. CASE q - x <= -1
    <3>1. c * (q - x) <= -c
      BY <2>3
    <3> QED BY <2>1, <3>1
  <2>4. CASE q - x = 0
    BY <2>1, <2>4
  <2> QED BY <2>2, <2>3, <2>4
<1> QED BY <1>1

\* The tries of a key come to every slot.
LEMMA EverySlot ==
  ASSUME NEW c \in Nat, c > 0, NEW h \in Nat, NEW s \in 0 .. c - 1
  PROVE  \E n \in 0 .. c - 1 : (h + n) % c = s
<1> DEFINE q == h \div c
           r == h % c
<1>1. q \in Nat /\ r \in 0 .. c - 1 /\ h = c * q + r
  OBVIOUS
<1> HIDE DEF q, r
<1>2. CASE r <= s
  <2>1. h + (s - r) = c * q + s /\ s - r \in 0 .. c - 1
    BY <1>1, <1>2
  <2> QED BY <1>1, <2>1, Remainder
<1>3. CASE r > s
  <2>1. h + (s - r + c) = c * (q + 1) + s /\ s - r + c \in 0 .. c - 1 /\ q + 1 \in Nat
    BY <1>1, <1>3
  <2> QED BY <2>1, Remainder
<1> QED BY <1>1, <1>2, <1>3

LEMMA ConcatenateElements ==
  ASSUME NEW S, NEW p \in Seq(S), NEW q \in Seq(S)
  PROVE  p \o q = [j \in 1 .. Len(p) + Len(q) |-> IF j <= Len(p) THEN p[j] ELSE q[j - Len(p)]]
<1> DEFINE c == p \o q
           f == [j \in 1 .. Len(p) + Len(q) |-> IF j <= Len(p) THEN p[j] ELSE q[j - Len(p)]]
<1>1. c \in Seq(S) /\ Len(p) \in Nat /\ Len(q) \in Nat /\ Len(c) = Len(p) + Len(q)
  OBVIOUS
<1>2. \A i \in 1 .. Len(p) + Len(q) : c[i] = IF i <= Len(p) THEN p[i] ELSE q[i - Len(p)]
  OBVIOUS
<1> HIDE DEF c
<1>3. DOMAIN c = 1 .. Len(p) + Len(q) /\ c = [i \in DOMAIN c |-> c[i]]
  BY <1>1
<1>4. c = f
  BY <1>2, <1>3
<1> QED BY <1>4 DEF c

LEMMA RemoveAtElements ==
  ASSUME NEW S, NEW p \in Seq(S), NEW i \in 1 .. Len(p)
  PROVE  Map!RemoveAt(p, i) = [j \in 1 .. Len(p) - 1 |-> IF j < i THEN p[j] ELSE p[j + 1]]
<1> DEFINE a == SubSeq(p, 1, i - 1)
           b == SubSeq(p, i + 1, Len(p))
           f == [j \in 1 .. Len(p) - 1 |-> IF j < i THEN p[j] ELSE p[j + 1]]
<1>1. /\ Len(p) \in Nat /\ a \in Seq(S) /\ Len(a) = i - 1 /\ \A j \in 1 .. i - 1 : a[j] = p[j]
      /\ b \in Seq(S) /\ Len(b) = Len(p) - i /\ \A j \in 1 .. Len(p) - i : b[j] = p[j + i]
  OBVIOUS
<1> HIDE DEF a, b
<1>2. a \o b = [j \in 1 .. Len(a) + Len(b) |-> IF j <= Len(a) THEN a[j] ELSE b[j - Len(a)]]
  BY <1>1, ConcatenateElements, ZenonT(60)
<1>3. ASSUME NEW j \in 1 .. Len(p) - 1
      PROVE  (IF j <= Len(a) THEN a[j] ELSE b[j - Len(a)]) = f[j]
  <2>1. CASE j < i
    BY <1>1, <2>1
  <2>2. CASE ~(j < i)
    <3>1. j - (i - 1) \in 1 .. Len(p) - i /\ (j - (i - 1)) + i = j + 1
      BY <1>1, <2>2
    <3>2. b[j - (i - 1)] = p[j + 1]
      BY <1>1, <3>1
    <3> QED BY <1>1, <2>2, <3>2
  <2> QED BY <2>1, <2>2
<1>4. a \o b = f
  <2>1. Len(a) + Len(b) = Len(p) - 1
    BY <1>1
  <2> QED BY <1>2, <1>3, <2>1
<1> QED BY <1>4 DEF Map!RemoveAt, a, b

\* A set writes to the map, or its entry is there to be updated.
LEMMA StoreFinds ==
  ASSUME IInv, Indexed = LiveEntries, NEW k \in Keys, NEW v \in Values, Store(k, v)
  PROVE  \/ \E i \in LiveEntries :
              /\ entries[i].key = k /\ live' = live /\ LiveEntries' = LiveEntries
              /\ \A j \in LiveEntries :
                   PairOf(j)' = IF j = i THEN [key |-> k, value |-> v] ELSE PairOf(j)
         \/ \E n \in Nat \ LiveEntries :
              /\ live' = live + 1 /\ LiveEntries' = LiveEntries \cup {n}
              /\ \A j \in LiveEntries : j < n /\ PairOf(j)' = PairOf(j)
              /\ entries'[n] = Entry(k, v) /\ PairOf(n)' = [key |-> k, value |-> v]
<1>1. SetSlot(k) # {}
  <2> DEFINE tries == {n \in Slots : \/ indices[Slot(k, n)] \in {Empty, Deleted}
                                    \/ Holds(Slot(k, n), k)}
  <2>1. PICK s \in Slots : indices[s] \in {Empty, Deleted}
    BY IInvDict DEF DictInv
  <2>2. PICK n \in Slots : Slot(k, n) = s
    <3>1. Hash[k] \in Nat /\ cap \in Nat /\ cap > 0 /\ s \in 0 .. cap - 1
      BY HashAssumption DEF IInv, TypeOK, Slots
    <3> QED BY <3>1, EverySlot DEF Slot, Slots
  <2>3. n \in tries
    BY <2>1, <2>2
  <2> QED BY <2>3 DEF SetSlot, FirstSlot
<1>2. PICK s \in SetSlot(k) : IF Holds(s, k) THEN Update(s, v) ELSE Insert(s, k, v)
  BY <1>1 DEF Store
<1>3. s \in Slots
  BY SetStops DEF IInv
<1>4. entries \in Seq(EntrySet) /\ Len(entries) \in Nat /\ DOMAIN entries = 1 .. Len(entries)
  BY DEF IInv, TypeOK, EntrySet
<1>5. CASE Holds(s, k)
  <2> DEFINE i == indices[s]
  <2>1. i \in LiveEntries /\ i \in DOMAIN entries /\ entries[i].key = k
    BY <1>3, <1>5, EntryFacts DEF Holds, IInv, Table
  <2>2. entries' = [entries EXCEPT ![i].value = v] /\ live' = live
    BY <1>2, <1>5 DEF Update
  <2>3. PICK l \in Keys, w \in Values : entries[i] = Entry(l, w)
    BY <2>1, EntryFacts DEF IInv
  <2> HIDE DEF i
  <2>4. /\ DOMAIN entries' = DOMAIN entries
        /\ entries'[i].key = k /\ entries'[i].value = v /\ entries'[i].live = TRUE
        /\ \A j \in DOMAIN entries \ {i} : entries'[j] = entries[j]
    BY <1>4, <2>1, <2>2, <2>3 DEF Entry
  <2>5. LiveEntries' = LiveEntries
    BY <2>1, <2>4 DEF LiveEntries
  <2>6. \A j \in LiveEntries :
          PairOf(j)' = IF j = i THEN [key |-> k, value |-> v] ELSE PairOf(j)
    BY <2>4 DEF LiveEntries, PairOf
  <2> QED BY <2>1, <2>2, <2>5, <2>6
<1>6. CASE ~Holds(s, k)
  <2> PICK n \in Nat : n = Len(entries) + 1
    BY <1>4
  <2>1. entries' = Append(entries, Entry(k, v)) /\ live' = live + 1
    BY <1>2, <1>6 DEF Insert
  <2>2. /\ n \in Nat /\ DOMAIN entries' = 1 .. n /\ entries'[n] = Entry(k, v)
        /\ \A j \in DOMAIN entries : j < n /\ j \in 1 .. n /\ entries'[j] = entries[j]
        /\ n \notin DOMAIN entries /\ \A j \in 1 .. n : j = n \/ j \in DOMAIN entries
        /\ n \in 1 .. n
    <3>1. Entry(k, v) \in EntrySet
      BY DEF EntrySet
    <3> QED BY <1>4, <2>1, <3>1
  <2>3. LiveEntries' = LiveEntries \cup {n} /\ n \notin LiveEntries
    BY <2>2 DEF LiveEntries, Entry
  <2>4. \A j \in LiveEntries : j < n /\ PairOf(j)' = PairOf(j)
    BY <2>2 DEF LiveEntries, PairOf
  <2>5. PairOf(n)' = [key |-> k, value |-> v]
    BY <2>2 DEF PairOf, Entry
  <2> QED BY <2>1, <2>2, <2>3, <2>4, <2>5
<1> QED BY <1>5, <1>6

LEMMA LiveSet ==
  ASSUME IInv
  PROVE  LiveEntries \in SUBSET Nat /\ IsFiniteSet(LiveEntries) /\ live = Cardinality(LiveEntries)
  BY EntryFacts DEF IInv, Counts

\* A function on an interval that starts at 1 is a sequence.
LEMMA PairsSequence ==
  ASSUME NEW n \in Nat, NEW p, p = [i \in 1 .. n |-> p[i]]
  PROVE  p \in Seq({p[i] : i \in 1 .. n}) /\ Len(p) = n
<1>1. p \in [1 .. n -> {p[i] : i \in 1 .. n}]
  OBVIOUS
<1>2. p \in Seq({p[i] : i \in 1 .. n})
  BY <1>1
<1> QED BY <1>1, <1>2

LEMMA AppendIs ==
  ASSUME NEW n \in Nat, NEW p, p = [i \in 1 .. n |-> p[i]], NEW e
  PROVE  Append(p, e) = [i \in 1 .. n + 1 |-> IF i = n + 1 THEN e ELSE p[i]]
<1> DEFINE S == {p[i] : i \in 1 .. n} \cup {e}
           a == Append(p, e)
<1>1. p \in Seq(S) /\ Len(p) = n /\ e \in S
  BY PairsSequence
<1> HIDE DEF S
<1>2. /\ a \in Seq(S) /\ Len(a) = n + 1 /\ a[n + 1] = e
      /\ \A i \in 1 .. n : a[i] = p[i]
  BY <1>1
<1> HIDE DEF a
<1>3. a = [i \in 1 .. n + 1 |-> a[i]]
  BY <1>2
<1>4. \A i \in 1 .. n + 1 : a[i] = IF i = n + 1 THEN e ELSE p[i]
  <2>1. \A i \in 1 .. n + 1 : i = n + 1 \/ i \in 1 .. n
    OBVIOUS
  <2> QED BY <1>2, <2>1
<1> QED BY <1>3, <1>4 DEF a

LEMMA StorePuts ==
  ASSUME IInv, InOrder, InOrder', Indexed = LiveEntries, ~Shadowed, ~Shadowed',
         NEW k \in Keys, NEW v \in Values, Store(k, v)
  PROVE  Map!Put(k, v)
<1>1. /\ live \in Nat /\ DOMAIN Pairs = 1 .. live /\ Pairs = [n \in 1 .. live |-> Pairs[n]]
      /\ DOMAIN Pairs' = 1 .. live' /\ Pairs' = [n \in 1 .. live' |-> Pairs'[n]]
  BY DEF InOrder
<1>2. ASSUME NEW i \in LiveEntries, entries[i].key = k, live' = live, LiveEntries' = LiveEntries,
             \A j \in LiveEntries :
               PairOf(j)' = IF j = i THEN [key |-> k, value |-> v] ELSE PairOf(j)
      PROVE  Map!Put(k, v)
  <2>1. \A j \in LiveEntries : entries[j].key = k => j = i
    BY <1>2 DEF Shadowed
  <2>2. \E n \in DOMAIN Pairs : Pairs[n].key = k
    <3>1. Position(LiveEntries, i) \in 1 .. live /\ Pairs[Position(LiveEntries, i)] = PairOf(i)
      BY DEF InOrder
    <3>2. PairOf(i).key = k
      BY <1>2 DEF PairOf
    <3> QED BY <1>1, <3>1, <3>2
  <2>3. ASSUME NEW n \in 1 .. live
        PROVE  Pairs'[n] = IF Pairs[n].key = k THEN [Pairs[n] EXCEPT !.value = v] ELSE Pairs[n]
    <3>1. PICK j \in LiveEntries : Position(LiveEntries, j) = n
      BY DEF InOrder
    <3>2. Pairs[n] = PairOf(j) /\ Pairs'[n] = PairOf(j)'
      BY <1>2, <3>1 DEF InOrder
    <3>3. Pairs[n].key = k <=> j = i
      BY <1>2, <2>1, <3>2 DEF PairOf
    <3>4. CASE j = i
      <4>1. Pairs[n] = [key |-> k, value |-> entries[i].value]
        BY <1>2, <3>2, <3>4 DEF PairOf
      <4>2. [Pairs[n] EXCEPT !.value = v] = [key |-> k, value |-> v]
        BY <4>1
      <4> QED BY <1>2, <3>2, <3>3, <3>4, <4>2
    <3>5. CASE j # i
      BY <1>2, <3>2, <3>3, <3>5
    <3> QED BY <3>4, <3>5
  <2>4. Pairs' = [n \in DOMAIN Pairs |->
                   IF Pairs[n].key = k THEN [Pairs[n] EXCEPT !.value = v] ELSE Pairs[n]]
    BY <1>1, <1>2, <2>3
  <2> QED BY <2>2, <2>4 DEF Map!Put, Map!KeyAt
<1>3. ASSUME NEW m \in Nat \ LiveEntries, live' = live + 1, LiveEntries' = LiveEntries \cup {m},
             \A j \in LiveEntries : j < m /\ PairOf(j)' = PairOf(j),
             entries'[m] = Entry(k, v), PairOf(m)' = [key |-> k, value |-> v]
      PROVE  Map!Put(k, v)
  <2>1. /\ \A j \in LiveEntries : Position(LiveEntries', j) = Position(LiveEntries, j)
        /\ Position(LiveEntries', m) = live + 1
    BY <1>3, LiveSet, PositionAdd
  <2>2. \A j \in LiveEntries : entries[j].key # k
    <3> SUFFICES ASSUME NEW j \in LiveEntries, entries[j].key = k PROVE FALSE
      OBVIOUS
    <3>1. PairOf(j)'.key = k
      BY <1>3 DEF PairOf
    <3>2. entries'[j].key = k /\ entries'[m].key = k
      BY <1>3, <3>1 DEF PairOf, Entry
    <3> QED BY <1>3, <3>2 DEF Shadowed
  <2>3. \A n \in 1 .. live : Pairs[n].key # k /\ Pairs'[n] = Pairs[n]
    <3> SUFFICES ASSUME NEW n \in 1 .. live PROVE Pairs[n].key # k /\ Pairs'[n] = Pairs[n]
      OBVIOUS
    <3>1. PICK j \in LiveEntries : Position(LiveEntries, j) = n
      BY DEF InOrder
    <3>2. Pairs[n] = PairOf(j) /\ Pairs'[n] = PairOf(j)'
      BY <1>3, <2>1, <3>1 DEF InOrder
    <3> QED BY <1>3, <2>2, <3>2 DEF PairOf
  <2>4. Pairs'[live + 1] = [key |-> k, value |-> v]
    BY <1>3, <2>1 DEF InOrder
  <2>5. Pairs' = Append(Pairs, [key |-> k, value |-> v])
    <3>1. Append(Pairs, [key |-> k, value |-> v]) =
            [n \in 1 .. live + 1 |-> IF n = live + 1 THEN [key |-> k, value |-> v] ELSE Pairs[n]]
      BY <1>1, AppendIs
    <3>2. \A n \in 1 .. live + 1 : n = live + 1 \/ n \in 1 .. live
      BY <1>1
    <3> QED BY <1>1, <1>3, <2>3, <2>4, <3>1, <3>2
  <2> QED BY <1>1, <2>3, <2>5 DEF Map!Put, Map!KeyAt
<1> QED BY <1>2, <1>3, StoreFinds

\* Whatever a set stores, the pairs that are there keep their places and keys.
LEMMA StoreStable ==
  ASSUME IInv, InOrder, InOrder', Indexed = LiveEntries,
         NEW k \in Keys, NEW v \in Values, Store(k, v)
  PROVE  \A n \in DOMAIN Pairs : n \in DOMAIN Pairs' /\ Pairs'[n].key = Pairs[n].key
<1>1. live \in Nat /\ DOMAIN Pairs = 1 .. live /\ DOMAIN Pairs' = 1 .. live'
  BY DEF InOrder
<1> SUFFICES ASSUME NEW n \in 1 .. live PROVE n \in 1 .. live' /\ Pairs'[n].key = Pairs[n].key
  BY <1>1
<1>2. PICK j \in LiveEntries : Position(LiveEntries, j) = n
  BY DEF InOrder
<1>3. Pairs[n] = PairOf(j)
  BY <1>2 DEF InOrder
<1>4. ASSUME NEW i \in LiveEntries, entries[i].key = k, live' = live, LiveEntries' = LiveEntries,
             PairOf(j)' = IF j = i THEN [key |-> k, value |-> v] ELSE PairOf(j)
      PROVE  n \in 1 .. live' /\ Pairs'[n].key = Pairs[n].key
  <2>1. Pairs'[n] = PairOf(j)'
    BY <1>2, <1>4 DEF InOrder
  <2> QED BY <1>3, <1>4, <2>1 DEF PairOf
<1>5. ASSUME NEW m \in Nat \ LiveEntries, live' = live + 1, LiveEntries' = LiveEntries \cup {m},
             \A i \in LiveEntries : i < m, PairOf(j)' = PairOf(j)
      PROVE  n \in 1 .. live' /\ Pairs'[n].key = Pairs[n].key
  <2>1. Position(LiveEntries', j) = n
    BY <1>2, <1>5, LiveSet, PositionAdd
  <2>2. Pairs'[n] = PairOf(j)'
    BY <1>5, <2>1 DEF InOrder
  <2> QED BY <1>1, <1>3, <1>5, <2>2
<1> QED BY <1>4, <1>5, StoreFinds

LEMMA DeleteDeletes ==
  ASSUME IInv, InOrder, InOrder', ~Shadowed, NEW k \in Keys, Delete(k)
  PROVE  Map!Delete(k)
<1>1. /\ live \in Nat /\ DOMAIN Pairs = 1 .. live /\ Pairs = [n \in 1 .. live |-> Pairs[n]]
      /\ DOMAIN Pairs' = 1 .. live' /\ Pairs' = [n \in 1 .. live' |-> Pairs'[n]]
  BY DEF InOrder
<1>2. growing = {} /\ Indexed = LiveEntries
  BY DEF Delete, Indexed
<1>3. CASE LookupSlot(k) = {}
  <2>1. Pairs' = Pairs
    BY <1>3 DEF Delete, Pairs, EntryAt, Rank
  <2>2. \A i \in LiveEntries : entries[i].key # k
    BY <1>2, <1>3, IInvKeysFound DEF KeysFound, Get
  <2>3. \A n \in 1 .. live : Pairs[n].key # k
    <3> SUFFICES ASSUME NEW n \in 1 .. live PROVE Pairs[n].key # k
      OBVIOUS
    <3>1. PICK j \in LiveEntries : Position(LiveEntries, j) = n
      BY DEF InOrder
    <3>2. Pairs[n] = PairOf(j)
      BY <3>1 DEF InOrder
    <3> QED BY <2>2, <3>2 DEF PairOf
  <2> QED BY <1>1, <2>1, <2>3 DEF Map!Delete, Map!KeyAt
<1>4. ASSUME NEW s \in LookupSlot(k), Erase(s) PROVE Map!Delete(k)
  <2> PICK i \in DOMAIN entries : i = indices[s]
    BY LookupStops DEF Holds, IInv
  <2>1. i \in LiveEntries /\ entries[i].key = k
    BY <1>2, LookupStops, EntryFacts DEF Holds, IInv, Table
  <2>2. entries' = [entries EXCEPT ![i] = Dead] /\ live' = live - 1
    BY <1>4 DEF Erase
  <2>3. /\ LiveEntries' = LiveEntries \ {i}
        /\ \A j \in LiveEntries \ {i} : PairOf(j)' = PairOf(j)
    <3>1. entries \in Seq(EntrySet)
      BY DEF IInv, TypeOK, EntrySet
    <3>2. /\ DOMAIN entries' = DOMAIN entries /\ entries'[i] = Dead
          /\ \A j \in DOMAIN entries \ {i} : entries'[j] = entries[j]
      BY <2>2, <3>1
    <3> QED BY <2>1, <3>2 DEF LiveEntries, PairOf, Dead
  <2>4. PICK c \in 1 .. live : c = Position(LiveEntries, i) /\ Pairs[c] = PairOf(i)
    BY <2>1 DEF InOrder
  <2>5. ASSUME NEW n \in 1 .. live - 1
        PROVE  Pairs'[n] = IF n < c THEN Pairs[n] ELSE Pairs[n + 1]
    <3>1. PICK j \in LiveEntries' : Position(LiveEntries', j) = n
      BY <2>2 DEF InOrder
    <3>2. /\ Position(LiveEntries', j) = IF j < i THEN Position(LiveEntries, j)
                                                ELSE Position(LiveEntries, j) - 1
          /\ j < i => Position(LiveEntries, j) < c
          /\ i < j => c < Position(LiveEntries, j)
          /\ Position(LiveEntries, j) \in Nat
          /\ j \in Nat /\ i \in Nat /\ j # i /\ j \in LiveEntries
      BY <2>1, <2>3, <2>4, <3>1, LiveSet, PositionRemove, PositionFacts
    <3>3. Pairs'[n] = PairOf(j)' /\ PairOf(j)' = PairOf(j)
          /\ Pairs[Position(LiveEntries, j)] = PairOf(j)
      BY <2>3, <3>1, <3>2 DEF InOrder
    <3>4. CASE j < i
      BY <3>1, <3>2, <3>3, <3>4
    <3>5. CASE i < j
      <4>1. Position(LiveEntries, j) = n + 1 /\ ~(n < c)
        BY <3>1, <3>2, <3>5, <1>1
      <4> QED BY <3>3, <4>1
    <3> QED BY <3>2, <3>4, <3>5
  <2>6. Map!RemoveAt(Pairs, c) =
          [n \in 1 .. live - 1 |-> IF n < c THEN Pairs[n] ELSE Pairs[n + 1]]
    <3>1. Pairs \in Seq({Pairs[n] : n \in 1 .. live}) /\ Len(Pairs) = live
      BY <1>1, PairsSequence
    <3> QED BY <3>1, RemoveAtElements
  <2>7. Pairs' = Map!RemoveAt(Pairs, c)
    BY <1>1, <2>2, <2>5, <2>6
  <2>8. c \in DOMAIN Pairs /\ Pairs[c].key = k
    BY <1>1, <2>1, <2>4 DEF PairOf
  <2> QED BY <2>7, <2>8 DEF Map!Delete, Map!KeyAt
<1> QED BY <1>3, <1>4 DEF Delete

\* A slot of the index table is free or numbers an entry that there is, and the
\* array of entries never outgrows its room (__hike_compact_map_set).
THEOREM DictTypes == Spec => []TypeOK
<1>1. IInv => TypeOK
  BY DEF IInv
<1> QED BY <1>1, InitIInv, NextIInv, PTL DEF Spec

\* The index table of the dict holds each live entry once and nothing else,
\* live counts them, and a probe always comes to a free slot.
THEOREM DictSafe == Spec => []DictInv
<1>1. IInv => DictInv
  BY IInvDict
<1> QED BY <1>1, InitIInv, NextIInv, PTL DEF Spec

\* A get finds a key just when the dict holds a live entry of it, for every
\* hash, whatever was deleted and however often the table has grown.
THEOREM DictFinds == Spec => []KeysFound
<1>1. IInv => KeysFound
  BY IInvKeysFound
<1> QED BY <1>1, InitIInv, NextIInv, PTL DEF Spec

LEMMA RetryStores ==
  ASSUME IInv, Retry
  PROVE  Indexed = LiveEntries /\ \E kv \in growing : Store(kv[1], kv[2])
<1>1. \A i \in LiveEntries : i < Len(entries) + 1
  BY EntryFacts DEF IInv
<1>2. growing # {} /\ ~NeedsGrow
  BY DEF Retry, IInv, Counts
<1> QED BY <1>1, <1>2 DEF Retry, LoadMap, Indexed

\* Every step of the code does to the map what OrderedMap says, while no key
\* has two entries; which step that is does not matter to the index table.
LEMMA StepMaps ==
  ASSUME IInv, InOrder, InOrder', ~Shadowed, ~Shadowed'
  PROVE  /\ \A k \in Keys : Delete(k) => Map!Delete(k)
         /\ \A k \in Keys, v \in Values :
              /\ Set(k, v) => IF growing' = {} THEN Map!Put(k, v) ELSE UNCHANGED Pairs
              /\ Retry /\ growing = {<<k, v>>} => Map!Put(k, v)
         /\ Rehash => UNCHANGED Pairs
<1>1. ASSUME UNCHANGED <<entries, live>> PROVE UNCHANGED Pairs
  BY <1>1 DEF Pairs, EntryAt, Rank
<1>2. ASSUME NEW k \in Keys, NEW v \in Values, Set(k, v)
      PROVE  IF growing' = {} THEN Map!Put(k, v) ELSE UNCHANGED Pairs
  <2>1. CASE NeedsGrow
    BY <1>1, <1>2, <2>1 DEF Set, LoadMap, BeginGrow
  <2>2. CASE ~NeedsGrow
    <3>1. Store(k, v) /\ Indexed = LiveEntries /\ growing' = {}
      BY <1>2, <2>2 DEF Set, LoadMap, Store, Indexed
    <3> QED BY <3>1, StorePuts
  <2> QED BY <2>1, <2>2
<1>3. ASSUME NEW k \in Keys, NEW v \in Values, Retry, growing = {<<k, v>>} PROVE Map!Put(k, v)
  <2>1. Store(k, v)
    BY <1>3, RetryStores
  <2> QED BY <1>3, <2>1, RetryStores, StorePuts
<1> QED BY <1>1, <1>2, <1>3, DeleteDeletes DEF Rehash

LEMMA StepStable ==
  ASSUME IInv, InOrder, InOrder', Next, live' >= live
  PROVE  \A n \in DOMAIN Pairs : n \in DOMAIN Pairs' /\ Pairs'[n].key = Pairs[n].key
<1>1. ASSUME UNCHANGED <<entries, live>> PROVE UNCHANGED Pairs
  BY <1>1 DEF Pairs, EntryAt, Rank
<1>2. CASE \E k \in Keys : Delete(k)
  <2>1. live \in Nat
    BY DEF InOrder
  <2>2. \A s : ~Erase(s)
    BY <2>1 DEF Erase
  <2> QED BY <1>1, <1>2, <2>2 DEF Delete
<1>3. ASSUME NEW k \in Keys, NEW v \in Values, Set(k, v)
      PROVE  UNCHANGED Pairs \/ (Store(k, v) /\ Indexed = LiveEntries)
  BY <1>1, <1>3 DEF Set, LoadMap, BeginGrow, Indexed
<1>4. CASE Retry
  <2>1. PICK kv \in growing : Store(kv[1], kv[2])
    BY <1>4, RetryStores
  <2>2. kv[1] \in Keys /\ kv[2] \in Values
    BY DEF IInv, TypeOK
  <2> QED BY <1>4, <2>1, <2>2, RetryStores, StoreStable
<1>5. CASE Rehash
  BY <1>1, <1>5 DEF Rehash
<1> QED BY <1>2, <1>3, <1>4, <1>5, StoreStable DEF Next

\* While no key has two entries, each operation does to the map what it
\* should, at the step that ends it, whatever the hashes and the growths
\* (__hike_compact_map_set, _grow and _delete).
THEOREM DictMaps == Spec => StepsOfMap
<1>1. IInv /\ [Next]_vars =>
        [~Shadowed /\ ~Shadowed' =>
           /\ \A k \in Keys : Delete(k) => Map!Delete(k)
           /\ \A k \in Keys, v \in Values :
                /\ Set(k, v) => IF growing' = {} THEN Map!Put(k, v) ELSE UNCHANGED Pairs
                /\ Retry /\ growing = {<<k, v>>} => Map!Put(k, v)
           /\ Rehash => UNCHANGED Pairs]_vars
  BY NextInOrder, StepMaps
<1> QED BY <1>1, InitIInv, NextIInv, PTL DEF Spec, StepsOfMap

\* A set, with or without a growth, leaves the ordinal of every key alone, so
\* that a range loop goes on where it was (__hike_cdict_entry_at).
THEOREM DictOrdinals == Spec => OrdinalsStable
<1>1. IInv /\ [Next]_vars =>
        [live' >= live =>
           \A i \in DOMAIN Pairs : i \in DOMAIN Pairs' /\ Pairs'[i].key = Pairs[i].key]_vars
  BY NextInOrder, StepStable
<1> QED BY <1>1, InitIInv, NextIInv, PTL DEF Spec, OrdinalsStable
=============================================================================
