--------------------------- MODULE HikeImageProofs ---------------------------
(***************************************************************************)
(* Proofs about the images: what can be read of a file, at whatever point  *)
(* the writing of it stopped, is what a save wrote.                        *)
(***************************************************************************)
EXTENDS HikeImage, SequenceTheorems, WellFoundedInduction, TLAPS

-----------------------------------------------------------------------------
(* The invariant                                                           *)

Contents == Elements \union {Null, Junk}

Units == Int \union Contents \union {"HMB1", "HMB3"}

\* What a file may begin with, so that it is not the absent one.
Signs == Contents \union {"HMB1", "HMB3"}

Files == {f \in Seq(Units) : f = << >> \/ f[1] \in Signs}

Assigned(v) ==
  /\ v = [x \in Variables |-> v[x]]
  /\ v.num \in Int
  /\ \A x \in FieldNames : v[x] \in Seq(Contents)

\* The writes that the save in progress is through with.
Done == Len(StepsOfSave) - Len(steps)

StepsInv ==
  /\ Len(steps) \in 0..Len(StepsOfSave)
  /\ steps = [i \in 1..Len(steps) |-> StepsOfSave[Done + i]]

SavingInv ==
  steps # << >> =>
    /\ writer = "block"  => saving \in Blocks /\ BlockFits(saving)
    /\ writer = "graph"  => saving \in Graphs /\ GraphFits(saving)
    /\ writer = "mapped" => saving = [value |-> globals, hash |-> schema]

TypeInv ==
  /\ writer \in Writers
  /\ status \in {"none", "writing", "whole", "short", "torn"}
  /\ file = Absent <=> status = "none"
  /\ file = Absent \/ file \in Files
  /\ schema \in Schemas /\ failures \in 0..MaxFailures
  /\ Assigned(globals)

\* A save that is past its first write has created the file, or failed to.
WritingInv ==
  /\ status = "writing" => steps # << >> /\ Done > 0 /\ saved = saving
  /\ steps # << >> /\ Done > 0 => status \in {"none", "writing", "short"}
  /\ steps # << >> /\ Done > 0 /\ writer = "graph" => status = "writing"

\* The image of a block is a beginning of what Serialize writes.
BlockInv ==
  writer = "block" /\ file # Absent =>
    /\ saved \in Blocks /\ BlockFits(saved)
    /\ \E n \in 0..Len(SerializeBlock(saved)) :
          /\ file = SubSeq(SerializeBlock(saved), 1, n)
          /\ status = "whole" => n = Len(SerializeBlock(saved))

Image(g) == FirstHeader(g) \o Relocated(g) \o RelocationTable(g)

\* The image of a graph is a beginning of the first write, or all of it with a
\* beginning of the patched header.
Patched(g, n, m) == [p \in 1..n |-> IF p <= m THEN PatchedHeader(g)[p] ELSE Image(g)[p]]

GraphInv ==
  writer = "graph" /\ file # Absent =>
    /\ saved \in Graphs /\ GraphFits(saved)
    /\ \E n \in 0..Len(Image(saved)), m \in 0..GraphHeader :
          /\ file = Patched(saved, n, m)
          /\ m > 0 \/ status = "writing" => n = Len(Image(saved))
          /\ status = "whole" => n = Len(Image(saved)) /\ m = GraphHeader

\* What file f holds of the variables v, at the places that v calls for.
HeaderOf(f, hash) ==
  \A p \in 1..Len(f) :
    /\ p = 1 => f[p] = "HMB3"
    /\ p = 2 => f[p] = 3
    /\ p = 3 => f[p] = RootSize
    /\ p = 7 => f[p] = hash

RootOf(f, v) == \A p \in 1..RootSize : GraphHeader + p <= Len(f) => f[GraphHeader + p] = Root(v)[p]

PayloadsOf(f, v) ==
  \A i \in DOMAIN Fields : \A q \in 1..Len(v[Fields[i]]) :
    GraphHeader + Offset(v, i) + q <= Len(f)
      => f[GraphHeader + Offset(v, i) + q] = v[Fields[i]][q]

\* The size of an image with the root and the first k payloads.
SizeWith(v, k) == GraphHeader + Offset(v, k + 1)

\* A mapped image that no write failed for is a beginning of what its save
\* writes, with the header of before or after.
MappedInv ==
  writer = "mapped" /\ status \in {"writing", "whole", "torn"} =>
    /\ saved = [value |-> saved.value, hash |-> saved.hash]
    /\ Assigned(saved.value) /\ saved.hash \in Schemas
    /\ HeaderOf(file, saved.hash)
    /\ RootOf(file, saved.value)
    /\ PayloadsOf(file, saved.value)
    /\ status = "whole" => Len(file) = SizeWith(saved.value, Len(Fields))
    /\ status = "writing" => Len(file) = SizeWith(saved.value, Done - 1)

IInv ==
  /\ TypeInv /\ StepsInv /\ SavingInv /\ WritingInv
  /\ BlockInv /\ GraphInv /\ MappedInv

-----------------------------------------------------------------------------
(* Lemmas about numbers and recursive functions                            *)

\* A set of numbers that holds 0 and with each number the next holds them all.
LEMMA EveryNumber ==
  ASSUME NEW S \in SUBSET Nat, 0 \in S, \A n \in S : n + 1 \in S
  PROVE  S = Nat
<1> SUFFICES ASSUME Nat \ S # {} PROVE FALSE
  OBVIOUS
<1> DEFINE R == OpToRel(<, Nat)
<1>1. \E x \in Nat \ S : \A y \in Nat \ S : <<y, x>> \notin R
  BY NatLessThanWellFounded, WFMin
<1>2. PICK x \in Nat \ S : \A y \in Nat \ S : ~ y < x
  BY <1>1 DEF OpToRel
<1>3. x # 0 /\ x - 1 \in Nat
  OBVIOUS
<1>4. x - 1 \in S
  BY <1>2, <1>3
<1>5. (x - 1) + 1 \in S
  BY <1>4
<1> QED BY <1>5

\* A set of indices has a largest one.
LEMMA MaxIndex ==
  ASSUME NEW n \in Nat, NEW S \in SUBSET (1..n), S # {}
  PROVE  Max(S) \in S
<1> DEFINE Q == {m \in Nat : m <= n => \E x \in S : \A y \in S : y > n - m => y <= x}
<1>1. 0 \in Q
  <2>1. PICK x \in S : TRUE
    OBVIOUS
  <2>2. \A y \in S : y > n - 0 => y <= x
    OBVIOUS
  <2> QED BY <2>2
<1>2. \A m \in Q : m + 1 \in Q
  <2> SUFFICES ASSUME NEW m \in Q, m + 1 <= n
               PROVE  \E x \in S : \A y \in S : y > n - (m + 1) => y <= x
    OBVIOUS
  <2>1. PICK x \in S : \A y \in S : y > n - m => y <= x
    OBVIOUS
  <2>2. CASE x > n - m
    BY <2>1, <2>2
  <2>3. CASE x <= n - m /\ n - m \in S
    <3>1. \A y \in S : y > n - (m + 1) => y <= n - m
      BY <2>1, <2>3
    <3> QED BY <3>1, <2>3
  <2>4. CASE x <= n - m /\ n - m \notin S
    <3>1. \A y \in S : y > n - (m + 1) => y > n - m
      BY <2>4
    <3> QED BY <3>1, <2>1
  <2> QED BY <2>2, <2>3, <2>4
<1>3. Q = Nat
  BY <1>1, <1>2, EveryNumber
<1>4. \E x \in S : \A y \in S : y <= x
  <2>1. n \in Q
    BY <1>3
  <2> QED BY <2>1
<1>5. \E x \in S : \A y \in S : x >= y
  BY <1>4
<1> QED BY <1>5 DEF Max

\* Flat puts sequences together into one.
LEMMA FlatIsSeq ==
  ASSUME NEW S, NEW seqs \in Seq(Seq(S))
  PROVE  Flat(seqs) \in Seq(S)
<1> DEFINE N == Len(seqs)
           G(f, n) == IF n = 0 THEN << >> ELSE f[n - 1] \o seqs[n]
           E == {k \in Nat : k <= N => \E f : \A n \in 0..k : f[n] = G(f, n)}
           first == CHOOSE f : f = [n \in 0..N |-> G(f, n)]
<1>1. N \in Nat /\ \A n \in 1..N : seqs[n] \in Seq(S)
  OBVIOUS
<1>2. 0 \in E
  <2> DEFINE f == [n \in 0..0 |-> << >>]
  <2>1. \A n \in 0..0 : f[n] = G(f, n)
    OBVIOUS
  <2> QED BY <2>1
<1>3. ASSUME NEW k \in Nat, k + 1 <= N, \E f : \A n \in 0..k : f[n] = G(f, n)
      PROVE  \E f : \A n \in 0..(k + 1) : f[n] = G(f, n)
  <2>1. PICK f : \A n \in 0..k : f[n] = G(f, n)
    BY <1>3
  <2> DEFINE h == [n \in 0..(k + 1) |-> IF n <= k THEN f[n] ELSE f[k] \o seqs[k + 1]]
  <2>2. ASSUME NEW n \in 0..(k + 1) PROVE h[n] = G(h, n)
    <3>1. CASE n <= k
      BY <2>1, <3>1
    <3>2. CASE n = k + 1
      BY <3>2
    <3> QED BY <3>1, <3>2
  <2> HIDE DEF h
  <2> QED BY <2>2
<1>4. E = Nat
  <2> DEFINE Some(k) == \E f : \A n \in 0..k : f[n] = G(f, n)
  <2>1. \A k \in Nat : k + 1 <= N /\ Some(k) => Some(k + 1)
    BY <1>3
  <2>2. E = {k \in Nat : k <= N => Some(k)}
    OBVIOUS
  <2> HIDE DEF E, Some
  <2>3. E \in SUBSET Nat /\ \A k \in E : k + 1 \in E
    BY <1>1, <2>1, <2>2
  <2> QED BY <1>2, <2>3, EveryNumber
<1>5. first = [n \in 0..N |-> G(first, n)]
  <2>1. N \in E
    BY <1>1, <1>4
  <2>2. PICK f : \A n \in 0..N : f[n] = G(f, n)
    BY <1>1, <2>1
  <2> DEFINE h == [n \in 0..N |-> f[n]]
  <2>3. ASSUME NEW n \in 0..N PROVE h[n] = G(h, n)
    BY <1>1, <2>2
  <2>4. h = [n \in 0..N |-> h[n]]
    OBVIOUS
  <2> HIDE DEF h
  <2>5. h = [n \in 0..N |-> G(h, n)]
    BY <2>3, <2>4
  <2>6. \E f1 : f1 = [n \in 0..N |-> G(f1, n)]
    BY <2>5
  <2> QED BY <2>6
<1>6. \A n \in 0..N : first[n] = G(first, n)
  BY <1>5
<1> DEFINE D == {k \in Nat : k <= N => first[k] \in Seq(S)}
<1> HIDE DEF first
<1>7. 0 \in D
  <2>1. 0 \in 0..N /\ G(first, 0) = << >>
    BY <1>1
  <2>2. first[0] = << >>
    BY <1>6, <2>1
  <2> QED BY <2>2, EmptySeq
<1>8. \A k \in D : k + 1 \in D
  <2> SUFFICES ASSUME NEW k \in D, k + 1 <= N
               PROVE  first[k + 1] \in Seq(S)
    OBVIOUS
  <2>1. first[k] \in Seq(S) /\ seqs[k + 1] \in Seq(S)
    BY <1>1
  <2>2. first[k + 1] = first[k] \o seqs[k + 1]
    <3>1. k + 1 \in 0..N /\ k + 1 # 0 /\ (k + 1) - 1 = k
      BY <1>1
    <3> QED BY <1>6, <3>1
  <2> QED BY <2>1, <2>2, ConcatProperties
<1>9. D = Nat
  <2> HIDE DEF D
  <2>1. D \in SUBSET Nat
    BY DEF D
  <2> QED BY <1>7, <1>8, <2>1, EveryNumber
<1>10. Flat(seqs) = first[N]
  BY DEF Flat, first
<1> QED BY <1>1, <1>9, <1>10

\* The first payload follows the root, and each payload the one before.
LEMMA OffsetsAddUp ==
  ASSUME NEW v, \A x \in FieldNames : Len(v[x]) \in Nat
  PROVE  /\ Offset(v, 1) = RootSize
         /\ \A i \in 1..Len(Fields) : Offset(v, i + 1) = Offset(v, i) + Len(v[Fields[i]])
<1> DEFINE N == Len(Fields) + 1
           G(f, j) == IF j = 1 THEN RootSize ELSE f[j - 1] + Len(v[Fields[j - 1]])
           Some(k) == \E f : \A j \in 1..k : f[j] = G(f, j)
           E == {k \in Nat : k <= N => Some(k)}
           at == CHOOSE f : f = [j \in 1..N |-> G(f, j)]
<1>1. N \in Nat /\ Len(Fields) \in Nat
  BY ImageAssumption
<1>2. 0 \in E
  OBVIOUS
<1>3. ASSUME NEW k \in Nat, k + 1 <= N, \E f : \A j \in 1..k : f[j] = G(f, j)
      PROVE  \E f : \A j \in 1..(k + 1) : f[j] = G(f, j)
  <2>1. PICK f : \A j \in 1..k : f[j] = G(f, j)
    BY <1>3
  <2> DEFINE h == [j \in 1..(k + 1) |-> IF j <= k THEN f[j] ELSE G(f, j)]
  <2>2. ASSUME NEW j \in 1..(k + 1) PROVE h[j] = G(h, j)
    <3>1. CASE j <= k
      BY <2>1, <3>1
    <3>2. CASE j = k + 1
      BY <3>2
    <3> QED BY <3>1, <3>2
  <2> HIDE DEF h
  <2> QED BY <2>2
<1>4. E = Nat
  <2>1. \A k \in Nat : k + 1 <= N /\ Some(k) => Some(k + 1)
    BY <1>3
  <2>2. E = {k \in Nat : k <= N => Some(k)}
    OBVIOUS
  <2> HIDE DEF E, Some, N
  <2>3. E \in SUBSET Nat /\ \A k \in E : k + 1 \in E
    BY <1>1, <2>1, <2>2
  <2> QED BY <1>2, <2>3, EveryNumber
<1>5. at = [j \in 1..N |-> G(at, j)]
  <2>1. N \in E
    BY <1>1, <1>4
  <2>2. PICK f : \A j \in 1..N : f[j] = G(f, j)
    BY <1>1, <2>1
  <2> DEFINE h == [j \in 1..N |-> f[j]]
  <2>3. ASSUME NEW j \in 1..N PROVE h[j] = G(h, j)
    BY <1>1, <2>2
  <2>4. h = [j \in 1..N |-> h[j]]
    OBVIOUS
  <2> HIDE DEF h
  <2>5. h = [j \in 1..N |-> G(h, j)]
    BY <2>3, <2>4
  <2>6. \E f1 : f1 = [j \in 1..N |-> G(f1, j)]
    BY <2>5
  <2> QED BY <2>6
<1>6. \A i : Offset(v, i) = at[i]
  BY DEF Offset
<1>7. \A j \in 1..N : at[j] = G(at, j)
  <2> HIDE DEF at
  <2> QED BY <1>5
<1> HIDE DEF at
<1>8. at[1] = RootSize
  BY <1>1, <1>7
<1>9. \A i \in 1..Len(Fields) : at[i + 1] = at[i] + Len(v[Fields[i]])
  <2> SUFFICES ASSUME NEW i \in 1..Len(Fields)
               PROVE  at[i + 1] = at[i] + Len(v[Fields[i]])
    OBVIOUS
  <2>1. i + 1 \in 1..N /\ i + 1 # 1 /\ (i + 1) - 1 = i
    BY <1>1
  <2> QED BY <1>7, <2>1
<1> QED BY <1>6, <1>8, <1>9

\* A payload further back has the larger offset.
LEMMA OffsetsGrow ==
  ASSUME NEW v, \A x \in FieldNames : Len(v[x]) \in Nat
  PROVE  /\ \A i \in 1..(Len(Fields) + 1) : Offset(v, i) \in Nat /\ Offset(v, i) >= RootSize
         /\ \A i, j \in 1..(Len(Fields) + 1) : i <= j => Offset(v, i) <= Offset(v, j)
<1> DEFINE N == Len(Fields)
           Upto(k) == \A i \in 1..(k + 1) : /\ Offset(v, i) \in Nat /\ Offset(v, i) >= RootSize
                                            /\ Offset(v, i) <= Offset(v, k + 1)
           E == {k \in Nat : k <= N => Upto(k)}
<1>1. N \in Nat /\ RootSize \in Nat /\ \A i \in 1..N : Fields[i] \in FieldNames
  BY ImageAssumption DEF RootSize, FieldNames, Range
<1>2. 0 \in E
  BY <1>1, OffsetsAddUp
<1>3. ASSUME NEW k \in Nat, k + 1 <= N, Upto(k) PROVE Upto(k + 1)
  <2>1. k + 1 \in 1..N
    BY <1>1, <1>3
  <2>2. Offset(v, (k + 1) + 1) = Offset(v, k + 1) + Len(v[Fields[k + 1]])
    BY <2>1, OffsetsAddUp
  <2>3. Len(v[Fields[k + 1]]) \in Nat
    BY <1>1, <2>1
  <2>4. k + 1 \in 1..(k + 1)
    OBVIOUS
  <2>5. Offset(v, k + 1) \in Nat /\ Offset(v, k + 1) >= RootSize
    BY <1>3, <2>4
  <2> SUFFICES ASSUME NEW i \in 1..((k + 1) + 1)
               PROVE  /\ Offset(v, i) \in Nat /\ Offset(v, i) >= RootSize
                      /\ Offset(v, i) <= Offset(v, (k + 1) + 1)
    OBVIOUS
  <2>6. CASE i = (k + 1) + 1
    BY <1>1, <2>2, <2>3, <2>5, <2>6
  <2>7. CASE i \in 1..(k + 1)
    <3>1. Offset(v, i) \in Nat /\ Offset(v, i) >= RootSize /\ Offset(v, i) <= Offset(v, k + 1)
      BY <1>3, <2>7
    <3> QED BY <2>2, <2>3, <2>5, <3>1
  <2> QED BY <2>6, <2>7
<1>4. E = Nat
  <2>1. E \in SUBSET Nat
    OBVIOUS
  <2>2. \A k \in Nat : k + 1 <= N /\ Upto(k) => Upto(k + 1)
    BY <1>3
  <2>3. \A k \in E : k + 1 \in E
    <3> HIDE DEF Upto, N
    <3> QED BY <1>1, <2>2
  <2> HIDE DEF E
  <2> QED BY <1>2, <2>1, <2>3, EveryNumber
<1>5. \A k \in Nat : k <= N => Upto(k)
  <2> HIDE DEF Upto, N
  <2> QED BY <1>4
<1>6. ASSUME NEW j \in 1..(N + 1), NEW i \in 1..(N + 1), i <= j
      PROVE  Offset(v, i) \in Nat /\ Offset(v, i) >= RootSize /\ Offset(v, i) <= Offset(v, j)
  <2>1. j - 1 \in Nat /\ (j - 1) + 1 = j /\ j - 1 <= N /\ i \in 1..j
    BY <1>1, <1>6
  <2>2. Upto(j - 1)
    BY <1>5, <2>1
  <2> QED BY <2>1, <2>2
<1>7. \A i \in 1..(N + 1) : i <= i
  BY <1>1
<1> QED BY <1>6, <1>7

-----------------------------------------------------------------------------
(* Lemmas about files and what is written                                  *)

LEMMA AbsentIsNoFile == Absent \notin Files
<1> SUFFICES ASSUME Absent \in Files PROVE FALSE
  OBVIOUS
<1>1. Absent[1] \in Signs /\ Absent[1] = "absent"
  BY DEF Absent, Files
<1> QED BY <1>1, ImageAssumption DEF Signs, Contents

\* File w is what the first n of some units have made of the file.
AsWritten(w, how, units, n) ==
  /\ w \in Files
  /\ file = Absent \/ how = "create" =>
        Len(w) = n /\ \A p \in 1..n : w[p] = units[p]
  /\ file # Absent /\ how = "append" =>
        /\ Len(w) = Len(file) + n
        /\ \A p \in 1..Len(file) : w[p] = file[p]
        /\ \A p \in 1..n : w[Len(file) + p] = units[p]
  /\ file # Absent /\ how = "update" =>
        /\ Len(w) = IF n > Len(file) THEN n ELSE Len(file)
        /\ \A p \in 1..n : w[p] = units[p]
        /\ \A p \in (n + 1)..Len(file) : w[p] = file[p]

LEMMA WrittenUnits ==
  ASSUME file = Absent \/ file \in Files,
         NEW how \in {"create", "append", "update"}, how = "update" => file # Absent,
         NEW units \in Files, NEW n \in 0..Len(units),
         NEW w, w = Written(how, SubSeq(units, 1, n))
  PROVE  AsWritten(w, how, units, n)
<1> DEFINE part == SubSeq(units, 1, n)
<1>1. units \in Seq(Units) /\ Len(units) \in Nat /\ n \in Int
  BY DEF Files
<1>2. /\ part \in Seq(Units) /\ Len(part) = n
      /\ \A p \in 1..n : part[p] = units[p]
  <2>1. \A i \in 1..n : units[i] \in Units
    BY <1>1
  <2> QED BY <1>1, <2>1, SubSeqProperties
<1>3. part \in Files
  <2>1. CASE n = 0
    BY <1>2, <2>1, EmptySeq DEF Files
  <2>2. CASE n > 0
    <3>1. part[1] = units[1] /\ units # << >>
      BY <1>1, <1>2, <2>2, EmptySeq
    <3>2. units[1] \in Signs
      BY <3>1 DEF Files
    <3> QED BY <1>2, <3>1, <3>2 DEF Files
  <2> QED BY <1>1, <2>1, <2>2
<1> HIDE DEF part
<1>4. CASE file = Absent \/ how = "create"
  <2>1. w = part
    BY <1>4 DEF Written, part
  <2> QED BY <1>2, <1>3, <1>4, <2>1 DEF AsWritten
<1>5. CASE file # Absent /\ how = "append"
  <2>1. w = file \o part
    BY <1>5 DEF Written, part
  <2>2. file \in Seq(Units) /\ Len(file) \in Nat /\ (file = << >> \/ file[1] \in Signs)
    BY <1>5 DEF Files
  <2>3. /\ w \in Seq(Units) /\ Len(w) = Len(file) + n
        /\ \A i \in 1..(Len(file) + n) : w[i] = IF i <= Len(file) THEN file[i] ELSE part[i - Len(file)]
    <3>1. /\ w \in Seq(Units) /\ Len(w) = Len(file) + Len(part)
          /\ \A i \in 1..(Len(file) + Len(part)) :
                w[i] = IF i <= Len(file) THEN file[i] ELSE part[i - Len(file)]
      <4>1. part \in Seq(Units) /\ file \in Seq(Units)
        BY <1>2, <2>2
      <4> QED BY <2>1, <4>1, ConcatProperties, ZenonT(60)
    <3> QED BY <1>2, <3>1
  <2>4. w \in Files
    <3>1. CASE file = << >>
      <4>1. w = part
        BY <1>2, <2>1, <3>1, ConcatEmptySeq
      <4> QED BY <1>3, <4>1
    <3>2. CASE file # << >>
      <4>1. 1 <= Len(file)
        BY <2>2, <3>2, EmptySeq
      <4>2. w[1] = file[1]
        BY <2>2, <2>3, <4>1, <1>1
      <4> QED BY <2>2, <2>3, <3>2, <4>2 DEF Files
    <3> QED BY <3>1, <3>2
  <2>5. \A p \in 1..Len(file) : w[p] = file[p]
    BY <1>1, <2>2, <2>3
  <2>6. \A p \in 1..n : w[Len(file) + p] = units[p]
    BY <1>1, <1>2, <2>2, <2>3, SMTT(40)
  <2> QED BY <1>5, <2>3, <2>4, <2>5, <2>6 DEF AsWritten
<1>6. CASE file # Absent /\ how = "update"
  <2> DEFINE rest == SubSeq(file, n + 1, Len(file))
  <2>1. w = part \o rest
    BY <1>2, <1>6 DEF Written, part
  <2>2. file \in Seq(Units) /\ Len(file) \in Nat /\ (file = << >> \/ file[1] \in Signs)
    BY <1>6 DEF Files
  <2>3. /\ rest \in Seq(Units)
        /\ Len(rest) = IF n + 1 <= Len(file) THEN Len(file) - n ELSE 0
        /\ \A i \in 1..(Len(file) - n) : rest[i] = file[n + i]
    <3>1. n + 1 \in Int /\ \A i \in (n + 1)..Len(file) : file[i] \in Units
      BY <1>1, <2>2
    <3>2. /\ rest \in Seq(Units)
          /\ Len(rest) = IF n + 1 <= Len(file) THEN Len(file) - (n + 1) + 1 ELSE 0
          /\ \A i \in 1..(Len(file) - (n + 1) + 1) : rest[i] = file[(n + 1) + i - 1]
      BY <2>2, <3>1, SubSeqProperties
    <3> HIDE DEF rest
    <3> QED BY <1>1, <2>2, <3>2
  <2> HIDE DEF rest
  <2>4. /\ w \in Seq(Units) /\ Len(w) = n + Len(rest)
        /\ \A i \in 1..(n + Len(rest)) : w[i] = IF i <= n THEN part[i] ELSE rest[i - n]
    <3>1. /\ w \in Seq(Units) /\ Len(w) = Len(part) + Len(rest)
          /\ \A i \in 1..(Len(part) + Len(rest)) :
                w[i] = IF i <= Len(part) THEN part[i] ELSE rest[i - Len(part)]
      <4>1. part \in Seq(Units) /\ rest \in Seq(Units)
        BY <1>2, <2>3
      <4> QED BY <2>1, <4>1, ConcatProperties, ZenonT(60)
    <3> QED BY <1>2, <3>1
  <2>5. Len(w) = IF n > Len(file) THEN n ELSE Len(file)
    BY <1>1, <2>2, <2>3, <2>4
  <2>6. \A p \in 1..n : w[p] = units[p]
    BY <1>1, <1>2, <2>2, <2>3, <2>4, SMTT(40)
  <2>7. \A p \in (n + 1)..Len(file) : w[p] = file[p]
    <3> SUFFICES ASSUME NEW p \in (n + 1)..Len(file) PROVE w[p] = file[p]
      OBVIOUS
    <3>1. p - n \in 1..(Len(file) - n) /\ n + (p - n) = p /\ n + 1 <= Len(file) /\ ~ p <= n
      BY <1>1, <2>2
    <3>2. p \in 1..(n + Len(rest))
      BY <1>1, <2>2, <2>3, <3>1
    <3>3. w[p] = rest[p - n]
      BY <2>4, <3>1, <3>2
    <3>4. rest[p - n] = file[n + (p - n)]
      BY <2>3, <3>1
    <3> QED BY <3>1, <3>3, <3>4
  <2>8. w \in Files
    <3>1. CASE n > 0
      <4>1. w[1] = units[1] /\ units # << >>
        BY <1>1, <2>6, <3>1
      <4> QED BY <2>4, <4>1 DEF Files
    <3>2. CASE n = 0 /\ file # << >>
      <4>1. 1 <= Len(file)
        BY <2>2, <3>2, EmptySeq
      <4>2. w[1] = file[1]
        BY <2>2, <2>7, <3>2, <4>1
      <4> QED BY <2>2, <2>4, <3>2, <4>2 DEF Files
    <3>3. CASE n = 0 /\ file = << >>
      <4>1. Len(w) = 0
        BY <2>5, <3>3, EmptySeq
      <4>2. w = << >>
        BY <2>4, <4>1, EmptySeq
      <4> QED BY <2>4, <4>2 DEF Files
    <3> QED BY <1>1, <3>1, <3>2, <3>3
  <2> QED BY <1>6, <2>5, <2>6, <2>7, <2>8 DEF AsWritten
<1> QED BY <1>4, <1>5, <1>6

LEMMA OneUnit ==
  ASSUME NEW S, NEW x \in S
  PROVE  <<x>> \in Seq(S) /\ Len(<<x>>) = 1 /\ <<x>>[1] = x
OBVIOUS

LEMMA Joined ==
  ASSUME NEW S, NEW a \in Seq(S), NEW b \in Seq(S), NEW w, w = a \o b
  PROVE  /\ w \in Seq(S) /\ Len(w) = Len(a) + Len(b)
         /\ \A i \in 1..Len(a) : w[i] = a[i]
         /\ \A i \in 1..Len(b) : w[Len(a) + i] = b[i]
<1>1. /\ w \in Seq(S) /\ Len(w) = Len(a) + Len(b)
      /\ \A i \in 1..(Len(a) + Len(b)) : w[i] = IF i <= Len(a) THEN a[i] ELSE b[i - Len(a)]
  BY ConcatProperties
<1>2. Len(a) \in Nat /\ Len(b) \in Nat
  OBVIOUS
<1>3. \A i \in 1..Len(a) : w[i] = a[i]
  BY <1>1, <1>2
<1>4. ASSUME NEW i \in 1..Len(b) PROVE w[Len(a) + i] = b[i]
  <2>1. Len(a) + i \in 1..(Len(a) + Len(b)) /\ ~ Len(a) + i <= Len(a) /\ (Len(a) + i) - Len(a) = i
    BY <1>2
  <2> QED BY <1>1, <2>1
<1> QED BY <1>1, <1>3, <1>4

LEMMA FieldFacts ==
  /\ Len(Fields) \in Nat /\ DOMAIN Fields = 1..Len(Fields)
  /\ RootSize \in Nat /\ RootSize = 1 + 2 * Len(Fields)
  /\ \A i \in 1..Len(Fields) : Fields[i] \in FieldNames /\ Fields[i] # "num"
  /\ \A x \in FieldNames : \E i \in 1..Len(Fields) : x = Fields[i]
BY ImageAssumption DEF RootSize, FieldNames, Range

\* The steps of a save of mapped variables: the root, each payload, the header.
LEMMA MappedSteps ==
  ASSUME writer = "mapped"
  PROVE  /\ Len(StepsOfSave) = Len(Fields) + 2
         /\ StepsOfSave = [i \in 1..Len(StepsOfSave) |-> StepsOfSave[i]]
         /\ StepsOfSave[1] = <<"create", "root">>
         /\ \A i \in 1..Len(Fields) : StepsOfSave[i + 1] = <<"append", Fields[i]>>
         /\ StepsOfSave[Len(Fields) + 2] = <<"update", "final">>
<1> DEFINE r == <<"create", "root">>
           x == <<"update", "final">>
           S == {r, x} \union {<<"append", Fields[i]>> : i \in DOMAIN Fields}
           a == <<r>>
           b == [i \in DOMAIN Fields |-> <<"append", Fields[i]>>]
           c == <<x>>
           ab == a \o b
           w == ab \o c
<1>0. r \in S /\ x \in S /\ \A i \in DOMAIN Fields : <<"append", Fields[i]>> \in S
  OBVIOUS
<1>1. a \in Seq(S) /\ Len(a) = 1 /\ a[1] = r
  <2> HIDE DEF S, r
  <2> QED BY <1>0, OneUnit
<1>2. c \in Seq(S) /\ Len(c) = 1 /\ c[1] = x
  <2> HIDE DEF S, x
  <2> QED BY <1>0, OneUnit
<1>3. b \in Seq(S) /\ Len(b) = Len(Fields) /\ \A i \in 1..Len(Fields) : b[i] = <<"append", Fields[i]>>
  <2> HIDE DEF S
  <2>1. b \in [1..Len(Fields) -> S]
    BY <1>0, FieldFacts
  <2> QED BY <2>1, FieldFacts
<1>4. StepsOfSave = w
  BY DEF StepsOfSave
<1> HIDE DEF a, b, c, S, r, x
<1>5. /\ ab \in Seq(S) /\ Len(ab) = Len(Fields) + 1
      /\ ab[1] = a[1] /\ \A i \in 1..Len(Fields) : ab[1 + i] = b[i]
  <2>1. a \in Seq(S) /\ b \in Seq(S)
    BY <1>1, <1>3
  <2>2. /\ ab \in Seq(S) /\ Len(ab) = Len(a) + Len(b)
        /\ \A i \in 1..Len(a) : ab[i] = a[i]
        /\ \A i \in 1..Len(b) : ab[Len(a) + i] = b[i]
    BY <2>1, Joined
  <2> QED BY <1>1, <1>3, <2>2, FieldFacts
<1> HIDE DEF ab
<1>6. /\ Len(w) = Len(Fields) + 2 /\ w[(Len(Fields) + 1) + 1] = c[1]
      /\ \A i \in 1..(Len(Fields) + 1) : w[i] = ab[i]
  <2>1. ab \in Seq(S) /\ c \in Seq(S)
    BY <1>2, <1>5
  <2>2. /\ Len(w) = Len(ab) + Len(c)
        /\ \A i \in 1..Len(ab) : w[i] = ab[i]
        /\ \A i \in 1..Len(c) : w[Len(ab) + i] = c[i]
    BY <2>1, Joined
  <2> QED BY <1>2, <1>5, <2>2, FieldFacts
<1>10. w = [i \in 1..Len(w) |-> w[i]]
  <2>1. w \in Seq(S)
    BY <1>2, <1>5, Joined
  <2> HIDE DEF w
  <2> QED BY <2>1, LenProperties
<1> HIDE DEF w
<1>7. w[1] = a[1]
  BY <1>5, <1>6, FieldFacts
<1>8. ASSUME NEW i \in 1..Len(Fields) PROVE w[i + 1] = b[i]
  <2>1. i + 1 \in 1..(Len(Fields) + 1) /\ i + 1 = 1 + i
    BY FieldFacts
  <2> QED BY <1>5, <1>6, <2>1
<1>9. w[Len(Fields) + 2] = c[1]
  BY <1>6, FieldFacts
<1> QED BY <1>1, <1>2, <1>3, <1>4, <1>6, <1>7, <1>8, <1>9, <1>10 DEF r, x

LEMMA OtherSteps ==
  /\ writer = "block" => StepsOfSave = << <<"create", "block">> >>
  /\ writer = "graph" => StepsOfSave = << <<"create", "graph">>, <<"update", "patch">> >>
BY DEF StepsOfSave

LEMMA StepsLength ==
  ASSUME TypeInv
  PROVE  /\ Len(StepsOfSave) \in Nat \ {0}
         /\ StepsOfSave = [i \in 1..Len(StepsOfSave) |-> StepsOfSave[i]]
<1>1. writer \in {"block", "graph", "mapped"}
  BY ImageAssumption DEF TypeInv
<1>2. CASE writer = "mapped"
  BY <1>2, MappedSteps, FieldFacts
<1>3. CASE writer = "block"
  BY <1>3, OtherSteps
<1>4. CASE writer = "graph"
  <2> DEFINE x == <<"create", "graph">>  y == <<"update", "patch">>
  <2>1. StepsOfSave = <<x, y>>
    BY <1>4, OtherSteps
  <2> HIDE DEF x, y
  <2>2. <<x, y>> \in Seq({x, y}) /\ Len(<<x, y>>) = 2
    OBVIOUS
  <2> QED BY <2>1, <2>2, LenProperties
<1> QED BY <1>1, <1>2, <1>3, <1>4

\* What is left of the steps of a save.
LEMMA StepsLeft ==
  ASSUME TypeInv, StepsInv
  PROVE  /\ Done \in 0..Len(StepsOfSave)
         /\ steps = << >> <=> Done = Len(StepsOfSave)
         /\ steps = << >> <=> Len(steps) = 0
         /\ steps # << >> =>
               /\ Done + 1 \in 1..Len(StepsOfSave)
               /\ Head(steps) = StepsOfSave[Done + 1]
               /\ Len(Tail(steps)) = Len(steps) - 1
               /\ Tail(steps) = [i \in 1..(Len(steps) - 1) |-> StepsOfSave[(Done + 1) + i]]
<1>1. Len(StepsOfSave) \in Nat
  BY StepsLength
<1> DEFINE S == {StepsOfSave[i] : i \in 1..Len(StepsOfSave)}
<1>2. Len(steps) \in Nat /\ Len(steps) <= Len(StepsOfSave)
  BY <1>1 DEF StepsInv
<1>3. Done \in 0..Len(StepsOfSave)
  BY <1>1, <1>2 DEF Done
<1>4. steps \in Seq(S)
  <2>1. \A i \in 1..Len(steps) : Done + i \in 1..Len(StepsOfSave)
    BY <1>1, <1>2 DEF Done
  <2>2. \A i \in 1..Len(steps) : StepsOfSave[Done + i] \in S
    BY <2>1
  <2> HIDE DEF S
  <2>3. steps \in [1..Len(steps) -> S]
    BY <2>2 DEF StepsInv
  <2> QED BY <1>2, <2>3
<1> HIDE DEF S
<1>5. steps = << >> <=> Len(steps) = 0
  BY <1>4, EmptySeq
<1>6. ASSUME steps # << >>
      PROVE  /\ Done + 1 \in 1..Len(StepsOfSave)
             /\ Head(steps) = StepsOfSave[Done + 1]
             /\ Len(Tail(steps)) = Len(steps) - 1
             /\ Tail(steps) = [i \in 1..(Len(steps) - 1) |-> StepsOfSave[(Done + 1) + i]]
  <2>1. Len(steps) > 0
    BY <1>2, <1>5, <1>6
  <2>2. Done + 1 \in 1..Len(StepsOfSave)
    BY <1>1, <1>2, <2>1 DEF Done
  <2>3. \A i \in 1..Len(steps) : steps[i] = StepsOfSave[Done + i]
    BY DEF StepsInv
  <2>4. Head(steps) = StepsOfSave[Done + 1]
    BY <1>2, <1>4, <1>6, <2>1, <2>3
  <2>5. /\ Tail(steps) \in Seq(S) /\ Len(Tail(steps)) = Len(steps) - 1
        /\ \A i \in 1..Len(Tail(steps)) : Tail(steps)[i] = steps[i + 1]
    BY <1>4, <1>6, HeadTailProperties
  <2>6. \A i \in 1..(Len(steps) - 1) : Tail(steps)[i] = StepsOfSave[(Done + 1) + i]
    <3> SUFFICES ASSUME NEW i \in 1..(Len(steps) - 1)
                 PROVE  Tail(steps)[i] = StepsOfSave[(Done + 1) + i]
      OBVIOUS
    <3>1. i + 1 \in 1..Len(steps) /\ Done + (i + 1) = (Done + 1) + i
      BY <1>2, <1>3, <1>1
    <3> QED BY <2>3, <2>5, <3>1
  <2>7. Tail(steps) = [i \in 1..(Len(steps) - 1) |-> Tail(steps)[i]]
    BY <2>5, LenProperties
  <2> QED BY <2>2, <2>4, <2>5, <2>6, <2>7
<1>7. steps = << >> <=> Done = Len(StepsOfSave)
  BY <1>1, <1>2, <1>5 DEF Done
<1> QED BY <1>3, <1>5, <1>6, <1>7

\* A header of a graph is nine units, whatever its fields are.
LEMMA HeaderUnits ==
  ASSUME NEW h, h = <<"HMB3", 3, h[3], h[4], h[5], h[6], h[7], h[8], h[9]>>,
         \A i \in 3..9 : h[i] \in Int
  PROVE  /\ h \in Files /\ Len(h) = GraphHeader
         /\ h[1] = "HMB3" /\ h[2] = 3
<1>1. "HMB3" \in Units /\ "HMB3" \in Signs /\ \A i \in Int : i \in Units
  BY DEF Units, Signs
<1>2. Len(h) = 9 /\ h[1] = "HMB3" /\ h[2] = 3
  OBVIOUS
<1>3. \A i \in 1..9 : h[i] \in Units
  <2>1. \A i \in 1..9 : i = 1 \/ i = 2 \/ i \in 3..9
    OBVIOUS
  <2> QED BY <1>1, <1>2, <2>1
<1>4. h = [i \in 1..9 |-> h[i]]
  OBVIOUS
<1>5. h \in Seq(Units)
  BY <1>3, <1>4
<1> QED BY <1>1, <1>2, <1>5 DEF Files, GraphHeader

LEMMA AssignedLengths ==
  ASSUME NEW v, Assigned(v)
  PROVE  \A x \in FieldNames : Len(v[x]) \in Nat /\ v[x] \in Files
<1> SUFFICES ASSUME NEW x \in FieldNames PROVE Len(v[x]) \in Nat /\ v[x] \in Files
  OBVIOUS
<1>1. v[x] \in Seq(Contents)
  BY DEF Assigned
<1>2. Contents \subseteq Units /\ Contents \subseteq Signs
  BY DEF Units, Signs
<1>3. v[x] \in Seq(Units)
  BY <1>1, <1>2, SeqMonotonic
<1>4. v[x] # << >> => v[x][1] \in Contents
  BY <1>1
<1> QED BY <1>1, <1>2, <1>3, <1>4 DEF Files

\* The root of the mapped variables v.
LEMMA RootUnits ==
  ASSUME NEW v, Assigned(v)
  PROVE  /\ Root(v) \in Seq(Int) /\ Len(Root(v)) = RootSize
         /\ Root(v)[1] = v.num
         /\ \A i \in 1..Len(Fields) :
               /\ Root(v)[2 * i] = Offset(v, i) /\ Root(v)[2 * i + 1] = Len(v[Fields[i]])
               /\ Offset(v, i) \in Nat /\ Offset(v, i) >= RootSize
<1>1. \A i \in 1..Len(Fields) :
        Offset(v, i) \in Nat /\ Offset(v, i) >= RootSize /\ Len(v[Fields[i]]) \in Nat
  <2>1. \A x \in FieldNames : Len(v[x]) \in Nat
    BY AssignedLengths
  <2>2. \A i \in 1..(Len(Fields) + 1) : Offset(v, i) \in Nat /\ Offset(v, i) >= RootSize
    BY <2>1, OffsetsGrow
  <2>3. \A i \in 1..Len(Fields) : i \in 1..(Len(Fields) + 1)
    BY FieldFacts
  <2> QED BY <2>1, <2>2, <2>3, FieldFacts
<1> DEFINE Unit(p) == LET i == p \div 2
                      IN  IF p = 1 THEN v.num ELSE IF p = 2 * i THEN Offset(v, i) ELSE Len(v[Fields[i]])
<1>2. Root(v) = [p \in 1..RootSize |-> Unit(p)]
  BY DEF Root
<1>3. ASSUME NEW p \in 1..RootSize PROVE Unit(p) \in Int
  <2>1. CASE p = 1
    BY <2>1 DEF Assigned
  <2>2. CASE p # 1
    <3>1. p \div 2 \in 1..Len(Fields)
      BY <2>2, FieldFacts
    <3> QED BY <1>1, <2>2, <3>1
  <2> QED BY <2>1, <2>2
<1>4. 1 \in 1..RootSize /\ Unit(1) = v.num
  BY FieldFacts
<1>5. ASSUME NEW i \in 1..Len(Fields)
      PROVE  /\ 2 * i \in 1..RootSize /\ Unit(2 * i) = Offset(v, i)
             /\ 2 * i + 1 \in 1..RootSize /\ Unit(2 * i + 1) = Len(v[Fields[i]])
  <2>1. 2 * i \in 1..RootSize /\ 2 * i + 1 \in 1..RootSize
    BY FieldFacts
  <2>2. (2 * i) \div 2 = i /\ (2 * i + 1) \div 2 = i /\ 2 * i # 1 /\ 2 * i + 1 # 1 /\ 2 * i + 1 # 2 * i
    BY FieldFacts
  <2> QED BY <2>1, <2>2
<1> HIDE DEF Unit
<1>6. Root(v) \in [1..RootSize -> Int]
  BY <1>2, <1>3
<1>7. Root(v) \in Seq(Int) /\ Len(Root(v)) = RootSize
  BY <1>6, <1>2, FieldFacts
<1>8. \A p \in 1..RootSize : Root(v)[p] = Unit(p)
  BY <1>2
<1> QED BY <1>1, <1>4, <1>5, <1>7, <1>8

\* What a save of the mapped variables v creates its file with.
FirstImage(h, v) == MappedHeader(h) \o Root(v)

LEMMA FirstUnits ==
  ASSUME NEW h \in Int, NEW v, Assigned(v)
  PROVE  /\ FirstImage(h, v) \in Files /\ Len(FirstImage(h, v)) = GraphHeader + RootSize
         /\ FirstImage(h, v)[1] = "HMB3" /\ FirstImage(h, v)[2] = 3
         /\ FirstImage(h, v)[3] = RootSize /\ FirstImage(h, v)[7] = h
         /\ \A p \in 1..RootSize : FirstImage(h, v)[GraphHeader + p] = Root(v)[p]
<1> DEFINE w == FirstImage(h, v)
<1>0. w = MappedHeader(h) \o Root(v)
  BY DEF FirstImage
<1> HIDE DEF w
<1> DEFINE m == MappedHeader(h)
<1>1. /\ m \in Files /\ Len(m) = GraphHeader
      /\ m[1] = "HMB3" /\ m[2] = 3 /\ m[3] = RootSize /\ m[7] = h
  <2>1. RootSize \in Int /\ Unset \in Int
    BY FieldFacts DEF Unset
  <2>2. m = Header(RootSize, Unset, Unset, Unset, h, Unset, Unset)
    BY DEF MappedHeader
  <2>3. m = <<"HMB3", 3, RootSize, Unset, Unset, Unset, h, Unset, Unset>>
    BY <2>2 DEF Header
  <2> HIDE DEF m
  <2>4. m[3] = RootSize /\ m[4] = Unset /\ m[5] = Unset /\ m[6] = Unset /\ m[7] = h
        /\ m[8] = Unset /\ m[9] = Unset
    BY <2>3
  <2>5. m = <<"HMB3", 3, m[3], m[4], m[5], m[6], m[7], m[8], m[9]>>
    BY <2>3, <2>4
  <2>6. \A i \in 3..9 : m[i] \in Int
    BY <2>1, <2>4
  <2> QED BY <2>4, <2>5, <2>6, HeaderUnits
<1>2. Root(v) \in Seq(Units)
  <2>1. Int \subseteq Units
    BY DEF Units
  <2> QED BY <2>1, RootUnits, SeqMonotonic
<1> HIDE DEF m
<1>3. m \in Seq(Units)
  BY <1>1 DEF Files
<1>4. /\ w \in Seq(Units) /\ Len(w) = Len(m) + Len(Root(v))
      /\ \A i \in 1..Len(m) : w[i] = m[i]
      /\ \A i \in 1..Len(Root(v)) : w[Len(m) + i] = Root(v)[i]
  BY <1>0, <1>2, <1>3, Joined DEF m
<1>5. w[1] = m[1] /\ w[2] = m[2] /\ w[3] = m[3] /\ w[7] = m[7]
  BY <1>1, <1>4 DEF GraphHeader
<1>6. w \in Files
  BY <1>1, <1>4, <1>5 DEF Files, Signs
<1> QED BY <1>1, <1>4, <1>5, <1>6, RootUnits DEF w

\* The header that a save of mapped variables ends with.
LEMMA LastUnits ==
  ASSUME NEW h \in Int, NEW size \in Nat, NEW w, w = FinalHeader(h, size)
  PROVE  /\ w \in Files /\ Len(w) = GraphHeader
         /\ w[1] = "HMB3" /\ w[2] = 3 /\ w[3] = RootSize /\ w[7] = h
<1> DEFINE payload == size - RootSize - GraphHeader
<1>1. payload \in Int /\ RootSize \in Int /\ Unset \in Int /\ size \in Int
  BY FieldFacts DEF GraphHeader, Unset
<1>2. w = Header(RootSize, payload, Unset, payload, h, size, 0)
  BY DEF FinalHeader
<1> HIDE DEF payload
<1>3. w = <<"HMB3", 3, RootSize, payload, Unset, payload, h, size, 0>>
  BY <1>2 DEF Header
<1>4. w[3] = RootSize /\ w[4] = payload /\ w[5] = Unset /\ w[6] = payload /\ w[7] = h
      /\ w[8] = size /\ w[9] = 0
  BY <1>3
<1>5. w = <<"HMB3", 3, w[3], w[4], w[5], w[6], w[7], w[8], w[9]>>
  BY <1>3, <1>4
<1>6. \A i \in 3..9 : w[i] \in Int
  BY <1>1, <1>4
<1> QED BY <1>4, <1>5, <1>6, HeaderUnits

\* What Serialize writes of a block.
LEMMA BlockUnits ==
  ASSUME NEW b \in Blocks, NEW w, w = SerializeBlock(b)
  PROVE  /\ b.data \in Seq(Elements) /\ b.pointers \in Seq(Nat)
         /\ b = [data |-> b.data, pointers |-> b.pointers]
         /\ Len(b.data) \in Nat /\ Len(b.pointers) \in Nat
         /\ w \in Files /\ Len(w) = BlockHeader + Len(b.data) + Len(b.pointers)
         /\ w[1] = "HMB1" /\ w[2] = 1 /\ w[3] = Len(b.data) /\ w[4] = Len(b.pointers)
         /\ \A i \in 1..Len(b.data) : w[BlockHeader + i] = b.data[i]
         /\ \A i \in 1..Len(b.pointers) : w[(BlockHeader + Len(b.data)) + i] = b.pointers[i]
<1> DEFINE h == <<"HMB1", 1, Len(b.data), Len(b.pointers)>>
           hd == h \o b.data
<1>1. /\ b.data \in Seq(Elements) /\ b.pointers \in Seq(Nat)
      /\ b = [data |-> b.data, pointers |-> b.pointers]
  BY ImageAssumption
<1>2. Len(b.data) \in Nat /\ Len(b.pointers) \in Nat
  BY <1>1
<1>3. "HMB1" \in Units /\ Elements \subseteq Units /\ Int \subseteq Units /\ Nat \subseteq Units
  BY DEF Units, Contents
<1>4. b.data \in Seq(Units) /\ b.pointers \in Seq(Units)
  BY <1>1, <1>3, SeqMonotonic
<1>5. h \in Seq(Units) /\ Len(h) = 4 /\ h[1] = "HMB1" /\ h[2] = 1 /\ h[3] = Len(b.data) /\ h[4] = Len(b.pointers)
  BY <1>2, <1>3
<1>6. w = hd \o b.pointers
  BY DEF SerializeBlock
<1> HIDE DEF h
<1>7. /\ hd \in Seq(Units) /\ Len(hd) = Len(h) + Len(b.data)
      /\ \A i \in 1..Len(h) : hd[i] = h[i]
      /\ \A i \in 1..Len(b.data) : hd[Len(h) + i] = b.data[i]
  <2>1. h \in Seq(Units) /\ b.data \in Seq(Units) /\ hd = h \o b.data
    BY <1>4, <1>5
  <2> HIDE DEF hd
  <2> QED BY <2>1, Joined
<1> HIDE DEF hd
<1>8. /\ w \in Seq(Units) /\ Len(w) = Len(hd) + Len(b.pointers)
      /\ \A i \in 1..Len(hd) : w[i] = hd[i]
      /\ \A i \in 1..Len(b.pointers) : w[Len(hd) + i] = b.pointers[i]
  <2>1. hd \in Seq(Units) /\ b.pointers \in Seq(Units)
    BY <1>4, <1>7
  <2> QED BY <1>6, <2>1, Joined
<1>9. w[1] = h[1] /\ w[2] = h[2] /\ w[3] = h[3] /\ w[4] = h[4]
  <2>1. \A i \in 1..4 : i \in 1..Len(h) /\ i \in 1..Len(hd)
    BY <1>2, <1>5, <1>7
  <2>2. \A i \in 1..4 : w[i] = h[i]
    BY <1>7, <1>8, <2>1
  <2> QED BY <2>2
<1>10. w \in Files
  BY <1>5, <1>8, <1>9 DEF Files, Signs
<1>11. ASSUME NEW i \in 1..Len(b.data) PROVE w[4 + i] = b.data[i]
  <2>1. hd[4 + i] = b.data[i]
    BY <1>5, <1>7
  <2>2. 4 + i \in 1..Len(hd)
    BY <1>2, <1>5, <1>7
  <2> QED BY <1>8, <2>1, <2>2
<1>12. Len(hd) = 4 + Len(b.data)
  BY <1>5, <1>7
<1> QED BY <1>1, <1>2, <1>5, <1>8, <1>9, <1>10, <1>11, <1>12 DEF BlockHeader

LEMMA RelocationFacts ==
  ASSUME NEW relocations \in Seq([source : Nat, target : Nat])
  PROVE  /\ Len(relocations) \in Nat /\ DOMAIN relocations = 1..Len(relocations)
         /\ \A k \in 1..Len(relocations) :
               /\ relocations[k] = [source |-> relocations[k].source, target |-> relocations[k].target]
               /\ relocations[k].source \in Nat /\ relocations[k].target \in Nat
<1> DEFINE S == [source : Nat, target : Nat]
<1>1. /\ Len(relocations) \in Nat /\ DOMAIN relocations = 1..Len(relocations)
      /\ \A k \in 1..Len(relocations) : relocations[k] \in S
  <2>1. relocations \in Seq(S)
    OBVIOUS
  <2> HIDE DEF S
  <2> QED BY <2>1, LenProperties, ElementOfSeq
<1> QED BY <1>1

\* A slot that has relocations holds the target of one of them, any other unit
\* of the payload is as it was.
LEMMA RelocateUnits ==
  ASSUME NEW payload \in Seq(Units), NEW relocations \in Seq([source : Nat, target : Nat]),
         NEW base \in Nat, NEW moved, moved = Relocate(payload, relocations, base)
  PROVE  /\ moved \in Seq(Units) /\ Len(moved) = Len(payload)
         /\ \A i \in 1..Len(payload) :
              \/ \E k \in DOMAIN relocations :
                    relocations[k].source = i - 1 /\ moved[i] = base + relocations[k].target
              \/ /\ \A k \in DOMAIN relocations : relocations[k].source # i - 1
                 /\ moved[i] = payload[i]
<1> DEFINE OfSlot(i) == {k \in DOMAIN relocations : relocations[k].source = i - 1}
           Unit(i) == IF OfSlot(i) = {} THEN payload[i] ELSE base + relocations[Max(OfSlot(i))].target
<1>1. moved = [i \in DOMAIN payload |-> Unit(i)]
  BY DEF Relocate
<1>2. /\ DOMAIN relocations = 1..Len(relocations) /\ Len(relocations) \in Nat
      /\ DOMAIN payload = 1..Len(payload) /\ Len(payload) \in Nat
      /\ \A i \in 1..Len(payload) : payload[i] \in Units
  BY RelocationFacts
<1>3. \A k \in DOMAIN relocations : relocations[k].target \in Nat
  BY <1>2, RelocationFacts
<1>4. ASSUME NEW i \in 1..Len(payload)
      PROVE  /\ Unit(i) \in Units
             /\ \/ \E k \in DOMAIN relocations :
                     relocations[k].source = i - 1 /\ Unit(i) = base + relocations[k].target
                \/ /\ \A k \in DOMAIN relocations : relocations[k].source # i - 1
                   /\ Unit(i) = payload[i]
  <2>1. CASE OfSlot(i) = {}
    BY <1>2, <2>1
  <2>2. CASE OfSlot(i) # {}
    <3>1. OfSlot(i) \in SUBSET (1..Len(relocations))
      BY <1>2
    <3>2. Max(OfSlot(i)) \in OfSlot(i)
      <4> HIDE DEF OfSlot
      <4> QED BY <1>2, <2>2, <3>1, MaxIndex
    <3> DEFINE k == Max(OfSlot(i))
    <3>3. k \in DOMAIN relocations /\ relocations[k].source = i - 1
      BY <3>2
    <3>4. Unit(i) = base + relocations[k].target
      BY <2>2
    <3> HIDE DEF k
    <3>5. base + relocations[k].target \in Units
      BY <1>3, <3>3 DEF Units
    <3> QED BY <3>3, <3>4, <3>5
  <2> QED BY <2>1, <2>2
<1> HIDE DEF Unit
<1>5. moved \in [1..Len(payload) -> Units]
  BY <1>1, <1>2, <1>4
<1>6. moved \in Seq(Units) /\ Len(moved) = Len(payload)
  BY <1>2, <1>5
<1>7. \A i \in 1..Len(payload) : moved[i] = Unit(i)
  BY <1>1, <1>2
<1> QED BY <1>4, <1>6, <1>7

\* The parts of the image of a graph.
LEMMA GraphParts ==
  ASSUME NEW g \in Graphs
  PROVE  /\ g = [root |-> g.root, heap |-> g.heap, relocations |-> g.relocations, hash |-> g.hash]
         /\ g.hash \in Int /\ g.relocations \in Seq([source : Nat, target : Nat])
         /\ Len(g.relocations) \in Nat
         /\ GraphPayload(g) \in Seq(Units)
         /\ Len(g.root) \in Nat /\ Len(Flat(g.heap)) \in Nat
         /\ Len(GraphPayload(g)) = Len(g.root) + Len(Flat(g.heap))
         /\ Relocated(g) \in Seq(Units) /\ Len(Relocated(g)) = Len(GraphPayload(g))
         /\ RelocationTable(g) \in Seq(Units)
         /\ Len(RelocationTable(g)) = 2 * Len(g.relocations)
         /\ \A i \in 1..Len(g.relocations) :
               /\ RelocationTable(g)[2 * i - 1] = g.relocations[i].source
               /\ RelocationTable(g)[2 * i] = g.relocations[i].target
<1> DEFINE U == Elements \union Nat
<1>1. /\ g = [root |-> g.root, heap |-> g.heap, relocations |-> g.relocations, hash |-> g.hash]
      /\ g.root \in Seq(U) /\ g.heap \in Seq(Seq(U))
      /\ g.relocations \in Seq([source : Nat, target : Nat]) /\ g.hash \in Int
  BY ImageAssumption
<1>2. Flat(g.heap) \in Seq(U)
  <2> HIDE DEF U
  <2> QED BY <1>1, FlatIsSeq
<1>3. U \subseteq Units
  BY DEF Units, Contents
<1>4. g.root \in Seq(Units) /\ Flat(g.heap) \in Seq(Units)
  <2> HIDE DEF U
  <2> QED BY <1>1, <1>2, <1>3, SeqMonotonic
<1>5. Len(g.root) \in Nat /\ Len(Flat(g.heap)) \in Nat
  BY <1>4
<1>6. GraphPayload(g) \in Seq(Units) /\ Len(GraphPayload(g)) = Len(g.root) + Len(Flat(g.heap))
  <2>1. GraphPayload(g) = g.root \o Flat(g.heap)
    BY DEF GraphPayload
  <2> QED BY <1>4, <2>1, Joined
<1>7. Relocated(g) \in Seq(Units) /\ Len(Relocated(g)) = Len(GraphPayload(g))
  <2>1. 0 \in Nat /\ Relocated(g) = Relocate(GraphPayload(g), g.relocations, 0)
    BY DEF Relocated
  <2>2. g.relocations \in Seq([source : Nat, target : Nat]) /\ GraphPayload(g) \in Seq(Units)
    BY <1>1, <1>6
  <2> HIDE DEF U
  <2> QED BY <2>1, <2>2, RelocateUnits
<1> DEFINE c == Len(g.relocations)
           Unit(k) == LET i == (k + 1) \div 2
                      IN  IF k = 2 * i THEN g.relocations[i].target ELSE g.relocations[i].source
<1>8. c \in Nat
  BY <1>1
<1>9. RelocationTable(g) = [k \in 1..(2 * c) |-> Unit(k)]
  BY DEF RelocationTable
<1>10. \A i \in 1..c : g.relocations[i].source \in Nat /\ g.relocations[i].target \in Nat
  <2>1. g.relocations \in Seq([source : Nat, target : Nat])
    BY <1>1
  <2> QED BY <2>1, RelocationFacts
<1> HIDE DEF c
<1>11. ASSUME NEW k \in 1..(2 * c) PROVE Unit(k) \in Units
  <2>1. (k + 1) \div 2 \in 1..c
    BY <1>8
  <2>2. Unit(k) \in Nat
    BY <1>10, <2>1
  <2> HIDE DEF Unit
  <2> QED BY <2>2 DEF Units
<1>12. ASSUME NEW i \in 1..c
       PROVE  /\ 2 * i - 1 \in 1..(2 * c) /\ Unit(2 * i - 1) = g.relocations[i].source
              /\ 2 * i \in 1..(2 * c) /\ Unit(2 * i) = g.relocations[i].target
  <2>1. 2 * i - 1 \in 1..(2 * c) /\ 2 * i \in 1..(2 * c)
    BY <1>8
  <2>2. ((2 * i - 1) + 1) \div 2 = i /\ (2 * i + 1) \div 2 = i /\ 2 * i - 1 # 2 * i
    BY <1>8
  <2> QED BY <2>1, <2>2
<1> HIDE DEF Unit
<1>13. RelocationTable(g) \in Seq(Units) /\ Len(RelocationTable(g)) = 2 * c
  <2>1. RelocationTable(g) \in [1..(2 * c) -> Units]
    BY <1>9, <1>11
  <2> QED BY <1>8, <2>1
<1>14. \A i \in 1..c : /\ RelocationTable(g)[2 * i - 1] = g.relocations[i].source
                       /\ RelocationTable(g)[2 * i] = g.relocations[i].target
  BY <1>9, <1>12
<1> QED BY <1>1, <1>5, <1>6, <1>7, <1>8, <1>13, <1>14 DEF c

LEMMA GraphHeaders ==
  ASSUME NEW g \in Graphs
  PROVE  /\ FirstHeader(g) \in Files /\ Len(FirstHeader(g)) = GraphHeader
         /\ FirstHeader(g)[8] = 0 /\ FirstHeader(g)[9] = 0
         /\ PatchedHeader(g) \in Files /\ Len(PatchedHeader(g)) = GraphHeader
         /\ PatchedHeader(g) = <<"HMB3", 3, Len(g.root), Len(Flat(g.heap)), Len(g.relocations),
                                 Len(GraphPayload(g)), g.hash, GraphHeader + Len(GraphPayload(g)),
                                 2 * Len(g.relocations)>>
         /\ \A p \in {1, 2, 3, 4, 6, 7} : FirstHeader(g)[p] = PatchedHeader(g)[p]
<1> DEFINE a == Len(g.root)  b == Len(Flat(g.heap))  c == Len(g.relocations)
           d == Len(GraphPayload(g))  f == FirstHeader(g)  h == PatchedHeader(g)
<1>1. a \in Int /\ b \in Int /\ c \in Int /\ d \in Int /\ g.hash \in Int
  <2>1. Len(g.root) \in Nat /\ Len(Flat(g.heap)) \in Nat
        /\ Len(GraphPayload(g)) = Len(g.root) + Len(Flat(g.heap))
    BY GraphParts
  <2>2. Len(g.relocations) \in Nat /\ g.hash \in Int
    BY GraphParts
  <2> QED BY <2>1, <2>2
<1>2. f = <<"HMB3", 3, a, b, 0, d, g.hash, 0, 0>>
  BY DEF FirstHeader, Header
<1>3. h = <<"HMB3", 3, a, b, c, d, g.hash, GraphHeader + d, 2 * c>>
  BY DEF PatchedHeader, Header
<1> HIDE DEF a, b, c, d, f, h
<1>4. f[3] = a /\ f[4] = b /\ f[5] = 0 /\ f[6] = d /\ f[7] = g.hash /\ f[8] = 0 /\ f[9] = 0
  BY <1>2
<1>5. h[3] = a /\ h[4] = b /\ h[5] = c /\ h[6] = d /\ h[7] = g.hash /\ h[8] = GraphHeader + d /\ h[9] = 2 * c
  BY <1>3
<1>6. f = <<"HMB3", 3, f[3], f[4], f[5], f[6], f[7], f[8], f[9]>> /\ \A i \in 3..9 : f[i] \in Int
  BY <1>1, <1>2, <1>4
<1>7. h = <<"HMB3", 3, h[3], h[4], h[5], h[6], h[7], h[8], h[9]>> /\ \A i \in 3..9 : h[i] \in Int
  BY <1>1, <1>3, <1>5 DEF GraphHeader
<1>8. f \in Files /\ Len(f) = GraphHeader /\ f[1] = "HMB3" /\ f[2] = 3
  BY <1>6, HeaderUnits
<1>9. h \in Files /\ Len(h) = GraphHeader /\ h[1] = "HMB3" /\ h[2] = 3
  BY <1>7, HeaderUnits
<1> QED BY <1>3, <1>4, <1>5, <1>8, <1>9 DEF a, b, c, d, f, h

\* The image that SerializeGraph writes first.
LEMMA ImageUnits ==
  ASSUME NEW g \in Graphs, NEW w, w = Image(g)
  PROVE  /\ w \in Files
         /\ Len(w) = GraphHeader + Len(GraphPayload(g)) + 2 * Len(g.relocations)
         /\ \A p \in 1..GraphHeader : w[p] = FirstHeader(g)[p]
         /\ \A p \in 1..Len(GraphPayload(g)) : w[GraphHeader + p] = Relocated(g)[p]
         /\ \A p \in 1..(2 * Len(g.relocations)) :
               w[(GraphHeader + Len(GraphPayload(g))) + p] = RelocationTable(g)[p]
<1> DEFINE f == FirstHeader(g)  r == Relocated(g)  t == RelocationTable(g)  fr == f \o r
<1>1. w = fr \o t
  BY DEF Image
<1>2. f \in Seq(Units) /\ r \in Seq(Units) /\ t \in Seq(Units)
  BY GraphHeaders, GraphParts DEF Files
<1>3. Len(f) = GraphHeader /\ Len(r) = Len(GraphPayload(g)) /\ Len(t) = 2 * Len(g.relocations)
  BY GraphHeaders, GraphParts
<1>4. f # << >> /\ f[1] \in Signs
  <2>1. f # << >>
    <3>1. Len(f) = 9
      BY <1>3 DEF GraphHeader
    <3> HIDE DEF f
    <3> QED BY <3>1, EmptySeq
  <2> QED BY <2>1, GraphHeaders DEF Files
<1> HIDE DEF f, r, t
<1>5. /\ fr \in Seq(Units) /\ Len(fr) = Len(f) + Len(r)
      /\ \A i \in 1..Len(f) : fr[i] = f[i]
      /\ \A i \in 1..Len(r) : fr[Len(f) + i] = r[i]
  <2>1. fr = f \o r
    OBVIOUS
  <2> HIDE DEF fr
  <2> QED BY <1>2, <2>1, Joined
<1> HIDE DEF fr
<1>6. /\ w \in Seq(Units) /\ Len(w) = Len(fr) + Len(t)
      /\ \A i \in 1..Len(fr) : w[i] = fr[i]
      /\ \A i \in 1..Len(t) : w[Len(fr) + i] = t[i]
  <2>1. fr \in Seq(Units)
    BY <1>5
  <2> QED BY <1>1, <1>2, <2>1, Joined
<1>7. Len(f) \in Nat /\ Len(r) \in Nat /\ Len(f) = 9 /\ Len(fr) = 9 + Len(r)
  BY <1>2, <1>3, <1>5 DEF GraphHeader
<1>8. ASSUME NEW p \in 1..GraphHeader PROVE w[p] = f[p]
  <2>1. p \in 1..Len(fr) /\ p \in 1..Len(f)
    BY <1>7 DEF GraphHeader
  <2> QED BY <1>5, <1>6, <2>1
<1>9. ASSUME NEW p \in 1..Len(r) PROVE w[GraphHeader + p] = r[p]
  <2>1. GraphHeader + p = Len(f) + p /\ GraphHeader + p \in 1..Len(fr)
    BY <1>7 DEF GraphHeader
  <2> QED BY <1>5, <1>6, <2>1
<1>10. Len(fr) = GraphHeader + Len(GraphPayload(g))
  BY <1>3, <1>7 DEF GraphHeader
<1>11. w \in Files
  <2>1. w[1] = f[1]
    BY <1>8 DEF GraphHeader
  <2> QED BY <1>4, <1>6, <2>1 DEF Files
<1> QED BY <1>3, <1>6, <1>8, <1>9, <1>10, <1>11 DEF f, r, t

LEMMA ImageLength ==
  ASSUME NEW g \in Graphs
  PROVE  /\ Len(GraphPayload(g)) \in Nat /\ Len(g.relocations) \in Nat
         /\ Len(Image(g)) \in Nat /\ Len(Image(g)) >= GraphHeader
<1> DEFINE a == Len(g.root)  b == Len(Flat(g.heap))  c == Len(g.relocations)
           d == Len(GraphPayload(g))  w == Image(g)  k == Len(w)
<1>1. a \in Nat /\ b \in Nat /\ c \in Nat /\ d = a + b
  BY GraphParts, Zenon
<1>2. k = GraphHeader + d + 2 * c
  BY ImageUnits, Zenon
<1> HIDE DEF a, b, c, d, k
<1>3. d \in Nat /\ c \in Nat /\ k \in Nat /\ k >= GraphHeader
  BY <1>1, <1>2 DEF GraphHeader
<1> QED BY <1>3 DEF c, d, k

-----------------------------------------------------------------------------
(* The next write of a save                                                *)

LEMMA WriterCases ==
  ASSUME TypeInv
  PROVE  writer \in {"block", "graph", "mapped"}
BY ImageAssumption DEF TypeInv

LEMMA NextOfBlock ==
  ASSUME TypeInv, StepsInv, SavingInv, steps # << >>, writer = "block"
  PROVE  /\ Done = 0 /\ Len(StepsOfSave) = 1
         /\ How = "create" /\ What = SerializeBlock(saving)
         /\ saving \in Blocks /\ BlockFits(saving)
<1>1. StepsOfSave = << <<"create", "block">> >> /\ Len(StepsOfSave) = 1
  BY OtherSteps
<1>2. Done + 1 \in 1..1 /\ Done \in 0..1 /\ Head(steps) = StepsOfSave[Done + 1]
  BY <1>1, StepsLeft
<1>3. Done = 0
  BY <1>2
<1>4. Head(steps) = <<"create", "block">>
  BY <1>1, <1>2, <1>3
<1>5. How = "create" /\ What = SerializeBlock(saving)
  BY <1>4 DEF How, What, Content
<1> QED BY <1>1, <1>3, <1>5 DEF SavingInv

LEMMA NextOfGraph ==
  ASSUME TypeInv, StepsInv, SavingInv, steps # << >>, writer = "graph"
  PROVE  /\ Len(StepsOfSave) = 2
         /\ \/ Done = 0 /\ How = "create" /\ What = Image(saving)
            \/ Done = 1 /\ How = "update" /\ What = PatchedHeader(saving)
         /\ saving \in Graphs /\ GraphFits(saving)
<1>1. StepsOfSave = << <<"create", "graph">>, <<"update", "patch">> >> /\ Len(StepsOfSave) = 2
  BY OtherSteps
<1>2. Done + 1 \in 1..2 /\ Done \in 0..2 /\ Head(steps) = StepsOfSave[Done + 1]
  BY <1>1, StepsLeft
<1>3. Done = 0 \/ Done = 1
  BY <1>2
<1>4. CASE Done = 0
  <2>1. Head(steps) = <<"create", "graph">>
    BY <1>1, <1>2, <1>4
  <2>2. How = "create" /\ What = Image(saving)
    BY <2>1 DEF How, What, Content, Image
  <2> QED BY <1>1, <1>4, <2>2 DEF SavingInv
<1>5. CASE Done = 1
  <2>1. Head(steps) = <<"update", "patch">>
    BY <1>1, <1>2, <1>5
  <2>2. How = "update" /\ What = PatchedHeader(saving)
    BY <2>1 DEF How, What, Content
  <2> QED BY <1>1, <1>5, <2>2 DEF SavingInv
<1> QED BY <1>3, <1>4, <1>5

LEMMA NextOfMapped ==
  ASSUME TypeInv, StepsInv, SavingInv, steps # << >>, writer = "mapped"
  PROVE  /\ Len(StepsOfSave) = Len(Fields) + 2
         /\ \/ /\ Done = 0 /\ How = "create" /\ What = FirstImage(schema, globals)
            \/ /\ Done \in 1..Len(Fields) /\ How = "append" /\ What = globals[Fields[Done]]
            \/ /\ Done = Len(Fields) + 1 /\ How = "update" /\ What = FinalHeader(schema, Len(file))
         /\ saving = [value |-> globals, hash |-> schema]
<1>1. Len(StepsOfSave) = Len(Fields) + 2
  BY MappedSteps
<1>2. Done + 1 \in 1..(Len(Fields) + 2) /\ Done \in 0..(Len(Fields) + 2) /\ Head(steps) = StepsOfSave[Done + 1]
  BY <1>1, StepsLeft
<1>3. Done = 0 \/ Done \in 1..Len(Fields) \/ Done = Len(Fields) + 1
  BY <1>2, FieldFacts
<1>4. CASE Done = 0
  <2>1. Head(steps) = <<"create", "root">>
    BY <1>2, <1>4, MappedSteps
  <2>2. How = "create" /\ What = FirstImage(schema, globals)
    BY <2>1 DEF How, What, Content, FirstImage
  <2> QED BY <1>1, <1>4, <2>2 DEF SavingInv
<1>5. CASE Done \in 1..Len(Fields)
  <2>1. Head(steps) = <<"append", Fields[Done]>>
    BY <1>2, <1>5, MappedSteps
  <2>2. How = "append" /\ What = globals[Fields[Done]]
    BY <2>1 DEF How, What
  <2> QED BY <1>1, <1>5, <2>2 DEF SavingInv
<1>6. CASE Done = Len(Fields) + 1
  <2>1. Head(steps) = <<"update", "final">>
    <3>1. Done + 1 = Len(Fields) + 2
      BY <1>6, FieldFacts
    <3> QED BY <1>2, <3>1, MappedSteps
  <2>2. How = "update" /\ What = FinalHeader(schema, Len(file))
    BY <2>1 DEF How, What, Content
  <2> QED BY <1>1, <1>6, <2>2 DEF SavingInv
<1> QED BY <1>3, <1>4, <1>5, <1>6

LEMMA NextUnits ==
  ASSUME TypeInv, StepsInv, SavingInv, steps # << >>, Opens
  PROVE  What \in Files /\ Len(What) \in Nat /\ How \in {"create", "append", "update"}
<1>1. What \in Files => Len(What) \in Nat
  BY DEF Files
<1>2. CASE writer = "block"
  BY <1>1, <1>2, NextOfBlock, BlockUnits
<1>3. CASE writer = "graph"
  BY <1>1, <1>3, NextOfGraph, ImageUnits, GraphHeaders
<1>4. CASE writer = "mapped"
  <2>1. Assigned(globals) /\ schema \in Int
    BY ImageAssumption DEF TypeInv
  <2>2. CASE Done = 0 /\ How = "create" /\ What = FirstImage(schema, globals)
    BY <1>1, <2>1, <2>2, FirstUnits
  <2>3. CASE Done \in 1..Len(Fields) /\ How = "append" /\ What = globals[Fields[Done]]
    BY <1>1, <2>1, <2>3, AssignedLengths, FieldFacts
  <2>4. CASE Done = Len(Fields) + 1 /\ How = "update" /\ What = FinalHeader(schema, Len(file))
    <3>1. file \in Files
      BY <2>4 DEF Opens, TypeInv
    <3>2. Len(file) \in Nat
      BY <3>1 DEF Files
    <3> QED BY <1>1, <2>1, <2>4, <3>2, LastUnits
  <2> QED BY <1>4, <2>2, <2>3, <2>4, NextOfMapped
<1> QED BY <1>2, <1>3, <1>4, WriterCases

\* The file after some units of the next write have reached it.
LEMMA Reached ==
  ASSUME TypeInv, StepsInv, SavingInv, steps # << >>, Opens,
         NEW n \in 0..Len(What), NEW outcome, Reach(n, outcome)
  PROVE  /\ file' \in Files /\ file' # Absent
         /\ file = Absent \/ How = "create" =>
               Len(file') = n /\ \A p \in 1..n : file'[p] = What[p]
         /\ file # Absent /\ How = "append" =>
               /\ Len(file') = Len(file) + n
               /\ \A p \in 1..Len(file) : file'[p] = file[p]
               /\ \A p \in 1..n : file'[Len(file) + p] = What[p]
         /\ file # Absent /\ How = "update" =>
               /\ Len(file') = IF n > Len(file) THEN n ELSE Len(file)
               /\ \A p \in 1..n : file'[p] = What[p]
               /\ \A p \in (n + 1)..Len(file) : file'[p] = file[p]
         /\ How = "create" => saved' = saving /\ status' = outcome
         /\ How # "create" =>
               /\ saved' = saved
               /\ status' = IF file = Absent THEN "short" ELSE IF status = "writing" THEN outcome ELSE status
<1>1. file' = Written(How, SubSeq(What, 1, n))
  BY DEF Reach
<1>2. file = Absent \/ file \in Files
  BY DEF TypeInv
<1>3. What \in Files /\ How \in {"create", "append", "update"} /\ (How = "update" => file # Absent)
  BY NextUnits DEF Opens
<1>4. How = "create" => saved' = saving /\ status' = outcome
  BY DEF Reach
<1>5. How # "create" =>
        /\ saved' = saved
        /\ status' = IF file = Absent THEN "short" ELSE IF status = "writing" THEN outcome ELSE status
  BY DEF Reach, TypeInv
<1> HIDE DEF How, What
<1>6. AsWritten(file', How, What, n)
  BY <1>1, <1>2, <1>3, WrittenUnits, Zenon
<1>7. file' # Absent
  BY <1>6, AbsentIsNoFile DEF AsWritten
<1> QED BY <1>4, <1>5, <1>6, <1>7 DEF AsWritten

-----------------------------------------------------------------------------
(* A write that reaches the file                                           *)

LEMMA ReachBlock ==
  ASSUME TypeInv, StepsInv, SavingInv, steps # << >>, Opens, writer' = writer, writer = "block",
         NEW n \in 0..Len(What), NEW outcome, Reach(n, outcome), outcome = "whole" => n = Len(What)
  PROVE  BlockInv'
<1>1. How = "create" /\ What = SerializeBlock(saving) /\ saving \in Blocks /\ BlockFits(saving)
  BY NextOfBlock
<1>2. saved' = saving /\ status' = outcome /\ file' = SubSeq(What, 1, n)
  BY <1>1 DEF Reach, Written
<1>3. /\ saved' \in Blocks /\ BlockFits(saved') /\ n \in 0..Len(SerializeBlock(saved'))
      /\ file' = SubSeq(SerializeBlock(saved'), 1, n)
      /\ status' = "whole" => n = Len(SerializeBlock(saved'))
  BY <1>1, <1>2
<1> QED BY <1>3 DEF BlockInv

LEMMA ReachGraph ==
  ASSUME TypeInv, StepsInv, SavingInv, WritingInv, GraphInv,
         steps # << >>, Opens, writer' = writer, writer = "graph",
         NEW n \in 0..Len(What), NEW outcome, Reach(n, outcome),
         outcome = "whole" => n = Len(What) /\ Done = 1,
         outcome = "writing" => n = Len(What)
  PROVE  GraphInv'
<1> SUFFICES /\ saved' \in Graphs /\ GraphFits(saved')
             /\ \E n1 \in 0..Len(Image(saved')), m1 \in 0..GraphHeader :
                   /\ file' = Patched(saved', n1, m1)
                   /\ m1 > 0 \/ status' = "writing" => n1 = Len(Image(saved'))
                   /\ status' = "whole" => n1 = Len(Image(saved')) /\ m1 = GraphHeader
  BY DEF GraphInv, Patched, Image, FirstHeader, PatchedHeader, Relocated, RelocationTable, GraphFits
<1>1. saving \in Graphs /\ GraphFits(saving)
  BY NextOfGraph
<1>2. file' \in Seq(Units)
  BY Reached DEF Files
<1>3. \A g \in Graphs : Len(Image(g)) \in Nat /\ Len(Image(g)) >= GraphHeader
  BY ImageLength
<1>4. CASE Done = 0 /\ How = "create" /\ What = Image(saving)
  <2>1. saved' = saving /\ status' = outcome /\ Len(file') = n /\ \A p \in 1..n : file'[p] = What[p]
    BY <1>4, Reached
  <2>2. file' = Patched(saved', n, 0)
    <3>1. file' = [p \in 1..n |-> file'[p]]
      BY <1>2, <2>1
    <3>2. \A p \in 1..n : ~ p <= 0
      OBVIOUS
    <3> QED BY <1>4, <2>1, <3>1, <3>2 DEF Patched
  <2>3. n \in 0..Len(Image(saved')) /\ 0 \in 0..GraphHeader
    BY <1>4, <2>1 DEF GraphHeader
  <2>4. status' # "whole"
    BY <1>4, <2>1
  <2>5. status' = "writing" => n = Len(Image(saved'))
    BY <1>4, <2>1
  <2> QED BY <1>1, <2>1, <2>2, <2>3, <2>4, <2>5
<1>5. CASE Done = 1 /\ How = "update" /\ What = PatchedHeader(saving)
  <2>1. status = "writing" /\ saved = saving /\ file # Absent
    BY <1>5 DEF GraphInv, WritingInv, Opens
  <2>2. PICK n0 \in 0..Len(Image(saved)), m0 \in 0..GraphHeader :
            file = Patched(saved, n0, m0) /\ n0 = Len(Image(saved))
    BY <2>1 DEF GraphInv
  <2>3. Len(What) = GraphHeader /\ n <= GraphHeader /\ n \in Nat
    <3>1. Len(What) = GraphHeader
      BY <1>1, <1>5, GraphHeaders
    <3> HIDE DEF What
    <3> QED BY <3>1 DEF GraphHeader
  <2>4. n0 \in Nat /\ n0 >= GraphHeader /\ m0 \in Nat /\ m0 <= GraphHeader
    BY <1>1, <1>3, <2>1, <2>2 DEF GraphHeader
  <2>5. Len(file) = n0 /\ \A p \in 1..n0 : file[p] = IF p <= m0 THEN PatchedHeader(saved)[p] ELSE Image(saved)[p]
    BY <2>2, <2>4 DEF Patched
  <2>6. /\ saved' = saved /\ status' = outcome
        /\ Len(file') = IF n > Len(file) THEN n ELSE Len(file)
        /\ \A p \in 1..n : file'[p] = What[p]
        /\ \A p \in (n + 1)..Len(file) : file'[p] = file[p]
    BY <1>5, <2>1, Reached
  <2>7. Len(file') = n0
    BY <2>3, <2>4, <2>5, <2>6 DEF GraphHeader
  <2> DEFINE m1 == IF n > m0 THEN n ELSE m0
  <2>8. m1 \in 0..GraphHeader
    BY <2>3, <2>4 DEF GraphHeader
  <2>9. ASSUME NEW p \in 1..n0
        PROVE  file'[p] = IF p <= m1 THEN PatchedHeader(saved)[p] ELSE Image(saved)[p]
    <3>1. CASE p <= n
      <4>1. p \in 1..n /\ p <= m1
        BY <2>3, <2>4, <3>1
      <4> QED BY <1>5, <2>1, <2>6, <4>1
    <3>2. CASE ~ p <= n
      <4>1. p \in (n + 1)..Len(file) /\ (p <= m1 <=> p <= m0)
        BY <2>3, <2>4, <2>5, <3>2
      <4> QED BY <2>5, <2>6, <4>1
    <3> QED BY <3>1, <3>2
  <2>10. file' = [p \in 1..n0 |-> file'[p]]
    BY <1>2, <2>7
  <2>11. status' = "whole" => m1 = GraphHeader
    BY <2>3, <2>4, <2>6 DEF GraphHeader
  <2> HIDE DEF m1
  <2>12. file' = Patched(saved, n0, m1)
    BY <2>9, <2>10 DEF Patched
  <2> QED BY <1>1, <2>1, <2>2, <2>6, <2>8, <2>11, <2>12
<1> QED BY <1>4, <1>5, NextOfGraph

LEMMA ReachMapped ==
  ASSUME TypeInv, StepsInv, SavingInv, WritingInv, MappedInv,
         steps # << >>, Opens, writer' = writer, writer = "mapped",
         NEW n \in 0..Len(What), NEW outcome, Reach(n, outcome),
         outcome = "whole" => n = Len(What) /\ Done = Len(Fields) + 1,
         outcome = "writing" => n = Len(What) /\ Done' = Done + 1 /\ Done <= Len(Fields)
  PROVE  MappedInv'
<1> SUFFICES ASSUME status' \in {"writing", "whole", "torn"}
             PROVE  /\ saved' = [value |-> saved'.value, hash |-> saved'.hash]
                    /\ Assigned(saved'.value) /\ saved'.hash \in Schemas
                    /\ HeaderOf(file', saved'.hash)
                    /\ RootOf(file', saved'.value)
                    /\ PayloadsOf(file', saved'.value)
                    /\ status' = "whole" => Len(file') = SizeWith(saved'.value, Len(Fields))
                    /\ status' = "writing" => Len(file') = SizeWith(saved'.value, Done' - 1)
  BY DEF MappedInv, HeaderOf, RootOf, PayloadsOf, SizeWith, Assigned, Root, Offset
<1>1. Assigned(globals) /\ schema \in Int /\ schema \in Schemas
  BY ImageAssumption DEF TypeInv
<1>2. RootSize \in Nat /\ Len(Fields) \in Nat /\ RootSize = 1 + 2 * Len(Fields) /\ DOMAIN Fields = 1..Len(Fields)
  BY FieldFacts
<1>3. file # Absent => Len(file) \in Nat
  BY DEF TypeInv, Files
<1>4. What \in Files /\ Len(What) \in Nat /\ n \in Nat /\ n <= Len(What)
  BY NextUnits
<1> DEFINE L(v, i) == Len(v[Fields[i]])
<1>5. ASSUME NEW v, Assigned(v)
      PROVE  /\ Offset(v, 1) = RootSize
             /\ \A i \in 1..Len(Fields) : Offset(v, i + 1) = Offset(v, i) + L(v, i) /\ L(v, i) \in Nat
             /\ \A i \in 1..(Len(Fields) + 1) : Offset(v, i) \in Nat /\ Offset(v, i) >= RootSize
             /\ \A i, j \in 1..(Len(Fields) + 1) : i <= j => Offset(v, i) <= Offset(v, j)
  <2>1. \A x \in FieldNames : Len(v[x]) \in Nat
    BY <1>5, AssignedLengths
  <2> QED BY <2>1, OffsetsAddUp, OffsetsGrow, FieldFacts
<1>6. CASE Done = 0 /\ How = "create" /\ What = FirstImage(schema, globals)
  <2> DEFINE v == globals
  <2>1. saved' = [value |-> v, hash |-> schema] /\ status' = outcome
    BY <1>6, Reached, NextOfMapped
  <2>2. Len(file') = n /\ \A p \in 1..n : file'[p] = What[p]
    BY <1>6, Reached
  <2>3. /\ Len(What) = GraphHeader + RootSize
        /\ What[1] = "HMB3" /\ What[2] = 3 /\ What[3] = RootSize /\ What[7] = schema
        /\ \A p \in 1..RootSize : What[GraphHeader + p] = Root(v)[p]
    BY <1>1, <1>6, FirstUnits
  <2> HIDE DEF What, v
  <2>4. HeaderOf(file', schema)
    BY <2>2, <2>3 DEF HeaderOf
  <2>5. RootOf(file', v)
    <3>1. \A p \in 1..RootSize : GraphHeader + p <= Len(file') => GraphHeader + p \in 1..n
      BY <1>2, <1>4, <2>2 DEF GraphHeader
    <3> QED BY <2>2, <2>3, <3>1 DEF RootOf
  <2>6. PayloadsOf(file', v)
    <3> SUFFICES ASSUME NEW i \in DOMAIN Fields, NEW q \in 1..L(v, i)
                 PROVE  ~ GraphHeader + Offset(v, i) + q <= Len(file')
      BY DEF PayloadsOf
    <3>1. Offset(v, i) \in Nat /\ Offset(v, i) >= RootSize
      BY <1>1, <1>2, RootUnits DEF v
    <3> HIDE DEF L
    <3> QED BY <1>2, <1>4, <2>2, <2>3, <3>1 DEF GraphHeader
  <2>7. status' # "whole"
    BY <1>2, <1>6, <2>1
  <2>8. status' = "writing" => Len(file') = SizeWith(v, Done' - 1)
    <3> HAVE status' = "writing"
    <3>1. n = GraphHeader + RootSize /\ Done' = 1 /\ (Done' - 1) + 1 = 1
      BY <1>6, <2>1, <2>3
    <3>2. Offset(v, 1) = RootSize
      BY <1>1, <1>5 DEF v
    <3> QED BY <2>2, <3>1, <3>2 DEF SizeWith
  <2>9. saved'.value = v /\ saved'.hash = schema /\ Assigned(v)
    BY <1>1, <2>1 DEF v
  <2> QED BY <1>1, <2>1, <2>4, <2>5, <2>6, <2>7, <2>8, <2>9
<1>7. ASSUME Done \in 1..(Len(Fields) + 1), How \in {"append", "update"}
      PROVE  /\ status = "writing" /\ file # Absent /\ status' = outcome /\ saved' = saved
             /\ saved = [value |-> globals, hash |-> schema]
             /\ HeaderOf(file, schema) /\ RootOf(file, globals) /\ PayloadsOf(file, globals)
             /\ Len(file) = GraphHeader + Offset(globals, Done)
  <2>1. status \in {"none", "writing", "short"}
    BY <1>2, <1>7 DEF WritingInv
  <2>2. /\ saved' = saved
        /\ status' = IF file = Absent THEN "short" ELSE IF status = "writing" THEN outcome ELSE status
    BY <1>7, Reached
  <2>3. file # Absent /\ status = "writing"
    BY <2>1, <2>2 DEF TypeInv
  <2>4. saved = [value |-> globals, hash |-> schema]
    BY <2>3, NextOfMapped DEF WritingInv
  <2>5. saved.value = globals /\ saved.hash = schema
    BY <2>4
  <2>6. /\ HeaderOf(file, schema) /\ RootOf(file, globals) /\ PayloadsOf(file, globals)
        /\ Len(file) = SizeWith(globals, Done - 1)
    BY <2>3, <2>5 DEF MappedInv
  <2>7. (Done - 1) + 1 = Done
    BY <1>2, <1>7
  <2> QED BY <2>2, <2>3, <2>4, <2>6, <2>7 DEF SizeWith
<1>8. CASE Done \in 1..Len(Fields) /\ How = "append" /\ What = globals[Fields[Done]]
  <2> DEFINE v == globals
  <2>1. Done \in 1..(Len(Fields) + 1) /\ Done + 1 \in 1..(Len(Fields) + 1) /\ Done \in Nat
    BY <1>2, <1>8
  <2>2. /\ status = "writing" /\ file # Absent /\ status' = outcome /\ saved' = [value |-> v, hash |-> schema]
        /\ HeaderOf(file, schema) /\ RootOf(file, v) /\ PayloadsOf(file, v)
        /\ Len(file) = GraphHeader + Offset(v, Done)
    BY <1>7, <1>8, <2>1
  <2>3. /\ Len(file') = Len(file) + n
        /\ \A p \in 1..Len(file) : file'[p] = file[p]
        /\ \A p \in 1..n : file'[Len(file) + p] = What[p]
    BY <1>8, <2>2, Reached
  <2>4. What = v[Fields[Done]] /\ Len(What) = L(v, Done)
    BY <1>8
  <2>5. /\ \A i \in 1..Len(Fields) : Offset(v, i + 1) = Offset(v, i) + L(v, i) /\ L(v, i) \in Nat
        /\ \A i \in 1..(Len(Fields) + 1) : Offset(v, i) \in Nat /\ Offset(v, i) >= RootSize
        /\ \A i, j \in 1..(Len(Fields) + 1) : i <= j => Offset(v, i) <= Offset(v, j)
    BY <1>1, <1>5
  <2> HIDE DEF What, v
  <2>6. Len(file) \in Nat /\ Len(file) >= GraphHeader + RootSize
    BY <1>2, <2>1, <2>2, <2>5 DEF GraphHeader
  <2>7. Offset(v, Done + 1) = Offset(v, Done) + Len(What)
    BY <1>8, <2>4, <2>5
  <2>8. HeaderOf(file', schema)
    <3>1. \A p \in {1, 2, 3, 7} : p \in 1..Len(file) /\ file'[p] = file[p]
      BY <1>2, <2>3, <2>6 DEF GraphHeader
    <3>2. file'[1] = "HMB3" /\ file'[2] = 3 /\ file'[3] = RootSize /\ file'[7] = schema
      BY <2>2, <3>1 DEF HeaderOf
    <3> QED BY <3>2 DEF HeaderOf
  <2>9. RootOf(file', v)
    <3>1. \A p \in 1..RootSize : GraphHeader + p \in 1..Len(file) /\ GraphHeader + p <= Len(file)
      BY <1>2, <2>6 DEF GraphHeader
    <3> QED BY <2>2, <2>3, <3>1 DEF RootOf
  <2>10. PayloadsOf(file', v)
    <3> SUFFICES ASSUME NEW i \in DOMAIN Fields, NEW q \in 1..L(v, i),
                        GraphHeader + Offset(v, i) + q <= Len(file')
                 PROVE  file'[GraphHeader + Offset(v, i) + q] = v[Fields[i]][q]
      BY DEF PayloadsOf
    <3>1. /\ i \in 1..Len(Fields) /\ i \in 1..(Len(Fields) + 1) /\ i + 1 \in 1..(Len(Fields) + 1) /\ i \in Nat
          /\ L(v, i) \in Nat /\ Offset(v, i) \in Nat /\ Offset(v, i + 1) = Offset(v, i) + L(v, i)
      BY <1>2, <2>5, SMTT(40)
    <3>2. /\ Offset(v, Done) \in Nat /\ Offset(v, Done + 1) \in Nat
          /\ (i + 1 <= Done => Offset(v, i + 1) <= Offset(v, Done))
          /\ (Done + 1 <= i => Offset(v, Done + 1) <= Offset(v, i))
      BY <2>1, <2>5, <3>1
    <3>3. CASE i < Done
      <4>1. Offset(v, i) + L(v, i) <= Offset(v, Done)
        BY <2>1, <3>1, <3>2, <3>3, SMTT(40)
      <4>2. GraphHeader + Offset(v, i) + q \in 1..Len(file)
        <5>1. q \in Nat /\ q >= 1 /\ q <= L(v, i)
          BY <3>1
        <5> DEFINE a == Offset(v, i)  d == Offset(v, Done)  l == L(v, i)
        <5>2. a \in Nat /\ d \in Nat /\ l \in Nat /\ a + l <= d /\ q <= l /\ Len(file) = GraphHeader + d
          BY <2>2, <3>1, <3>2, <4>1, <5>1
        <5> HIDE DEF a, d, l
        <5>3. GraphHeader + a + q \in 1..Len(file)
          BY <5>1, <5>2 DEF GraphHeader
        <5> QED BY <5>3 DEF a
      <4>3. GraphHeader + Offset(v, i) + q <= Len(file)
        BY <2>6, <4>2
      <4> QED BY <2>2, <2>3, <4>2, <4>3 DEF PayloadsOf
    <3>4. CASE i = Done
      <4>1. GraphHeader + Offset(v, i) + q = Len(file) + q
        BY <2>2, <3>4
      <4>2. q \in 1..n
        <5> HIDE DEF L
        <5> QED BY <1>4, <2>3, <2>6, <3>1, <4>1
      <4> QED BY <2>3, <2>4, <3>4, <4>1, <4>2
    <3>5. CASE i > Done
      <4>1. Offset(v, Done) + Len(What) <= Offset(v, i)
        BY <2>1, <2>7, <3>1, <3>2, <3>5
      <4>2. FALSE
        <5>1. q \in Nat /\ q >= 1
          BY <3>1
        <5> DEFINE a == Offset(v, i)  d == Offset(v, Done)  k == Len(What)
        <5>2. /\ a \in Nat /\ d \in Nat /\ k \in Nat /\ d + k <= a /\ n <= k /\ n \in Nat
              /\ Len(file') = (GraphHeader + d) + n /\ GraphHeader + a + q <= Len(file')
          BY <1>4, <2>2, <2>3, <3>1, <3>2, <4>1
        <5> HIDE DEF a, d, k
        <5> QED BY <5>1, <5>2 DEF GraphHeader
      <4> QED BY <4>2
    <3> QED BY <2>1, <3>1, <3>3, <3>4, <3>5
  <2>11. status' # "whole"
    BY <1>2, <1>8, <2>2
  <2>12. status' = "writing" => Len(file') = SizeWith(v, Done' - 1)
    <3> HAVE status' = "writing"
    <3>1. n = Len(What) /\ Done' = Done + 1
      BY <2>2
    <3>2. (Done' - 1) + 1 = Done + 1
      BY <2>1, <3>1
    <3>3. Offset(v, Done) \in Nat
      BY <2>1, <2>5
    <3> QED BY <1>4, <2>2, <2>3, <2>7, <3>1, <3>2, <3>3 DEF SizeWith, GraphHeader
  <2>13. saved'.value = v /\ saved'.hash = schema /\ Assigned(v)
    BY <1>1, <2>2 DEF v
  <2> QED BY <1>1, <2>2, <2>8, <2>9, <2>10, <2>11, <2>12, <2>13
<1>9. CASE Done = Len(Fields) + 1 /\ How = "update" /\ What = FinalHeader(schema, Len(file))
  <2> DEFINE v == globals
  <2>1. Done \in 1..(Len(Fields) + 1)
    BY <1>2, <1>9
  <2>2. /\ status = "writing" /\ file # Absent /\ status' = outcome /\ saved' = [value |-> v, hash |-> schema]
        /\ HeaderOf(file, schema) /\ RootOf(file, v) /\ PayloadsOf(file, v)
        /\ Len(file) = GraphHeader + Offset(v, Done)
    BY <1>7, <1>9, <2>1
  <2>3. /\ Len(file') = IF n > Len(file) THEN n ELSE Len(file)
        /\ \A p \in 1..n : file'[p] = What[p]
        /\ \A p \in (n + 1)..Len(file) : file'[p] = file[p]
    BY <1>9, <2>2, Reached
  <2>4. Len(What) = GraphHeader /\ What[1] = "HMB3" /\ What[2] = 3 /\ What[3] = RootSize /\ What[7] = schema
    BY <1>1, <1>3, <1>9, <2>2, LastUnits
  <2>5. Offset(v, Done) \in Nat /\ Offset(v, Done) >= RootSize
    BY <1>1, <1>5, <2>1
  <2> HIDE DEF What, v
  <2>6. Len(file) \in Nat /\ Len(file) >= GraphHeader + RootSize /\ n <= GraphHeader
    BY <1>2, <1>4, <2>2, <2>4, <2>5 DEF GraphHeader
  <2>7. Len(file') = Len(file)
    BY <1>2, <1>4, <2>3, <2>6 DEF GraphHeader
  <2>8. HeaderOf(file', schema)
    <3>1. ASSUME NEW p \in {1, 2, 3, 7} PROVE file'[p] = file[p] \/ file'[p] = What[p]
      <4>1. p \in 1..n \/ p \in (n + 1)..Len(file)
        BY <1>2, <1>4, <2>6 DEF GraphHeader
      <4> QED BY <2>3, <4>1
    <3>2. \A p \in {1, 2, 3, 7} : p \in 1..Len(file)
      BY <1>2, <2>6 DEF GraphHeader
    <3>3. file[1] = "HMB3" /\ file[2] = 3 /\ file[3] = RootSize /\ file[7] = schema
      BY <2>2, <3>2 DEF HeaderOf
    <3>4. file'[1] = "HMB3" /\ file'[2] = 3 /\ file'[3] = RootSize /\ file'[7] = schema
      BY <2>4, <3>1, <3>3
    <3> QED BY <3>4 DEF HeaderOf
  <2>9. \A p \in 1..Len(file) : p > GraphHeader => file'[p] = file[p]
    <3> SUFFICES ASSUME NEW p \in 1..Len(file), p > GraphHeader PROVE file'[p] = file[p]
      OBVIOUS
    <3>1. p \in (n + 1)..Len(file)
      BY <1>4, <2>6 DEF GraphHeader
    <3> QED BY <2>3, <3>1
  <2>10. RootOf(file', v)
    <3>1. \A p \in 1..RootSize : GraphHeader + p \in 1..Len(file) /\ GraphHeader + p > GraphHeader
                                  /\ GraphHeader + p <= Len(file)
      BY <1>2, <2>6 DEF GraphHeader
    <3> QED BY <2>2, <2>9, <3>1 DEF RootOf
  <2>11. PayloadsOf(file', v)
    <3> SUFFICES ASSUME NEW i \in DOMAIN Fields, NEW q \in 1..L(v, i),
                        GraphHeader + Offset(v, i) + q <= Len(file')
                 PROVE  file'[GraphHeader + Offset(v, i) + q] = v[Fields[i]][q]
      BY DEF PayloadsOf
    <3>1. L(v, i) \in Nat /\ Offset(v, i) \in Nat
      BY <1>1, <1>2, <1>5, RootUnits DEF v
    <3>2. GraphHeader + Offset(v, i) + q \in 1..Len(file) /\ GraphHeader + Offset(v, i) + q > GraphHeader
      <4> HIDE DEF L
      <4> QED BY <2>6, <2>7, <3>1 DEF GraphHeader
    <3> QED BY <2>2, <2>7, <2>9, <3>2 DEF PayloadsOf
  <2>12. Len(file') = SizeWith(v, Len(Fields))
    BY <1>9, <2>2, <2>7 DEF SizeWith
  <2>13. status' # "writing"
    BY <1>2, <1>9, <2>2
  <2>14. saved'.value = v /\ saved'.hash = schema /\ Assigned(v)
    BY <1>1, <2>2 DEF v
  <2> QED BY <1>1, <2>2, <2>8, <2>10, <2>11, <2>12, <2>13, <2>14
<1> QED BY <1>6, <1>8, <1>9, NextOfMapped

-----------------------------------------------------------------------------
(* The steps that leave the file alone                                     *)

LEMMA Untouched ==
  ASSUME BlockInv, GraphInv, MappedInv,
         file' = file, saved' = saved, writer' = writer, status' # "writing",
         status' = "whole" => status = "whole",
         status' = "torn" => status \in {"writing", "torn"}
  PROVE  BlockInv' /\ GraphInv' /\ MappedInv'
<1>1. BlockInv'
  BY DEF BlockInv
<1>2. GraphInv'
  <2> SUFFICES ASSUME writer = "graph", file # Absent
               PROVE  /\ saved \in Graphs /\ GraphFits(saved)
                      /\ \E n \in 0..Len(Image(saved)), m \in 0..GraphHeader :
                            /\ file = Patched(saved, n, m)
                            /\ m > 0 => n = Len(Image(saved))
                            /\ status' = "whole" => n = Len(Image(saved)) /\ m = GraphHeader
    BY DEF GraphInv
  <2> QED BY DEF GraphInv
<1>3. MappedInv'
  BY DEF MappedInv
<1> QED BY <1>1, <1>2, <1>3

\* A save begins at its first step.
LEMMA SaveStarts ==
  ASSUME IInv, NEW content, Save(content),
         writer = "block"  => content \in Blocks /\ BlockFits(content),
         writer = "graph"  => content \in Graphs /\ GraphFits(content),
         writer = "mapped" => content = [value |-> globals, hash |-> schema]
  PROVE  IInv'
<1>1. /\ steps = << >> /\ saving' = content /\ steps' = StepsOfSave
      /\ UNCHANGED <<writer, file, saved, status, globals, schema, failures>>
  BY DEF Save
<1>2. status # "writing"
  BY <1>1 DEF IInv, WritingInv
<1>3. TypeInv'
  BY <1>1 DEF IInv, TypeInv, Assigned
<1>4. StepsOfSave' = StepsOfSave
  BY <1>1 DEF StepsOfSave
<1> DEFINE S == StepsOfSave
<1>5. Len(S) \in Nat \ {0} /\ S = [i \in 1..Len(S) |-> S[i]]
  BY StepsLength DEF IInv
<1> HIDE DEF S
<1>6. Done' = 0
  BY <1>1, <1>4, <1>5 DEF Done, S
<1>7. StepsInv'
  <2>1. steps' = S /\ StepsOfSave' = S
    BY <1>1, <1>4 DEF S
  <2>2. \A i \in 1..Len(S) : 0 + i = i
    BY <1>5
  <2>3. S = [i \in 1..Len(S) |-> S[0 + i]]
    BY <1>5, <2>2
  <2>4. Len(S) \in 0..Len(S)
    BY <1>5
  <2> QED BY <1>6, <2>1, <2>3, <2>4 DEF StepsInv
<1>8. SavingInv'
  BY <1>1 DEF SavingInv, BlockFits, GraphFits
<1>9. WritingInv'
  BY <1>1, <1>2, <1>6 DEF WritingInv
<1>10. BlockInv' /\ GraphInv' /\ MappedInv'
  BY <1>1, <1>2, Untouched DEF IInv
<1> QED BY <1>3, <1>7, <1>8, <1>9, <1>10 DEF IInv

\* The next step is taken, or the save ends.
LEMMA StepTaken ==
  ASSUME TypeInv, StepsInv, steps # << >>, writer' = writer, steps' = Tail(steps)
  PROVE  /\ StepsInv' /\ Done' = Done + 1 /\ Done \in Nat
         /\ steps' = << >> <=> Done + 1 = Len(StepsOfSave)
<1> DEFINE S == StepsOfSave
<1>1. StepsOfSave' = StepsOfSave
  BY DEF StepsOfSave
<1>2. Len(S) \in Nat /\ Done \in 0..Len(S) /\ Done + 1 \in 1..Len(S)
  BY StepsLength, StepsLeft
<1>3. Len(steps') = Len(steps) - 1 /\ steps' = [i \in 1..(Len(steps) - 1) |-> S[(Done + 1) + i]]
  BY StepsLeft
<1>4. Len(steps) = Len(S) - Done
  BY <1>2 DEF Done, StepsInv
<1> HIDE DEF S
<1>5. Done' = Done + 1
  <2>1. Done' = Len(S) - Len(steps')
    BY <1>1 DEF Done, S
  <2> QED BY <1>2, <1>3, <1>4, <2>1
<1>6. StepsInv'
  <2>1. Len(steps') \in 0..Len(S)
    BY <1>2, <1>3, <1>4
  <2>2. steps' = [i \in 1..Len(steps') |-> S[Done' + i]]
    BY <1>3, <1>5
  <2> QED BY <1>1, <2>1, <2>2 DEF StepsInv, S
<1>7. steps' = << >> <=> Done + 1 = Len(S)
  <2>1. steps' = << >> <=> Len(steps') = 0
    <3> SUFFICES ASSUME Len(steps') = 0 PROVE steps' = << >>
      OBVIOUS
    <3>1. Len(steps) - 1 = 0
      BY <1>3
    <3>2. steps' = [i \in 1..0 |-> S[(Done + 1) + i]]
      BY <1>3, <3>1
    <3> QED BY <3>2
  <2> QED BY <1>2, <1>3, <1>4, <2>1
<1> QED BY <1>2, <1>5, <1>6, <1>7 DEF S

LEMMA SaveStops ==
  ASSUME TypeInv, writer' = writer, steps' = << >>
  PROVE  StepsInv' /\ SavingInv'
<1>1. StepsOfSave' = StepsOfSave
  BY DEF StepsOfSave
<1>2. Len(StepsOfSave) \in Nat
  BY StepsLength
<1>3. Len(steps') = 0 /\ steps' = [i \in 1..0 |-> StepsOfSave[Done' + i]]
  OBVIOUS
<1>4. StepsInv'
  BY <1>1, <1>2, <1>3 DEF StepsInv
<1> QED BY <1>4 DEF SavingInv

\* A write that reaches the file, and what it makes of the status.
LEMMA ReachStatus ==
  ASSUME TypeInv, StepsInv, SavingInv, WritingInv, steps # << >>, Opens,
         NEW n \in 0..Len(What), NEW outcome \in {"writing", "whole", "short", "torn"}, Reach(n, outcome)
  PROVE  /\ file' \in Files /\ file' # Absent
         /\ status' \in {outcome, status, "short"} /\ status' # "none"
         /\ status' = "writing" => outcome = "writing" /\ (Done = 0 \/ status = "writing")
         /\ outcome \in {"writing", "short"} /\ Done > 0 => status' \in {"writing", "short"}
         /\ Done > 0 /\ status = "writing" => status' = outcome
         /\ Done = 0 => status' = outcome /\ saved' = saving
         /\ Done > 0 => saved' = saved
<1>1. /\ file' \in Files /\ file' # Absent
      /\ How = "create" => saved' = saving /\ status' = outcome
      /\ How # "create" =>
            /\ saved' = saved
            /\ status' = IF file = Absent THEN "short" ELSE IF status = "writing" THEN outcome ELSE status
  BY Reached
<1>2. How = "create" <=> Done = 0
  <2>1. CASE writer = "block"
    BY <2>1, NextOfBlock
  <2>2. CASE writer = "graph"
    <3>1. \/ Done = 0 /\ How = "create"
          \/ Done = 1 /\ How = "update"
      BY <2>2, NextOfGraph
    <3> QED BY <3>1
  <2>3. CASE writer = "mapped"
    <3>1. \/ Done = 0 /\ How = "create"
          \/ Done \in 1..Len(Fields) /\ How = "append"
          \/ Done = Len(Fields) + 1 /\ How = "update"
      BY <2>3, NextOfMapped
    <3> QED BY <3>1, FieldFacts
  <2> QED BY <2>1, <2>2, <2>3, WriterCases
<1>3. Done \in Nat
  BY StepsLeft, StepsLength
<1>4. status \in {"none", "writing", "whole", "short", "torn"} /\ (file = Absent <=> status = "none")
  BY DEF TypeInv
<1>5. Done > 0 => status \in {"none", "writing", "short"}
  BY DEF WritingInv
<1> QED BY <1>1, <1>2, <1>3, <1>4, <1>5

LEMMA ReachImage ==
  ASSUME IInv, steps # << >>, Opens, writer' = writer,
         NEW n \in 0..Len(What), NEW outcome, Reach(n, outcome),
         outcome = "whole" => n = Len(What) /\ Done + 1 = Len(StepsOfSave),
         outcome = "writing" => n = Len(What) /\ Done' = Done + 1 /\ Done + 1 < Len(StepsOfSave)
  PROVE  BlockInv' /\ GraphInv' /\ MappedInv'
<1>1. TypeInv /\ StepsInv /\ SavingInv /\ WritingInv /\ GraphInv /\ MappedInv
  BY DEF IInv
<1>2. CASE writer = "block"
  <2>1. BlockInv'
    BY <1>1, <1>2, ReachBlock
  <2> QED BY <1>2, <2>1 DEF GraphInv, MappedInv
<1>3. CASE writer = "graph"
  <2>1. outcome = "whole" => n = Len(What) /\ Done = 1
    <3>1. Len(StepsOfSave) = 2 /\ (Done = 0 \/ Done = 1)
      BY <1>1, <1>3, NextOfGraph
    <3> QED BY <3>1
  <2>2. GraphInv'
    BY <1>1, <1>3, <2>1, ReachGraph
  <2> QED BY <1>3, <2>2 DEF BlockInv, MappedInv
<1>4. CASE writer = "mapped"
  <2>2. Len(StepsOfSave) = Len(Fields) + 2 /\ Len(Fields) \in Nat /\ Done \in Nat
    BY <1>1, <1>4, NextOfMapped, StepsLeft, StepsLength, FieldFacts
  <2>3. /\ outcome = "whole" => n = Len(What) /\ Done = Len(Fields) + 1
        /\ outcome = "writing" => n = Len(What) /\ Done' = Done + 1 /\ Done <= Len(Fields)
    BY <2>2
  <2>4. MappedInv'
    BY <1>1, <1>4, <2>3, ReachMapped
  <2> QED BY <1>4, <2>4 DEF BlockInv, GraphInv
<1> QED BY <1>1, <1>2, <1>3, <1>4, WriterCases

-----------------------------------------------------------------------------
(* The steps                                                               *)

LEMMA AssignStep ==
  ASSUME IInv, Assign
  PROVE  IInv'
<1>1. /\ writer = "mapped" /\ steps = << >> /\ globals' \in Values
      /\ UNCHANGED <<writer, file, steps, saving, saved, status, schema, failures>>
  BY DEF Assign
<1>2. Assigned(globals')
  <2>1. PICK n \in Numbers, t \in [FieldNames -> Texts] :
            globals' = [x \in Variables |-> IF x = "num" THEN n ELSE t[x]]
    BY <1>1 DEF Values
  <2>2. n \in Int /\ \A s \in Texts : s \in Seq(Contents)
    <3>1. n \in Int /\ Texts \subseteq Seq(Elements)
      BY ImageAssumption
    <3>2. \A s \in Seq(Elements) : s \in Seq(Contents)
      BY DEF Contents
    <3> QED BY <3>1, <3>2
  <2>3. "num" \in Variables /\ \A x \in FieldNames : x \in Variables /\ x # "num"
    BY FieldFacts DEF Variables
  <2>4. globals'.num = n /\ \A x \in FieldNames : globals'[x] = t[x]
    BY <2>1, <2>3
  <2>5. globals' = [x \in Variables |-> globals'[x]]
    BY <2>1
  <2> QED BY <2>2, <2>4, <2>5 DEF Assigned
<1>3. TypeInv'
  BY <1>1, <1>2 DEF IInv, TypeInv, Assigned
<1>4. status # "writing"
  BY <1>1 DEF IInv, WritingInv
<1>5. StepsInv' /\ SavingInv'
  BY <1>1, SaveStops DEF IInv
<1>6. WritingInv'
  BY <1>1, <1>4 DEF WritingInv
<1>7. BlockInv' /\ GraphInv' /\ MappedInv'
  BY <1>1, <1>4, Untouched DEF IInv
<1> QED BY <1>3, <1>5, <1>6, <1>7 DEF IInv

LEMMA SaveSteps ==
  ASSUME IInv, Serialize \/ SerializeGraph \/ MappedSerialize
  PROVE  IInv'
<1>1. CASE Serialize
  <2>1. PICK b \in Blocks : BlockFits(b) /\ Save(b) /\ writer = "block"
    BY <1>1 DEF Serialize
  <2> QED BY <2>1, SaveStarts
<1>2. CASE SerializeGraph
  <2>1. PICK g \in Graphs : GraphFits(g) /\ Save(g) /\ writer = "graph"
    BY <1>2 DEF SerializeGraph
  <2> QED BY <2>1, SaveStarts
<1>3. CASE MappedSerialize
  BY <1>3, SaveStarts DEF MappedSerialize
<1> QED BY <1>1, <1>2, <1>3

LEMMA WriteStep ==
  ASSUME IInv, Write
  PROVE  IInv'
<1> DEFINE outcome == IF steps' = << >> THEN "whole" ELSE "writing"
           n == Len(What)
<1>1. /\ steps # << >> /\ Opens /\ steps' = Tail(steps) /\ Reach(n, outcome)
      /\ saving' = IF steps' = << >> THEN None ELSE saving
      /\ UNCHANGED <<writer, globals, schema, failures>>
  BY DEF Write
<1>2. TypeInv /\ StepsInv /\ SavingInv /\ WritingInv
  BY DEF IInv
<1>3. /\ StepsInv' /\ Done' = Done + 1 /\ Done \in Nat
      /\ steps' = << >> <=> Done + 1 = Len(StepsOfSave)
  BY <1>1, <1>2, StepTaken
<1>4. n \in 0..Len(What) /\ Done + 1 <= Len(StepsOfSave)
  <2>1. Len(What) \in Nat
    BY <1>1, <1>2, NextUnits
  <2> HIDE DEF What
  <2> QED BY <1>1, <1>2, <2>1, StepsLeft, StepsLength
<1>5. outcome \in {"writing", "whole", "short", "torn"} /\ n = Len(What)
  OBVIOUS
<1>6. outcome = "whole" <=> steps' = << >>
  OBVIOUS
<1>7. outcome = "writing" <=> steps' # << >>
  OBVIOUS
<1> HIDE DEF n, outcome
<1>8. BlockInv' /\ GraphInv' /\ MappedInv'
  <2>1. outcome = "whole" => n = Len(What) /\ Done + 1 = Len(StepsOfSave)
    BY <1>3, <1>5, <1>6
  <2>2. outcome = "writing" => n = Len(What) /\ Done' = Done + 1 /\ Done + 1 < Len(StepsOfSave)
    BY <1>2, <1>3, <1>4, <1>5, <1>7, StepsLength
  <2> QED BY <1>1, <1>4, <2>1, <2>2, ReachImage
<1>9. /\ file' \in Files /\ file' # Absent
      /\ status' \in {outcome, status, "short"} /\ status' # "none"
      /\ status' = "writing" => outcome = "writing" /\ (Done = 0 \/ status = "writing")
      /\ outcome \in {"writing", "short"} /\ Done > 0 => status' \in {"writing", "short"}
      /\ Done > 0 /\ status = "writing" => status' = outcome
      /\ Done = 0 => status' = outcome /\ saved' = saving
      /\ Done > 0 => saved' = saved
  BY <1>1, <1>2, <1>4, <1>5, ReachStatus
<1>10. TypeInv'
  BY <1>1, <1>2, <1>5, <1>9 DEF TypeInv, Assigned
<1>11. SavingInv'
  BY <1>1, <1>2 DEF SavingInv, BlockFits, GraphFits
<1>12. WritingInv'
  <2>1. ASSUME status' = "writing"
        PROVE  steps' # << >> /\ Done' > 0 /\ saved' = saving'
    <3>1. steps' # << >> /\ saving' = saving
      BY <1>1, <1>7, <1>9, <2>1
    <3>2. CASE Done = 0
      BY <1>3, <1>9, <3>1, <3>2
    <3>3. CASE Done > 0
      <4>1. status = "writing"
        BY <1>9, <2>1, <3>3
      <4> QED BY <1>2, <1>3, <1>9, <3>1, <3>3, <4>1 DEF WritingInv
    <3> QED BY <1>3, <3>2, <3>3
  <2>2. steps' # << >> => status' \in {"none", "writing", "short"}
    BY <1>3, <1>7, <1>9
  <2>3. ASSUME steps' # << >>, writer' = "graph" PROVE status' = "writing"
    <3>1. Done = 0
      <4>1. Len(StepsOfSave) = 2
        BY <1>1, <1>2, <2>3, NextOfGraph
      <4> QED BY <1>3, <1>4, <2>3, <4>1
    <3> QED BY <1>7, <1>9, <2>3, <3>1
  <2> QED BY <2>1, <2>2, <2>3 DEF WritingInv
<1> QED BY <1>3, <1>8, <1>10, <1>11, <1>12 DEF IInv

LEMMA CrashStep ==
  ASSUME IInv, Crash
  PROVE  IInv'
<1>1. /\ steps' = << >> /\ globals' = Start /\ schema' \in Schemas /\ UNCHANGED <<writer, failures>>
  BY DEF Crash
<1>2. TypeInv /\ StepsInv /\ SavingInv /\ WritingInv
  BY DEF IInv
<1>3. StepsInv' /\ SavingInv'
  BY <1>1, <1>2, SaveStops
<1>4. Assigned(globals')
  <2>1. "num" \in Variables /\ \A x \in FieldNames : x \in Variables /\ x # "num"
    BY FieldFacts DEF Variables
  <2>2. globals' = [x \in Variables |-> globals'[x]]
    BY <1>1 DEF Start
  <2>3. globals'.num = 0 /\ \A x \in FieldNames : globals'[x] = << >>
    BY <1>1, <2>1 DEF Start
  <2>4. 0 \in Int /\ << >> \in Seq(Contents)
    BY EmptySeq
  <2> QED BY <2>2, <2>3, <2>4 DEF Assigned
<1>5. CASE UNCHANGED <<file, saved>> /\ status' = IF status = "writing" THEN "torn" ELSE status
  <2>1. BlockInv' /\ GraphInv' /\ MappedInv'
    BY <1>1, <1>5, Untouched DEF IInv
  <2>2. TypeInv'
    BY <1>1, <1>2, <1>4, <1>5 DEF TypeInv, Assigned
  <2>3. WritingInv'
    BY <1>1, <1>5 DEF WritingInv
  <2> QED BY <1>3, <2>1, <2>2, <2>3 DEF IInv
<1>6. ASSUME steps # << >>, Opens, NEW n \in 0..Len(What), Reach(n, "torn")
      PROVE  IInv'
  <2>1. BlockInv' /\ GraphInv' /\ MappedInv'
    BY <1>1, <1>6, ReachImage
  <2>2. /\ file' \in Files /\ file' # Absent
        /\ status' \in {"torn", status, "short"} /\ status' # "none" /\ status' # "writing"
    BY <1>2, <1>6, ReachStatus
  <2>3. TypeInv'
    BY <1>1, <1>2, <1>4, <2>2 DEF TypeInv, Assigned
  <2>4. WritingInv'
    BY <1>1, <2>2 DEF WritingInv
  <2> QED BY <1>3, <2>1, <2>3, <2>4 DEF IInv
<1> QED BY <1>5, <1>6 DEF Crash

LEMMA FailStep ==
  ASSUME IInv, WriteFails
  PROVE  IInv'
<1>1. /\ steps # << >> /\ steps' = (IF writer = "mapped" THEN Tail(steps) ELSE << >>)
      /\ saving' = (IF steps' = << >> THEN None ELSE saving)
      /\ UNCHANGED <<writer, globals, schema>>
  BY DEF WriteFails
<1>2. TypeInv /\ StepsInv /\ SavingInv /\ WritingInv
  BY DEF IInv
<1>3. Assigned(globals') /\ status \in {"none", "writing", "whole", "short", "torn"}
  BY <1>1, <1>2 DEF TypeInv, Assigned
<1>4. failures \in 0..MaxFailures /\ MaxFailures \in Nat
  BY <1>2, ImageAssumption DEF TypeInv
<1>5. StepsInv' /\ SavingInv'
  <2>1. CASE writer = "mapped"
    BY <1>1, <1>2, <2>1, StepTaken DEF SavingInv
  <2>2. CASE writer # "mapped"
    BY <1>1, <1>2, <2>2, SaveStops
  <2> QED BY <2>1, <2>2
<1>6. steps' # << >> => writer = "mapped" /\ Done' = Done + 1 /\ Done \in Nat
  BY <1>1, <1>2, StepTaken
<1>7. ASSUME status' # "writing", file' = Absent <=> status' = "none", file' = Absent \/ file' \in Files,
             status' \in {"none", "whole", "short", "torn"}, failures' \in 0..MaxFailures,
             steps' # << >> => status' \in {"none", "writing", "short"},
             BlockInv' /\ GraphInv' /\ MappedInv'
      PROVE  IInv'
  <2>1. TypeInv'
    BY <1>1, <1>2, <1>3, <1>7 DEF TypeInv, Assigned
  <2>2. WritingInv'
    BY <1>1, <1>6, <1>7 DEF WritingInv
  <2> QED BY <1>5, <1>7, <2>1, <2>2 DEF IInv
<1>8. CASE ~Opens /\ UNCHANGED <<file, saved, status, failures>>
  <2>1. file = Absent /\ status = "none"
    BY <1>2, <1>8 DEF Opens, TypeInv
  <2>2. BlockInv' /\ GraphInv' /\ MappedInv'
    BY <1>1, <1>8, <2>1, Untouched DEF IInv
  <2> QED BY <1>4, <1>7, <1>8, <2>1, <2>2
<1>9. CASE /\ failures < MaxFailures /\ failures' = failures + 1
           /\ UNCHANGED <<file, saved>> /\ status' = (IF file = Absent THEN status ELSE "short")
  <2>1. status' \in {"none", "short"} /\ (file' = Absent <=> status' = "none")
    BY <1>2, <1>9 DEF TypeInv
  <2>2. file' = Absent \/ file' \in Files
    BY <1>2, <1>9 DEF TypeInv
  <2>3. BlockInv' /\ GraphInv' /\ MappedInv'
    BY <1>1, <1>9, <2>1, Untouched DEF IInv
  <2> QED BY <1>4, <1>7, <1>9, <2>1, <2>2, <2>3
<1>10. ASSUME failures < MaxFailures, failures' = failures + 1, Opens,
              NEW n \in 0..(Len(What) - 1), Reach(n, "short")
       PROVE  IInv'
  <2>1. n \in 0..Len(What)
    <3>1. Len(What) \in Nat
      BY <1>1, <1>2, <1>10, NextUnits
    <3> HIDE DEF What
    <3> QED BY <3>1
  <2>2. BlockInv' /\ GraphInv' /\ MappedInv'
    BY <1>1, <1>10, <2>1, ReachImage
  <2>3. /\ file' \in Files /\ file' # Absent
        /\ status' \in {"short", status} /\ status' # "none" /\ status' # "writing"
        /\ Done > 0 => status' \in {"writing", "short"}
        /\ Done = 0 => status' = "short"
    BY <1>1, <1>2, <1>10, <2>1, ReachStatus
  <2>4. steps' # << >> => status' = "short"
    BY <1>6, <2>3
  <2> QED BY <1>3, <1>4, <1>7, <1>10, <2>2, <2>3, <2>4
<1> QED BY <1>8, <1>9, <1>10 DEF WriteFails

\* What the buffer holds after the root has been read into it.
LEMMA BufferUnits ==
  ASSUME TypeInv, NEW before \in Leftovers, NEW b, b = Buffer(before)
  PROVE  \E n \in 0..RootSize :
            /\ n > 0 => file # Absent /\ GraphHeader + n <= Len(file)
            /\ RootReadable => n = RootSize
            /\ \A p \in 1..n : b[p] = file[GraphHeader + p]
            /\ \A p \in (n + 1)..RootSize : b[p] = before[p]
<1> DEFINE n == IF file = Absent \/ ~RootOK(file, schema) THEN 0
                ELSE IF RootReadable THEN RootSize ELSE Len(file) - GraphHeader
           first == SubSeq(file, GraphHeader + 1, GraphHeader + n)
           last  == SubSeq(before, n + 1, RootSize)
<1>1. RootSize \in Nat /\ before \in Seq(Int) /\ Len(before) = RootSize
  BY FieldFacts, LeftoversAssumption
<1>2. file \in Seq(Units \union {"absent"}) /\ (file # Absent => file \in Seq(Units))
  <2>1. Absent \in Seq({"absent"})
    BY DEF Absent
  <2>2. \A s : s \in Seq(Units) \/ s \in Seq({"absent"}) => s \in Seq(Units \union {"absent"})
    OBVIOUS
  <2>3. file # Absent => file \in Seq(Units)
    BY DEF TypeInv, Files
  <2> QED BY <2>1, <2>2, <2>3
<1>3. n \in 0..RootSize /\ (n > 0 => file # Absent /\ GraphHeader + n <= Len(file))
  <2>1. CASE file = Absent \/ ~RootOK(file, schema)
    BY <1>1, <2>1
  <2>2. CASE file # Absent /\ RootOK(file, schema)
    <3>1. Len(file) \in Nat /\ Len(file) >= GraphHeader
      BY <1>2, <2>2 DEF RootOK
    <3>2. RootReadable <=> Len(file) >= GraphHeader + RootSize
      BY <2>2 DEF RootReadable
    <3> QED BY <1>1, <2>2, <3>1, <3>2 DEF GraphHeader
  <2> QED BY <2>1, <2>2
<1>4. RootReadable => n = RootSize
  BY DEF RootReadable
<1>5. b = first \o last
  BY DEF Buffer
<1> HIDE DEF n
<1>6. /\ first \in Seq(Units \union {"absent"}) /\ Len(first) = n
      /\ \A p \in 1..n : first[p] = file[GraphHeader + p]
  <2>1. CASE n = 0
    <3>1. GraphHeader + 1 > GraphHeader + n
      BY <2>1 DEF GraphHeader
    <3>2. first = << >>
      BY <1>2, <2>1, <3>1, SubSeqProperties DEF GraphHeader
    <3> HIDE DEF first
    <3>3. first \in Seq(Units \union {"absent"}) /\ Len(first) = 0
      BY <3>2, EmptySeq
    <3> QED BY <2>1, <3>3
  <2>2. CASE n > 0
    <3>1. Len(file) \in Nat /\ file \in Seq(Units) /\ GraphHeader + n <= Len(file)
      BY <1>2, <1>3, <2>2
    <3>2. GraphHeader + 1 \in 1..Len(file) + 1 /\ GraphHeader + n \in GraphHeader..Len(file)
      BY <1>1, <1>3, <2>2, <3>1 DEF GraphHeader
    <3>3. /\ first \in Seq(Units) /\ Len(first) = n
          /\ \A p \in 1..n : first[p] = file[GraphHeader + p]
      BY <1>1, <1>3, <2>2, <3>1, <3>2, SubSeqProperties DEF GraphHeader
    <3> HIDE DEF first
    <3> QED BY <3>3
  <2> QED BY <1>1, <1>3, <2>1, <2>2
<1>7. /\ last \in Seq(Int) /\ Len(last) = RootSize - n
      /\ \A p \in 1..(RootSize - n) : last[p] = before[n + p]
  BY <1>1, <1>3, SubSeqProperties
<1> HIDE DEF first, last
<1> DEFINE U == Units \union {"absent"} \union Int
<1>8. /\ first \in Seq(U) /\ last \in Seq(U)
  BY <1>6, <1>7
<1>9. /\ \A p \in 1..n : b[p] = first[p]
      /\ \A p \in 1..(RootSize - n) : b[n + p] = last[p]
  <2> HIDE DEF U
  <2> QED BY <1>5, <1>6, <1>7, <1>8, Joined, SMTT(40)
<1>10. \A p \in (n + 1)..RootSize : b[p] = before[p]
  <2> SUFFICES ASSUME NEW p \in (n + 1)..RootSize PROVE b[p] = before[p]
    OBVIOUS
  <2>1. p - n \in 1..(RootSize - n) /\ n + (p - n) = p
    BY <1>1, <1>3
  <2> QED BY <1>7, <1>9, <2>1
<1> QED BY <1>3, <1>4, <1>6, <1>9, <1>10

LEMMA IndexOfField ==
  ASSUME NEW x \in FieldNames
  PROVE  Index(x) \in 1..Len(Fields) /\ Fields[Index(x)] = x
<1>1. \E i \in DOMAIN Fields : Fields[i] = x
  BY FieldFacts
<1> QED BY <1>1, FieldFacts DEF Index

LEMMA ElementIs ==
  /\ \A u : Element(u) \in Contents
  /\ \A u \in Contents : Element(u) = u
BY DEF Element, Contents

\* Whatever is read of a file, a payload consists of elements.
LEMMA PayloadLoaded ==
  ASSUME NEW x, NEW offset \in Int, NEW length \in Int
  PROVE  LoadPayload(x, offset, length) \in Seq(Contents)
<1> DEFINE at == GraphHeader + offset
<1>1. /\ Null \in Contents /\ << >> \in Seq(Contents)
      /\ \A i \in 1..length : Element(file[at + i]) \in Contents
  BY EmptySeq, ElementIs DEF Contents
<1> HIDE DEF at
<1>2. [i \in 1..length |-> Null] \in Seq(Contents) /\ [i \in 1..length |-> Element(file[at + i])] \in Seq(Contents)
  <2>1. CASE length \in Nat
    BY <1>1, <2>1
  <2>2. CASE length < 0
    <3>1. 1..length = {}
      BY <2>2
    <3>2. [i \in 1..length |-> Null] = << >> /\ [i \in 1..length |-> Element(file[at + i])] = << >>
      BY <3>1
    <3> QED BY <1>1, <3>2
  <2> QED BY <2>1, <2>2
<1> QED BY <1>1, <1>2 DEF LoadPayload, at

\* Whatever the buffer holds, each variable is given a value of its type.
LEMMA LoadedIsAssigned ==
  ASSUME NEW b, NEW g, g = Loaded(b)
  PROVE  Assigned(g)
<1> DEFINE Payload(x) == LoadPayload(x, Number(b[2 * Index(x)]), Number(b[2 * Index(x) + 1]))
<1>1. \A u : Number(u) \in Int
  BY LeftoversAssumption DEF Number
<1>2. \A x : Payload(x) \in Seq(Contents)
  BY <1>1, PayloadLoaded
<1>3. g = [x \in Variables |-> IF x = "num" THEN Number(b[1]) ELSE Payload(x)]
  BY DEF Loaded
<1> HIDE DEF Payload
<1>4. "num" \in Variables /\ \A x \in FieldNames : x \in Variables /\ x # "num"
  BY FieldFacts DEF Variables
<1>5. g.num = Number(b[1]) /\ \A x \in FieldNames : g[x] = Payload(x)
  BY <1>3, <1>4
<1>6. g = [x \in Variables |-> g[x]]
  BY <1>3
<1> QED BY <1>1, <1>2, <1>5, <1>6 DEF Assigned

LEMMA LoadStep ==
  ASSUME IInv, MappedDeserialize
  PROVE  IInv'
<1>1. /\ writer = "mapped" /\ steps = << >>
      /\ UNCHANGED <<writer, file, steps, saving, saved, status, schema, failures>>
  BY DEF MappedDeserialize
<1>2. PICK before \in Leftovers : globals' = Loaded(Buffer(before))
  BY DEF MappedDeserialize
<1>3. Assigned(globals')
  BY <1>2, LoadedIsAssigned
<1>4. TypeInv'
  BY <1>1, <1>3 DEF IInv, TypeInv, Assigned
<1>5. status # "writing"
  BY <1>1 DEF IInv, WritingInv
<1>6. StepsInv' /\ SavingInv'
  BY <1>1, SaveStops DEF IInv
<1>7. WritingInv'
  BY <1>1, <1>5 DEF WritingInv
<1>8. BlockInv' /\ GraphInv' /\ MappedInv'
  BY <1>1, <1>5, Untouched DEF IInv
<1> QED BY <1>4, <1>6, <1>7, <1>8 DEF IInv

-----------------------------------------------------------------------------
(* The theorems                                                            *)

LEMMA Begins == Init => IInv
<1> SUFFICES ASSUME Init PROVE IInv
  OBVIOUS
<1>1. /\ writer \in Writers /\ file = Absent /\ steps = << >> /\ status = "none"
      /\ globals = Start /\ schema \in Schemas /\ failures = 0
  BY DEF Init
<1>2. Assigned(globals)
  <2>1. "num" \in Variables /\ \A x \in FieldNames : x \in Variables /\ x # "num"
    BY FieldFacts DEF Variables
  <2>2. globals = [x \in Variables |-> globals[x]]
    BY <1>1 DEF Start
  <2>3. globals.num = 0 /\ \A x \in FieldNames : globals[x] = << >>
    BY <1>1, <2>1 DEF Start
  <2>4. 0 \in Int /\ << >> \in Seq(Contents)
    BY EmptySeq
  <2> QED BY <2>2, <2>3, <2>4 DEF Assigned
<1>3. TypeInv
  BY <1>1, <1>2, ImageAssumption DEF TypeInv
<1>4. StepsInv
  <2>1. Len(StepsOfSave) \in Nat
    BY <1>3, StepsLength
  <2>2. Len(steps) = 0 /\ steps = [i \in 1..0 |-> StepsOfSave[Done + i]]
    BY <1>1
  <2> QED BY <2>1, <2>2 DEF StepsInv
<1> QED BY <1>1, <1>3, <1>4 DEF IInv, SavingInv, WritingInv, BlockInv, GraphInv, MappedInv

LEMMA Stays == IInv /\ [Next]_vars => IInv'
<1> SUFFICES ASSUME IInv, [Next]_vars PROVE IInv'
  OBVIOUS
<1>1. CASE Assign
  BY <1>1, AssignStep
<1>2. CASE Serialize \/ SerializeGraph \/ MappedSerialize
  BY <1>2, SaveSteps
<1>3. CASE Write
  BY <1>3, WriteStep
<1>4. CASE WriteFails
  BY <1>4, FailStep
<1>5. CASE Crash
  BY <1>5, CrashStep
<1>6. CASE MappedDeserialize
  BY <1>6, LoadStep
<1>7. CASE UNCHANGED vars
  <2>1. /\ writer' = writer /\ file' = file /\ steps' = steps /\ saving' = saving /\ saved' = saved
        /\ status' = status /\ globals' = globals /\ schema' = schema /\ failures' = failures
    BY <1>7 DEF vars
  <2>2. StepsOfSave' = StepsOfSave
    BY <2>1 DEF StepsOfSave
  <2>3. TypeInv' /\ SavingInv'
    BY <2>1 DEF IInv, TypeInv, Assigned, SavingInv, BlockFits, GraphFits
  <2>4. Done' = Done
    BY <2>1, <2>2 DEF Done
  <2>5. StepsInv' /\ WritingInv'
    BY <2>1, <2>2, <2>4 DEF IInv, StepsInv, WritingInv
  <2>6. BlockInv'
    BY <2>1 DEF IInv, BlockInv
  <2>7. GraphInv'
    BY <2>1 DEF IInv, GraphInv
  <2>9. MappedInv'
    BY <2>1, <2>4 DEF IInv, MappedInv
  <2> QED BY <2>3, <2>5, <2>6, <2>7, <2>9 DEF IInv
<1> QED BY <1>1, <1>2, <1>3, <1>4, <1>5, <1>6, <1>7 DEF Next

LEMMA ImageInvariant == Spec => []IInv
<1>1. Init => IInv
  BY Begins
<1>2. IInv /\ [Next]_vars => IInv'
  BY Stays
<1> QED BY <1>1, <1>2, PTL DEF Spec

\* A file is there as soon as a save has created one, and each variable keeps
\* its type, whatever the stack buffer of MappedDeserialize held and whichever
\* part of a file it made its loads read.
THEOREM ImageTypes == Spec => []TypeOK
<1>1. IInv => TypeOK
  <2> SUFFICES ASSUME TypeInv PROVE TypeOK
    BY DEF IInv
  <2>1. ASSUME NEW x \in FieldNames, NEW i \in DOMAIN globals[x]
        PROVE  globals[x][i] \in Elements \union {Null, Junk}
    <3>1. globals[x] \in Seq(Contents)
      BY DEF TypeInv, Assigned
    <3>2. globals[x][i] \in Contents
      BY <3>1
    <3> QED BY <3>2 DEF Contents
  <2> QED BY <2>1 DEF TypeOK, TypeInv, Assigned
<1> QED BY <1>1, ImageInvariant, PTL

\* What is loaded of a file that no write failed for: the number, and each
\* payload if the file reaches to its end.
LEMMA LoadedOf ==
  ASSUME IInv, writer = "mapped", RootReadable, status \in {"writing", "whole", "torn"},
         NEW before \in Leftovers, NEW g, g = Loaded(Buffer(before)),
         NEW v, v = saved.value
  PROVE  /\ Assigned(v) /\ g = [x \in Variables |-> g[x]]
         /\ g.num = v.num
         /\ \A i \in 1..Len(Fields) :
               g[Fields[i]] = IF SizeWith(v, i) <= Len(file) THEN v[Fields[i]]
                              ELSE Lacking(Fields[i], Len(v[Fields[i]]))
<1>1. Assigned(v) /\ RootOf(file, v) /\ PayloadsOf(file, v)
  BY DEF IInv, MappedInv
<1>2. /\ RootSize \in Nat /\ RootSize = 1 + 2 * Len(Fields) /\ Len(Fields) \in Nat
      /\ DOMAIN Fields = 1..Len(Fields)
  BY FieldFacts
<1>3. file # Absent /\ file \in Seq(Units) /\ Len(file) \in Nat /\ Len(file) >= GraphHeader + RootSize
  BY DEF IInv, TypeInv, Files, RootReadable
<1> DEFINE b == Buffer(before)
<1>4. \A p \in 1..RootSize : b[p] = Root(v)[p]
  <2>1. \A p \in 1..RootSize : b[p] = file[GraphHeader + p]
    BY BufferUnits DEF IInv
  <2>2. \A p \in 1..RootSize : GraphHeader + p <= Len(file)
    BY <1>2, <1>3 DEF GraphHeader
  <2> HIDE DEF b
  <2> QED BY <1>1, <2>1, <2>2 DEF RootOf
<1>5. /\ Root(v)[1] = v.num /\ v.num \in Int
      /\ \A i \in 1..Len(Fields) :
            /\ Root(v)[2 * i] = Offset(v, i) /\ Root(v)[2 * i + 1] = Len(v[Fields[i]])
            /\ Offset(v, i) \in Nat /\ Len(v[Fields[i]]) \in Nat
            /\ Offset(v, i + 1) = Offset(v, i) + Len(v[Fields[i]])
  <2>1. \A x \in FieldNames : Len(v[x]) \in Nat
    BY <1>1, AssignedLengths
  <2>2. \A i \in 1..Len(Fields) : Offset(v, i + 1) = Offset(v, i) + Len(v[Fields[i]])
    BY <2>1, OffsetsAddUp, FieldFacts
  <2> QED BY <1>1, <2>1, <2>2, RootUnits, FieldFacts DEF Assigned
<1>6. \A u \in Int : Number(u) = u
  BY DEF Number
<1> DEFINE Payload(x) == LoadPayload(x, Number(b[2 * Index(x)]), Number(b[2 * Index(x) + 1]))
<1>7. g = [x \in Variables |-> IF x = "num" THEN Number(b[1]) ELSE Payload(x)]
  BY DEF Loaded
<1> HIDE DEF b
<1>8. ASSUME NEW i \in 1..Len(Fields)
      PROVE  Payload(Fields[i]) = LoadPayload(Fields[i], Offset(v, i), Len(v[Fields[i]]))
  <2>1. Fields[i] \in FieldNames
    BY FieldFacts
  <2>2. Index(Fields[i]) = i
    <3>1. Index(Fields[i]) \in 1..Len(Fields) /\ Fields[Index(Fields[i])] = Fields[i]
      BY <2>1, IndexOfField
    <3> QED BY <1>2, <3>1, ImageAssumption
  <2>3. 2 * i \in 1..RootSize /\ 2 * i + 1 \in 1..RootSize
    BY <1>2
  <2>4. b[2 * i] = Offset(v, i) /\ b[2 * i + 1] = Len(v[Fields[i]])
    BY <1>4, <1>5, <2>3
  <2>5. Number(b[2 * i]) = Offset(v, i) /\ Number(b[2 * i + 1]) = Len(v[Fields[i]])
    BY <1>5, <1>6, <2>4
  <2> QED BY <2>2, <2>5
<1> HIDE DEF Payload
<1>9. /\ g = [x \in Variables |-> g[x]] /\ g.num = v.num
      /\ \A i \in 1..Len(Fields) : g[Fields[i]] = Payload(Fields[i])
  <2>1. "num" \in Variables /\ \A i \in 1..Len(Fields) : Fields[i] \in Variables /\ Fields[i] # "num"
    BY FieldFacts DEF Variables
  <2>2. Number(b[1]) = v.num
    <3>1. 1 \in 1..RootSize
      BY <1>2
    <3> QED BY <1>4, <1>5, <1>6, <3>1
  <2>3. g = [x \in Variables |-> g[x]]
    BY <1>7
  <2> QED BY <1>7, <2>1, <2>2, <2>3
<1>10. ASSUME NEW i \in 1..Len(Fields)
       PROVE  LoadPayload(Fields[i], Offset(v, i), Len(v[Fields[i]])) =
                 IF SizeWith(v, i) <= Len(file) THEN v[Fields[i]] ELSE Lacking(Fields[i], Len(v[Fields[i]]))
  <2> DEFINE o == Offset(v, i)  t == v[Fields[i]]  k == Len(t)  at == GraphHeader + o
  <2>1. o \in Nat /\ k \in Nat /\ SizeWith(v, i) = at + k /\ at \in Nat
    BY <1>5, SMTT(40) DEF SizeWith, GraphHeader
  <2>2. LoadPayload(Fields[i], o, k) =
          IF at + k <= Len(file) THEN [q \in 1..k |-> Element(file[at + q])] ELSE Lacking(Fields[i], k)
    <3> HIDE DEF o, k
    <3>1. at >= 0
      BY <2>1 DEF GraphHeader
    <3> QED BY <1>3, <3>1 DEF LoadPayload, Lacking
  <2>3. ASSUME at + k <= Len(file) PROVE [q \in 1..k |-> Element(file[at + q])] = t
    <3>1. t \in Seq(Contents)
      BY <1>1, FieldFacts DEF Assigned
    <3>2. \A q \in 1..k : file[at + q] = t[q]
      <4> SUFFICES ASSUME NEW q \in 1..k PROVE file[at + q] = t[q]
        OBVIOUS
      <4>1. i \in DOMAIN Fields
        BY <1>2
      <4>2. at + q <= Len(file)
        <5> HIDE DEF at, k
        <5> QED BY <1>3, <2>1, <2>3
      <4> QED BY <1>1, <4>1, <4>2 DEF PayloadsOf
    <3> HIDE DEF o, t, at
    <3>3. \A q \in 1..k : t[q] \in Contents
      BY <3>1
    <3>4. \A q \in 1..k : Element(file[at + q]) = t[q]
      BY <3>2, <3>3, ElementIs
    <3>5. t = [q \in 1..k |-> t[q]]
      BY <3>1, LenProperties
    <3> QED BY <3>4, <3>5
  <2> HIDE DEF at
  <2> QED BY <2>1, <2>2, <2>3
<1> QED BY <1>1, <1>8, <1>9, <1>10

\* A save that ran to its end without an error, loaded by any later process of
\* a program with the same schema, gives back every variable: the offsets that
\* MappedSerialize computes are where its appends put the payloads.
THEOREM ImageRoundTrip == Spec => RoundTrip
<1>1. ASSUME IInv, MappedDeserialize, status = "whole", schema = saved.hash
      PROVE  globals' = saved.value
  <2> DEFINE v == saved.value
  <2>1. writer = "mapped"
    BY <1>1 DEF MappedDeserialize
  <2>2. Assigned(v) /\ HeaderOf(file, schema) /\ Len(file) = SizeWith(v, Len(Fields))
    BY <1>1, <2>1 DEF IInv, MappedInv
  <2>3. /\ RootSize \in Nat /\ Len(Fields) \in Nat /\ file # Absent /\ Len(file) \in Nat
        /\ \A x \in FieldNames : x \in {Fields[i] : i \in 1..Len(Fields)}
    BY <1>1, FieldFacts DEF IInv, TypeInv, Files
  <2>4. /\ \A i \in 1..Len(Fields) : SizeWith(v, i) <= SizeWith(v, Len(Fields))
        /\ SizeWith(v, Len(Fields)) >= GraphHeader + RootSize
    <3>1. /\ \A i \in 1..(Len(Fields) + 1) : Offset(v, i) \in Nat /\ Offset(v, i) >= RootSize
          /\ \A i, j \in 1..(Len(Fields) + 1) : i <= j => Offset(v, i) <= Offset(v, j)
      BY <2>2, AssignedLengths, OffsetsGrow
    <3>2. \A i \in 1..Len(Fields) : Offset(v, i + 1) \in Nat /\ Offset(v, i + 1) <= Offset(v, Len(Fields) + 1)
      BY <2>3, <3>1
    <3>3. Offset(v, Len(Fields) + 1) \in Nat /\ Offset(v, Len(Fields) + 1) >= RootSize
      BY <2>3, <3>1
    <3> HIDE DEF v
    <3> QED BY <2>3, <3>2, <3>3 DEF SizeWith, GraphHeader
  <2>5. RootReadable
    <3>1. \A p \in {1, 2, 3, 7} : p \in 1..Len(file)
      BY <2>2, <2>3, <2>4 DEF GraphHeader
    <3>2. file[1] = "HMB3" /\ file[2] = 3 /\ file[3] = RootSize /\ file[7] = schema
      BY <2>2, <3>1 DEF HeaderOf
    <3>3. Len(file) >= GraphHeader /\ Len(file) >= GraphHeader + RootSize
      BY <2>2, <2>3, <2>4 DEF GraphHeader
    <3> QED BY <2>3, <3>2, <3>3 DEF RootReadable, RootOK
  <2>6. PICK before \in Leftovers : globals' = Loaded(Buffer(before))
    BY <1>1 DEF MappedDeserialize
  <2>7. /\ globals' = [x \in Variables |-> globals'[x]] /\ globals'.num = v.num
        /\ \A i \in 1..Len(Fields) :
              globals'[Fields[i]] = IF SizeWith(v, i) <= Len(file) THEN v[Fields[i]]
                                    ELSE Lacking(Fields[i], Len(v[Fields[i]]))
    BY <1>1, <2>1, <2>5, <2>6, LoadedOf
  <2>8. \A i \in 1..Len(Fields) : globals'[Fields[i]] = v[Fields[i]]
    BY <2>2, <2>4, <2>7
  <2>9. \A x \in Variables : globals'[x] = v[x]
    <3>1. \A x \in FieldNames : globals'[x] = v[x]
      BY <2>3, <2>8
    <3> QED BY <2>7, <3>1 DEF Variables
  <2>10. v = [x \in Variables |-> v[x]]
    BY <2>2 DEF Assigned
  <2> QED BY <2>7, <2>9, <2>10
<1>2. IInv /\ [Next]_vars =>
        (MappedDeserialize /\ status = "whole" /\ schema = saved.hash => globals' = saved.value)
  BY <1>1
<1> QED BY <1>2, ImageInvariant, PTL DEF Spec, RoundTrip

\* Of a file that a dying process left, whose header and root are there, each
\* payload is loaded as the save meant it or is found missing: never that of
\* an earlier save, never a part of it, never that of another variable.
THEOREM ImageNeverMixed == Spec => NeverMixed
<1>1. ASSUME IInv, MappedDeserialize, RootReadable, status # "short"
      PROVE  /\ globals'.num = saved.value.num
             /\ \A x \in FieldNames :
                   globals'[x] \in {saved.value[x], Lacking(x, Len(saved.value[x]))}
  <2>1. writer = "mapped" /\ status \in {"writing", "whole", "torn"}
    BY <1>1 DEF MappedDeserialize, RootReadable, IInv, TypeInv
  <2>2. PICK before \in Leftovers : globals' = Loaded(Buffer(before))
    BY <1>1 DEF MappedDeserialize
  <2>3. /\ globals'.num = saved.value.num
        /\ \A i \in 1..Len(Fields) :
              globals'[Fields[i]] = IF SizeWith(saved.value, i) <= Len(file) THEN saved.value[Fields[i]]
                                    ELSE Lacking(Fields[i], Len(saved.value[Fields[i]]))
    BY <1>1, <2>1, <2>2, LoadedOf
  <2>4. \A i \in 1..Len(Fields) :
          globals'[Fields[i]] \in {saved.value[Fields[i]], Lacking(Fields[i], Len(saved.value[Fields[i]]))}
    BY <2>3
  <2>5. \A x \in FieldNames : \E i \in 1..Len(Fields) : x = Fields[i]
    BY FieldFacts
  <2> QED BY <2>3, <2>4, <2>5
<1>2. IInv /\ [Next]_vars =>
        (MappedDeserialize /\ RootReadable /\ status # "short"
           => /\ globals'.num = saved.value.num
              /\ \A x \in FieldNames :
                    globals'[x] \in {saved.value[x], Lacking(x, Len(saved.value[x]))})
  BY <1>1
<1> QED BY <1>2, ImageInvariant, PTL DEF Spec, NeverMixed

LEMMA NoneIsNoImage ==
  \A a, b, c, d : [data |-> a, pointers |-> b] # None
                  /\ [payload |-> a, root |-> b, hash |-> c, relocations |-> d] # None
<1> SUFFICES ASSUME NEW a, NEW b, NEW c, NEW d
             PROVE  [data |-> a, pointers |-> b] # None
                    /\ [payload |-> a, root |-> b, hash |-> c, relocations |-> d] # None
  OBVIOUS
<1>1. DOMAIN None = {"none"}
  BY DEF None
<1>2. "data" \in DOMAIN [data |-> a, pointers |-> b]
  OBVIOUS
<1>3. "payload" \in DOMAIN [payload |-> a, root |-> b, hash |-> c, relocations |-> d]
  OBVIOUS
<1> QED BY <1>1, <1>2, <1>3

\* A part of a sequence is the sequence of its units.
LEMMA PartOf ==
  ASSUME NEW S, NEW f \in Seq(S), NEW at \in Nat, NEW end, end \in Nat, end <= Len(f),
         NEW T, NEW t \in Seq(T), NEW k \in Nat, Len(t) = k, end = at + k, \A q \in 1..k : f[at + q] = t[q]
  PROVE  SubSeq(f, at + 1, end) = t
<1> DEFINE part == SubSeq(f, at + 1, end)
<1>1. part \in Seq(S) /\ Len(part) = k /\ \A q \in 1..k : part[q] = f[at + q]
  <2>1. CASE k = 0
    <3>1. part = << >>
      <4>1. at + 1 > end
        BY <2>1
      <4> QED BY <4>1, SubSeqProperties
    <3> HIDE DEF part
    <3> QED BY <2>1, <3>1, EmptySeq
  <2>2. CASE k > 0
    <3>1. Len(f) \in Nat /\ at + 1 \in 1..Len(f) + 1 /\ end \in (at + 1) - 1..Len(f)
      BY <2>2
    <3>2. (end - (at + 1)) + 1 = k
      OBVIOUS
    <3> QED BY <2>2, <3>1, <3>2, SubSeqProperties
  <2> QED BY <2>1, <2>2, SMTT(40)
<1>2. t = [q \in 1..k |-> t[q]]
  BY LenProperties
<1>3. part = [q \in 1..k |-> part[q]]
  <2> HIDE DEF part
  <2> QED BY <1>1, LenProperties
<1> HIDE DEF part
<1>4. \A q \in 1..k : part[q] = t[q]
  BY <1>1
<1>5. part = t
  BY <1>2, <1>3, <1>4
<1> QED BY <1>5 DEF part

\* A beginning of the image of a block is rejected unless it is all of it.
LEMMA BlockRead ==
  ASSUME NEW b \in Blocks, NEW w, w = SerializeBlock(b),
         NEW n \in Nat, n <= Len(w), NEW f \in Seq(Units), Len(f) = n, \A i \in 1..n : f[i] = w[i]
  PROVE  /\ n = Len(w) => DecodeHeader(f) = b /\ b # None
         /\ n # Len(w) => DecodeHeader(f) = None
<1> DEFINE d == b.data  r == b.pointers
<1>1. /\ d \in Seq(Elements) /\ r \in Seq(Nat) /\ b = [data |-> d, pointers |-> r]
      /\ Len(d) \in Nat /\ Len(r) \in Nat
      /\ w \in Files /\ Len(w) = BlockHeader + Len(d) + Len(r)
      /\ w[1] = "HMB1" /\ w[2] = 1 /\ w[3] = Len(d) /\ w[4] = Len(r)
      /\ \A i \in 1..Len(d) : w[BlockHeader + i] = d[i]
      /\ \A i \in 1..Len(r) : w[(BlockHeader + Len(d)) + i] = r[i]
  BY BlockUnits
<1> HIDE DEF d, r
<1>2. Len(w) \in Nat
  BY <1>1 DEF Files
<1>3. f \in Seq(Units) /\ Len(f) = n /\ \A i \in 1..n : f[i] = w[i]
  OBVIOUS
<1>4. n >= BlockHeader => f[1] = "HMB1" /\ f[2] = 1 /\ f[3] = Len(d) /\ f[4] = Len(r)
  <2> HAVE n >= BlockHeader
  <2>1. 1 \in 1..n /\ 2 \in 1..n /\ 3 \in 1..n /\ 4 \in 1..n
    BY <1>2 DEF BlockHeader
  <2> QED BY <1>1, <1>3, <2>1
<1> DEFINE end == BlockHeader + f[3]
           dl  == Len(d)
           rl  == Len(r)
<1>5. DecodeHeader(f) =
        IF n < BlockHeader \/ f[1] # "HMB1" \/ f[2] # 1 \/ end + f[4] # n THEN None
        ELSE [data |-> SubSeq(f, BlockHeader + 1, end), pointers |-> SubSeq(f, end + 1, n)]
  BY <1>3 DEF DecodeHeader
<1>6. CASE n = Len(w)
  <2>1. ~(n < BlockHeader) /\ n >= BlockHeader /\ BlockHeader \in Nat
    BY <1>1, <1>2, <1>6 DEF BlockHeader
  <2>2. end = BlockHeader + Len(d) /\ end + f[4] = n /\ end \in Nat /\ n = end + Len(r)
    <3>1. f[3] = dl /\ f[4] = rl /\ n = BlockHeader + dl + rl
      BY <1>1, <1>4, <1>6, <2>1, Zenon
    <3>2. dl \in Nat /\ rl \in Nat
      BY <1>1
    <3>3. end = BlockHeader + dl
      BY <3>1
    <3> HIDE DEF end, dl, rl
    <3>4. end + f[4] = n /\ end \in Nat /\ n = end + rl
      BY <2>1, <3>1, <3>2, <3>3
    <3> QED BY <3>3, <3>4 DEF dl, rl
  <2> HIDE DEF end
  <2>3. SubSeq(f, BlockHeader + 1, end) = d
    <3>1. \A q \in 1..Len(d) : f[BlockHeader + q] = d[q]
      <4>1. \A q \in 1..Len(d) : BlockHeader + q \in 1..n
        BY <1>1, <1>6, <2>1
      <4> QED BY <1>1, <1>3, <4>1
    <3>2. BlockHeader + Len(d) <= Len(f)
      BY <1>1, <1>3, <1>6, <2>1
    <3>3. end <= Len(f)
      BY <2>2, <3>2
    <3> QED BY <1>1, <1>3, <2>1, <2>2, <3>1, <3>3, PartOf
  <2>4. SubSeq(f, end + 1, n) = r
    <3>1. \A q \in 1..Len(r) : f[end + q] = r[q]
      <4>1. \A q \in 1..Len(r) : end + q \in 1..n
        BY <1>1, <2>2, SMTT(40)
      <4> QED BY <1>1, <1>3, <2>2, <4>1
    <3>2. end + Len(r) <= Len(f)
      BY <1>2, <1>3, <2>2
    <3>3. n <= Len(f)
      BY <1>2, <1>3
    <3>4. r \in Seq(Nat) /\ Len(r) \in Nat /\ end \in Nat /\ n = end + Len(r)
      BY <1>1, <2>2
    <3>5. \A e \in Nat : e <= Len(f) /\ e = end + Len(r) => SubSeq(f, end + 1, e) = r
      BY <1>3, <3>1, <3>4, PartOf
    <3> QED BY <3>3, <3>4, <3>5
  <2>5. DecodeHeader(f) = b
    BY <1>1, <1>4, <1>5, <2>1, <2>2, <2>3, <2>4
  <2> QED BY <1>1, <1>6, <2>5, NoneIsNoImage
<1>7. CASE n # Len(w)
  <2>1. n < BlockHeader \/ end + f[4] # n
    <3> SUFFICES ASSUME n >= BlockHeader PROVE end + f[4] # n
      BY <1>2 DEF BlockHeader
    <3>1. end + f[4] = Len(w)
      BY <1>1, <1>4
    <3> QED BY <1>7, <3>1
  <2>2. DecodeHeader(f) = None
    <3> HIDE DEF end
    <3> QED BY <1>5, <2>1
  <2> QED BY <1>7, <2>2
<1> QED BY <1>6, <1>7

\* The header is read as the save wrote it if its last two fields are; the
\* units behind it are those of the first write.
LEMMA PatchedUnits ==
  ASSUME NEW g \in Graphs, NEW n \in 0..Len(Image(g)), NEW m \in 0..GraphHeader,
         NEW f, f = Patched(g, n, m)
  PROVE  /\ f \in Seq(Units) /\ Len(f) = n /\ n \in Nat
         /\ \A p \in 1..n : f[p] = IF p <= m THEN PatchedHeader(g)[p] ELSE Image(g)[p]
<1>1. Len(Image(g)) \in Nat /\ Len(Image(g)) >= GraphHeader /\ Image(g) \in Seq(Units)
  BY ImageLength, ImageUnits DEF Files
<1>2. PatchedHeader(g) \in Seq(Units) /\ Len(PatchedHeader(g)) = GraphHeader
  BY GraphHeaders DEF Files
<1> DEFINE h == PatchedHeader(g)  w == Image(g)
<1>3. f = [p \in 1..n |-> IF p <= m THEN h[p] ELSE w[p]]
  BY DEF Patched
<1> HIDE DEF h, w
<1>4. n \in Nat /\ m \in Nat /\ n <= Len(w) /\ m <= GraphHeader /\ Len(w) \in Nat
  BY <1>1 DEF w, GraphHeader
<1>5. w \in Seq(Units) /\ h \in Seq(Units) /\ Len(h) = GraphHeader
  BY <1>1, <1>2 DEF w, h
<1>6. ASSUME NEW p \in 1..n PROVE (IF p <= m THEN h[p] ELSE w[p]) \in Units
  <2>1. CASE p <= m
    <3>1. p \in 1..Len(h)
      BY <1>4, <1>5, <2>1 DEF GraphHeader
    <3> QED BY <1>5, <2>1, <3>1
  <2>2. CASE ~ p <= m
    <3>1. p \in 1..Len(w)
      BY <1>4
    <3> QED BY <1>5, <2>2, <3>1
  <2> QED BY <2>1, <2>2
<1>7. f \in Seq(Units) /\ Len(f) = n
  BY <1>3, <1>4, <1>6
<1>8. \A p \in 1..n : f[p] = IF p <= m THEN h[p] ELSE w[p]
  BY <1>3
<1> QED BY <1>4, <1>7, <1>8 DEF h, w

\* The fields that a graph's file has, at whatever point the header is patched.
LEMMA GraphFields ==
  ASSUME NEW g \in Graphs, NEW n \in 0..Len(Image(g)), NEW m \in 0..GraphHeader,
         NEW f, f = Patched(g, n, m), n >= GraphHeader
  PROVE  /\ f[1] = "HMB3" /\ f[2] = 3 /\ f[3] = Len(g.root) /\ f[4] = Len(Flat(g.heap))
         /\ f[6] = Len(GraphPayload(g)) /\ f[7] = g.hash
         /\ m >= 8 => f[5] = Len(g.relocations) /\ f[8] = GraphHeader + Len(GraphPayload(g))
         /\ m < 8 => f[8] = 0
         /\ m = GraphHeader => f[9] = 2 * Len(g.relocations)
<1> DEFINE h == PatchedHeader(g)  w == Image(g)  a == FirstHeader(g)
           r == Len(g.root)  l == Len(Flat(g.heap))  c == Len(g.relocations)  d == Len(GraphPayload(g))
<1>1. n \in Nat /\ \A p \in 1..n : f[p] = IF p <= m THEN h[p] ELSE w[p]
  BY PatchedUnits
<1>2. \A p \in 1..GraphHeader : w[p] = a[p]
  BY ImageUnits
<1>3. /\ h = <<"HMB3", 3, r, l, c, d, g.hash, GraphHeader + d, 2 * c>>
      /\ a[8] = 0 /\ \A p \in {1, 2, 3, 4, 6, 7} : a[p] = h[p]
  BY GraphHeaders
<1> HIDE DEF h, w, a, r, l, c, d
<1>4. /\ h[1] = "HMB3" /\ h[2] = 3 /\ h[3] = r /\ h[4] = l /\ h[5] = c /\ h[6] = d /\ h[7] = g.hash
      /\ h[8] = GraphHeader + d /\ h[9] = 2 * c
  BY <1>3
<1>5. m \in Nat /\ m <= 9 /\ n >= 9 /\ \A p \in 1..9 : p \in 1..n /\ w[p] = a[p]
  BY <1>1, <1>2 DEF GraphHeader
<1>6. \A p \in 1..9 : f[p] = IF p <= m THEN h[p] ELSE a[p]
  BY <1>1, <1>5
<1>7. \A p \in {1, 2, 3, 4, 6, 7} : f[p] = h[p]
  <2>1. \A p \in {1, 2, 3, 4, 6, 7} : p \in 1..9
    OBVIOUS
  <2> QED BY <1>3, <1>6, <2>1
<1>8. m >= 8 => f[5] = h[5] /\ f[8] = h[8]
  BY <1>5, <1>6
<1>9. m < 8 => f[8] = a[8]
  BY <1>5, <1>6
<1>10. m = GraphHeader => f[9] = h[9]
  BY <1>5, <1>6 DEF GraphHeader
<1> QED BY <1>3, <1>4, <1>7, <1>8, <1>9, <1>10 DEF r, l, c, d

\* The relocations that are read of an image are those of the graph.
LEMMA RelocationsRead ==
  ASSUME NEW g \in Graphs, NEW m \in 0..GraphHeader,
         NEW f, f = Patched(g, Len(Image(g)), m)
  PROVE  RelocationsOf(f, GraphHeader + Len(GraphPayload(g)), Len(g.relocations)) = g.relocations
<1> DEFINE at == GraphHeader + Len(GraphPayload(g))  c == Len(g.relocations)
           t == RelocationTable(g)  s == g.relocations
<1>1. Len(GraphPayload(g)) \in Nat /\ c \in Nat /\ Len(Image(g)) \in Nat
  BY ImageLength
<1>2. Len(Image(g)) = at + 2 * c /\ \A p \in 1..(2 * c) : Image(g)[at + p] = t[p]
  BY ImageUnits
<1>3. \A p \in 1..Len(Image(g)) : f[p] = IF p <= m THEN PatchedHeader(g)[p] ELSE Image(g)[p]
  <2>1. Len(Image(g)) \in 0..Len(Image(g))
    BY <1>1
  <2> QED BY <2>1, PatchedUnits
<1>4. at \in Nat /\ at >= m /\ m \in Nat
  BY <1>1 DEF GraphHeader
<1>5. \A i \in 1..c : t[2 * i - 1] = s[i].source /\ t[2 * i] = s[i].target
  BY GraphParts
<1>6. s \in Seq([source : Nat, target : Nat])
  BY GraphParts
<1>7. \A i \in 1..c : s[i] = [source |-> s[i].source, target |-> s[i].target]
  BY <1>6, RelocationFacts
<1>8. s = [i \in 1..c |-> s[i]]
  BY <1>6, LenProperties
<1> HIDE DEF at, c, t, s
<1>9. ASSUME NEW p \in 1..(2 * c) PROVE f[at + p] = t[p]
  <2>1. at + p \in 1..Len(Image(g)) /\ ~ at + p <= m
    BY <1>1, <1>2, <1>4
  <2> QED BY <1>2, <1>3, <2>1
<1>10. ASSUME NEW i \in 1..c
       PROVE  [source |-> Slot(f, at + 2 * (i - 1)), target |-> Slot(f, at + 2 * i - 1)] = s[i]
  <2>1. 2 * i - 1 \in 1..(2 * c) /\ 2 * i \in 1..(2 * c)
    BY <1>1
  <2>2. (at + 2 * (i - 1)) + 1 = at + (2 * i - 1) /\ (at + 2 * i - 1) + 1 = at + 2 * i
    BY <1>1, <1>4
  <2>3. Slot(f, at + 2 * (i - 1)) = t[2 * i - 1] /\ Slot(f, at + 2 * i - 1) = t[2 * i]
    BY <1>9, <2>1, <2>2 DEF Slot
  <2> QED BY <1>5, <1>7, <2>3
<1>11. RelocationsOf(f, at, c) =
         [i \in 1..c |-> [source |-> Slot(f, at + 2 * (i - 1)), target |-> Slot(f, at + 2 * i - 1)]]
  BY DEF RelocationsOf
<1>12. RelocationsOf(f, at, c) = s
  BY <1>8, <1>10, <1>11
<1> QED BY <1>12 DEF at, c, s

LEMMA PayloadRead ==
  ASSUME NEW g \in Graphs, NEW m \in 0..GraphHeader,
         NEW f, f = Patched(g, Len(Image(g)), m)
  PROVE  SubSeq(f, GraphHeader + 1, GraphHeader + Len(GraphPayload(g))) = Relocated(g)
<1> DEFINE d == Len(GraphPayload(g))  at == GraphHeader + d  w == Image(g)  t == Relocated(g)
<1>1. d \in Nat /\ Len(g.relocations) \in Nat /\ Len(w) \in Nat
  BY ImageLength
<1>2. Len(w) = at + 2 * Len(g.relocations) /\ \A p \in 1..d : w[GraphHeader + p] = t[p]
  BY ImageUnits
<1>3. f \in Seq(Units) /\ Len(f) = Len(w) /\ \A p \in 1..Len(w) : f[p] = IF p <= m THEN PatchedHeader(g)[p] ELSE w[p]
  <2>1. Len(w) \in 0..Len(w)
    BY <1>1
  <2> QED BY <2>1, PatchedUnits
<1>4. t \in Seq(Units) /\ Len(t) = d
  BY GraphParts
<1> HIDE DEF d, w, t
<1>5. GraphHeader \in Nat /\ at \in Nat /\ at <= Len(f) /\ m \in Nat /\ m <= GraphHeader
  <2> DEFINE c == Len(g.relocations)  k == Len(w)
  <2>1. at \in Nat /\ GraphHeader \in Nat /\ m \in Nat /\ m <= GraphHeader
    BY <1>1 DEF GraphHeader
  <2>2. c \in Nat /\ k = at + 2 * c /\ Len(f) = k
    BY <1>1, <1>2, <1>3
  <2> HIDE DEF at, c, k
  <2>3. at <= k
    BY <2>1, <2>2
  <2> QED BY <2>1, <2>2, <2>3
<1>6. \A q \in 1..d : f[GraphHeader + q] = t[q]
  <2> SUFFICES ASSUME NEW q \in 1..d PROVE f[GraphHeader + q] = t[q]
    OBVIOUS
  <2>1. q \in Nat /\ 1 <= q /\ q <= d /\ at = GraphHeader + d /\ Len(w) \in Nat /\ at <= Len(w)
    BY <1>1, <1>3, <1>5
  <2>2. GraphHeader + q \in 1..Len(w) /\ ~ GraphHeader + q <= m
    BY <1>1, <1>5, <2>1
  <2> QED BY <1>2, <1>3, <2>2
<1>7. \A e \in Nat : e <= Len(f) /\ e = GraphHeader + d => SubSeq(f, GraphHeader + 1, e) = t
  BY <1>1, <1>3, <1>4, <1>5, <1>6, PartOf
<1>8. SubSeq(f, GraphHeader + 1, at) = t
  BY <1>5, <1>7
<1> QED BY <1>8 DEF t, d

LEMMA FittingGraph ==
  ASSUME NEW g \in Graphs, GraphFits(g)
  PROVE  \A i \in 1..Len(g.relocations) :
            ~(g.relocations[i].source > Len(GraphPayload(g)) - 1
              \/ g.relocations[i].target >= Len(GraphPayload(g)))
<1> DEFINE d == Len(GraphPayload(g))  s == g.relocations  c == Len(s)
<1>1. d \in Nat /\ s \in Seq([source : Nat, target : Nat])
  BY GraphParts, ImageLength
<1>2. \A i \in DOMAIN s : s[i].source <= d - 1 /\ s[i].target < d
  BY DEF GraphFits
<1> HIDE DEF d, s
<1>3. DOMAIN s = 1..c /\ \A i \in 1..c : s[i].source \in Nat /\ s[i].target \in Nat
  BY <1>1, RelocationFacts
<1>4. ASSUME NEW i \in 1..c PROVE ~(s[i].source > d - 1 \/ s[i].target >= d)
  <2> DEFINE x == s[i].source  y == s[i].target
  <2>1. x \in Nat /\ y \in Nat /\ x <= d - 1 /\ y < d
    BY <1>2, <1>3
  <2> HIDE DEF x, y
  <2>2. ~(x > d - 1 \/ y >= d)
    BY <1>1, <2>1
  <2> QED BY <2>2 DEF x, y
<1> QED BY <1>4 DEF d, s

\* A file of a graph is rejected unless all of it is there and the header says
\* so; then the graph is read as it was written.
LEMMA GraphRead ==
  ASSUME NEW g \in Graphs, GraphFits(g), NEW n \in 0..Len(Image(g)), NEW m \in 0..GraphHeader,
         NEW f, f = Patched(g, n, m), m > 0 => n = Len(Image(g)),
         NEW whole, whole = [payload |-> Relocated(g), root |-> Len(g.root), hash |-> g.hash,
                             relocations |-> g.relocations]
  PROVE  /\ ReadGraph(f) # None => ReadGraph(f) = whole
         /\ n = Len(Image(g)) /\ m = GraphHeader => ReadGraph(f) # None
<1> DEFINE d == Len(GraphPayload(g))  c == Len(g.relocations)  r == Len(g.root)  l == Len(Flat(g.heap))
           k == Len(Image(g))  s == g.relocations
<1>1. n \in Nat /\ Len(f) = n
  BY PatchedUnits
<1>2. /\ d \in Nat /\ c \in Nat /\ r \in Nat /\ l \in Nat /\ d = r + l
      /\ s \in Seq([source : Nat, target : Nat])
  BY GraphParts, ImageLength
<1>3. k = GraphHeader + d + 2 * c /\ k >= GraphHeader
  BY ImageUnits, ImageLength
<1>4. n >= GraphHeader =>
        /\ f[1] = "HMB3" /\ f[2] = 3 /\ f[3] = r /\ f[4] = l /\ f[6] = d /\ f[7] = g.hash
        /\ m >= 8 => f[5] = c /\ f[8] = GraphHeader + d
        /\ m < 8 => f[8] = 0
        /\ m = GraphHeader => f[9] = 2 * c
  BY GraphFields, SMTT(40)
<1>5. \A i \in 1..c : ~(s[i].source > d - 1 \/ s[i].target >= d)
  BY FittingGraph
<1>6. n = k => RelocationsOf(f, GraphHeader + d, c) = s /\ SubSeq(f, GraphHeader + 1, GraphHeader + d) = Relocated(g)
  BY RelocationsRead, PayloadRead
<1> HIDE DEF d, c, r, l, k, s
<1>7. n = k /\ m >= 8 =>
        ReadGraph(f) = IF f[9] # 2 * c THEN None ELSE whole
  <2> HAVE n = k /\ m >= 8
  <2>1. ~ Len(f) < GraphHeader /\ n >= GraphHeader
    BY <1>1, <1>3 DEF GraphHeader
  <2>2. /\ f[1] = "HMB3" /\ f[2] = 3 /\ f[3] = r /\ f[4] = l /\ f[5] = c /\ f[6] = d /\ f[7] = g.hash
        /\ f[8] = GraphHeader + d
    BY <1>4, <2>1
  <2>3. RelocationsOf(f, f[8], f[5]) = s /\ SubSeq(f, GraphHeader + 1, f[8]) = Relocated(g)
    BY <1>6, <2>2
  <2>4. CASE f[9] # 2 * c
    <3>1. f[9] # 2 * f[5]
      BY <2>2, <2>4
    <3>2. ReadGraph(f) = None
      BY <2>1, <2>2, <3>1 DEF ReadGraph
    <3> QED BY <2>4, <3>2
  <2>5. CASE f[9] = 2 * c
    <3>1. f[6] = f[3] + f[4] /\ f[9] = 2 * f[5] /\ f[8] = GraphHeader + f[6] /\ f[8] + f[9] = Len(f)
      BY <1>1, <1>2, <1>3, <2>2, <2>5
    <3>2. ~ \E i \in 1..f[5] : \/ RelocationsOf(f, f[8], f[5])[i].source > f[6] - 1
                               \/ RelocationsOf(f, f[8], f[5])[i].target >= f[6]
      BY <1>5, <2>2, <2>3
    <3>3. ReadGraph(f) = [payload |-> SubSeq(f, GraphHeader + 1, f[8]), root |-> f[3], hash |-> f[7],
                          relocations |-> RelocationsOf(f, f[8], f[5])]
      BY <2>1, <2>2, <3>1, <3>2 DEF ReadGraph
    <3>4. ReadGraph(f) = whole
      BY <2>2, <2>3, <3>3 DEF r, s
    <3> QED BY <2>5, <3>4
  <2> QED BY <2>4, <2>5
<1>8. ReadGraph(f) # None => n = k /\ m >= 8
  <2> SUFFICES ASSUME ~(n = k /\ m >= 8) PROVE ReadGraph(f) = None
    OBVIOUS
  <2>1. CASE n < GraphHeader
    BY <1>1, <2>1 DEF ReadGraph
  <2>2. CASE n >= GraphHeader
    <3>1. m < 8
      BY <1>3 DEF k
    <3>2. f[8] # GraphHeader + f[6]
      <4>1. f[8] = 0 /\ f[6] = d
        BY <1>4, <2>2, <3>1
      <4> QED BY <1>2, <4>1 DEF GraphHeader
    <3> QED BY <3>2 DEF ReadGraph
  <2> QED BY <1>1, <2>1, <2>2 DEF GraphHeader
<1>9. n = k /\ m = GraphHeader => ReadGraph(f) # None
  <2> HAVE n = k /\ m = GraphHeader
  <2>1. n >= GraphHeader /\ m >= 8
    BY <1>3 DEF GraphHeader
  <2>2. f[9] = 2 * c
    BY <1>4, <2>1
  <2>3. ReadGraph(f) = whole
    BY <1>7, <2>1, <2>2
  <2> QED BY <2>3, NoneIsNoImage
<1>10. ReadGraph(f) # None => ReadGraph(f) = whole
  BY <1>7, <1>8
<1> QED BY <1>9, <1>10 DEF k

\* A file of Serialize or SerializeGraph, whatever failed while it was written,
\* either is rejected or is exactly what the save that created it was called
\* with, each pointer at its target in the new mapping; one whose save returned
\* without an error is not rejected.
THEOREM ImageReadable == Spec => []ReadableIsWritten
<1>1. ASSUME IInv, writer = "block", file # Absent
      PROVE  LET b == DecodeHeader(file)
             IN  /\ status = "whole" => b # None
                 /\ b # None => b = saved /\ RestorePointers(b.pointers) =
                                     [i \in DOMAIN saved.pointers |-> Base + saved.pointers[i]]
  <2> DEFINE b == DecodeHeader(file)  w == SerializeBlock(saved)
  <2>1. saved \in Blocks
    BY <1>1 DEF IInv, BlockInv
  <2>2. PICK n \in 0..Len(w) : file = SubSeq(w, 1, n) /\ (status = "whole" => n = Len(w))
    BY <1>1 DEF IInv, BlockInv
  <2>3. w \in Seq(Units) /\ Len(w) \in Nat
    BY <2>1, BlockUnits DEF Files
  <2> HIDE DEF w
  <2>4. n \in Nat /\ n <= Len(w) /\ file \in Seq(Units) /\ Len(file) = n /\ \A i \in 1..n : file[i] = w[i]
    BY <2>2, <2>3, SubSeqProperties
  <2>5. /\ n = Len(w) => b = saved /\ saved # None
        /\ n # Len(w) => b = None
    BY <2>1, <2>4, BlockRead DEF w
  <2> HIDE DEF b
  <2>6. status = "whole" => b # None
    BY <2>2, <2>5
  <2>7. b # None => b = saved
    BY <2>5
  <2>8. b # None => RestorePointers(b.pointers) = [i \in DOMAIN saved.pointers |-> Base + saved.pointers[i]]
    BY <2>7 DEF RestorePointers
  <2> QED BY <2>6, <2>7, <2>8 DEF b
<1>2. ASSUME IInv, writer = "graph", file # Absent
      PROVE  LET g == ReadGraph(file)
                 moved == RestoreGraphPointers(g.payload, g.relocations)
                 slots == {r.source : r \in Range(saved.relocations)}
             IN  /\ status = "whole" => g # None
                 /\ g # None =>
                       /\ g.root = Len(saved.root) /\ g.hash = saved.hash
                       /\ g.relocations = saved.relocations
                       /\ \A i \in DOMAIN GraphPayload(saved) :
                             IF i - 1 \in slots
                             THEN \E r \in Range(saved.relocations) :
                                     r.source = i - 1 /\ moved[i] = Base + r.target
                             ELSE moved[i] = GraphPayload(saved)[i]
  <2> DEFINE g == ReadGraph(file)
             s == saved.relocations
             moved == RestoreGraphPointers(g.payload, g.relocations)
             slots == {r.source : r \in Range(s)}
             whole == [payload |-> Relocated(saved), root |-> Len(saved.root), hash |-> saved.hash,
                       relocations |-> s]
  <2>1. saved \in Graphs /\ GraphFits(saved)
    BY <1>2 DEF IInv, GraphInv
  <2>2. PICK n \in 0..Len(Image(saved)), m \in 0..GraphHeader :
            /\ file = Patched(saved, n, m)
            /\ m > 0 => n = Len(Image(saved))
            /\ status = "whole" => n = Len(Image(saved)) /\ m = GraphHeader
    BY <1>2 DEF IInv, GraphInv
  <2>3. /\ g # None => g = whole
        /\ n = Len(Image(saved)) /\ m = GraphHeader => g # None
    <3>1. file = Patched(saved, n, m) /\ (m > 0 => n = Len(Image(saved)))
      BY <2>2
    <3>2. ASSUME NEW w, w = [payload |-> Relocated(saved), root |-> Len(saved.root), hash |-> saved.hash,
                             relocations |-> saved.relocations]
          PROVE  /\ ReadGraph(file) # None => ReadGraph(file) = w
                 /\ n = Len(Image(saved)) /\ m = GraphHeader => ReadGraph(file) # None
      <4> HIDE DEF g, s, moved, slots, whole
      <4> QED BY <2>1, <3>1, <3>2, GraphRead
    <3> QED BY <3>2
  <2> HIDE DEF g
  <2>4. status = "whole" => g # None
    BY <2>2, <2>3
  <2>5. g # None =>
          /\ g.root = Len(saved.root) /\ g.hash = saved.hash /\ g.relocations = s
          /\ g.payload = Relocated(saved)
    BY <2>3
  <2>6. /\ s \in Seq([source : Nat, target : Nat]) /\ GraphPayload(saved) \in Seq(Units)
        /\ Relocated(saved) \in Seq(Units) /\ Len(Relocated(saved)) = Len(GraphPayload(saved))
    BY <2>1, GraphParts
  <2>7. /\ DOMAIN GraphPayload(saved) = 1..Len(GraphPayload(saved))
        /\ \A k \in DOMAIN s : s[k] \in Range(s)
        /\ \A r \in Range(s) : \E k \in DOMAIN s : r = s[k]
    BY <2>6 DEF Range
  <2> HIDE DEF s
  <2>8. ASSUME g # None, NEW i \in 1..Len(GraphPayload(saved))
        PROVE  IF i - 1 \in slots
               THEN \E r \in Range(s) : r.source = i - 1 /\ moved[i] = Base + r.target
               ELSE moved[i] = GraphPayload(saved)[i]
    <3>1. moved = Relocate(Relocated(saved), s, Base)
      BY <2>5, <2>8 DEF RestoreGraphPointers
    <3>2. Base \in Nat /\ i \in 1..Len(Relocated(saved))
      BY <2>6, ImageAssumption
    <3>3. \/ \E k \in DOMAIN s : s[k].source = i - 1 /\ moved[i] = Base + s[k].target
          \/ (\A k \in DOMAIN s : s[k].source # i - 1) /\ moved[i] = Relocated(saved)[i]
      BY <2>6, <3>1, <3>2, RelocateUnits
    <3>4. \/ \E k \in DOMAIN s : s[k].source = i - 1
          \/ Relocated(saved)[i] = GraphPayload(saved)[i]
      <4>1. Relocated(saved) = Relocate(GraphPayload(saved), s, 0) /\ 0 \in Nat
        BY DEF Relocated, s
      <4> QED BY <2>6, <4>1, RelocateUnits, SMTT(40)
    <3> HIDE DEF moved
    <3>5. i - 1 \in slots <=> \E k \in DOMAIN s : s[k].source = i - 1
      BY <2>7
    <3>6. CASE \E k \in DOMAIN s : s[k].source = i - 1
      <4>1. PICK k \in DOMAIN s : s[k].source = i - 1 /\ moved[i] = Base + s[k].target
        BY <3>3, <3>6
      <4>2. \E r \in Range(s) : r.source = i - 1 /\ moved[i] = Base + r.target
        BY <2>7, <4>1
      <4> QED BY <3>5, <3>6, <4>2
    <3>7. CASE ~ \E k \in DOMAIN s : s[k].source = i - 1
      BY <3>3, <3>4, <3>5, <3>7
    <3> QED BY <3>6, <3>7
  <2> HIDE DEF moved, slots
  <2>9. g # None => \A i \in DOMAIN GraphPayload(saved) :
                      IF i - 1 \in slots
                      THEN \E r \in Range(s) : r.source = i - 1 /\ moved[i] = Base + r.target
                      ELSE moved[i] = GraphPayload(saved)[i]
    BY <2>7, <2>8
  <2> QED BY <2>4, <2>5, <2>9 DEF g, moved, slots, s
<1>3. IInv => ReadableIsWritten
  BY <1>1, <1>2 DEF ReadableIsWritten
<1> QED BY <1>3, ImageInvariant, PTL
=============================================================================
