------------------------------ MODULE HikeImage ------------------------------
(***************************************************************************)
(* Memory images on disk.  Three writers make them: Serialize and          *)
(* SerializeGraph of pkg/memoryblock, and the code the compiler generates  *)
(* for memorymap.MappedSerialize of a group of mapped variables, which     *)
(* calls the runtime's __hike_mapped_graph_save, _string_append and        *)
(* _finalize.  Each writes its file in a few steps; a step may fail part   *)
(* way, and the process may die in it or between two of them.              *)
(*                                                                         *)
(* A file is a sequence of units: header fields, pointer-sized slots,      *)
(* elements of payloads.  Offsets and lengths count units, from 0.         *)
(***************************************************************************)
EXTENDS Integers, SequencesExt

CONSTANTS Writers,     \* of "block", "graph" and "mapped"
          Elements,    \* what an element of a payload may be
          Blocks,      \* what Serialize is called with
          Graphs,      \* what SerializeGraph is called with
          Fields,      \* the mapped variables with a payload, in their order
          Slices,      \* those of them that are slices; the others are strings
          Numbers,     \* the values of the one mapped variable without payload
          Texts,       \* the payloads: sequences of elements
          Schemas,     \* the schema hashes of versions of the program
          Leftovers,   \* what a new stack buffer may hold where a root is read
          Null,        \* an element of a slice without data
          Garbage,     \* an element read as a number
          Junk,        \* a field of a header or a number read as an element
          Base,        \* the address an image is mapped at
          MaxFailures  \* how many writes may fail

ASSUME ImageAssumption ==
    /\ Writers \subseteq {"block", "graph", "mapped"}
    /\ \A e \in Elements \union {Null, Junk} : e \notin Int /\ e # "absent"
    /\ Blocks \subseteq [data : Seq(Elements), pointers : Seq(Nat)]
    /\ Graphs \subseteq [root : Seq(Elements \union Nat), heap : Seq(Seq(Elements \union Nat)),
                         relocations : Seq([source : Nat, target : Nat]), hash : Int]
    /\ Fields \in Seq(STRING \ {"num"}) /\ Slices \subseteq Range(Fields)
    /\ \A i, j \in DOMAIN Fields : Fields[i] = Fields[j] => i = j
    /\ Numbers \subseteq Int /\ Texts \subseteq Seq(Elements) /\ Schemas \subseteq Int
    /\ Base \in Nat /\ MaxFailures \in Nat

\* A stack buffer may hold any numbers.
ASSUME LeftoversAssumption ==
    /\ Garbage \in Int
    /\ \A b \in Leftovers : b \in Seq(Int) /\ Len(b) = 1 + 2 * Len(Fields)

VARIABLES writer,
          file,        \* the file, or Absent
          steps,       \* the writes that remain of a save
          saving,      \* what the save in progress is to write
          saved,       \* what the file was last created for
          status,      \* what became of the save that created the file
          globals,     \* the mapped variables
          schema,      \* the schema hash in the running program
          failures

vars == <<writer, file, steps, saving, saved, status, globals, schema, failures>>

Absent == <<"absent">>
None   == [none |-> TRUE]
Unset  == -1           \* a field of a header that the writer left undefined

Flat(seqs) ==
    LET first[n \in 0..Len(seqs)] == IF n = 0 THEN <<>> ELSE first[n - 1] \o seqs[n]
    IN  first[Len(seqs)]

Slot(units, i) == units[i + 1]

---------------------------------------------------------------------------
(* Blocks (format.go): header, payload, offsets of the pointers in it.     *)

BlockHeader == 4

SerializeBlock(b) ==
    <<"HMB1", 1, Len(b.data), Len(b.pointers)>> \o b.data \o b.pointers

BlockFits(b) == \A i \in DOMAIN b.pointers : b.pointers[i] < Len(b.data)

DecodeHeader(f) ==
    LET end == BlockHeader + f[3]
    IN  IF Len(f) < BlockHeader \/ f[1] # "HMB1" \/ f[2] # 1 \/ end + f[4] # Len(f) THEN None
        ELSE [data |-> SubSeq(f, BlockHeader + 1, end), pointers |-> SubSeq(f, end + 1, Len(f))]

RestorePointers(offsets) == [i \in DOMAIN offsets |-> Base + offsets[i]]

---------------------------------------------------------------------------
(* Graphs (graph.go).  The header: magic, version, size of the root, size  *)
(* of the heap, number of relocations, size of the payload, schema, place  *)
(* and size of the relocations.  A relocation is two units.                *)

GraphHeader == 9

Header(root, heap, count, payload, hash, at, bytes) ==
    <<"HMB3", 3, root, heap, count, payload, hash, at, bytes>>

GraphPayload(g) == g.root \o Flat(g.heap)

GraphFits(g) ==
    \A i \in DOMAIN g.relocations :
        /\ g.relocations[i].source <= Len(GraphPayload(g)) - 1
        /\ g.relocations[i].target < Len(GraphPayload(g))

\* The relocations in their order; of several for a slot the last one stays.
Relocate(payload, relocations, base) ==
    LET OfSlot(i) == {k \in DOMAIN relocations : relocations[k].source = i - 1}
    IN  [i \in DOMAIN payload |->
            IF OfSlot(i) = {} THEN payload[i] ELSE base + relocations[Max(OfSlot(i))].target]

\* The pointer slots hold the places in the payload that they point to.
Relocated(g) == Relocate(GraphPayload(g), g.relocations, 0)

RelocationTable(g) ==
    [k \in 1..(2 * Len(g.relocations)) |->
        LET i == (k + 1) \div 2
        IN  IF k = 2 * i THEN g.relocations[i].target ELSE g.relocations[i].source]

\* The table's place and size are patched into the header afterwards.
FirstHeader(g) ==
    Header(Len(g.root), Len(Flat(g.heap)), 0, Len(GraphPayload(g)), g.hash, 0, 0)

PatchedHeader(g) ==
    LET payload == Len(GraphPayload(g))
        count   == Len(g.relocations)
    IN  Header(Len(g.root), Len(Flat(g.heap)), count, payload, g.hash, GraphHeader + payload, 2 * count)

RelocationsOf(f, at, count) ==
    [i \in 1..count |-> [source |-> Slot(f, at + 2 * (i - 1)), target |-> Slot(f, at + 2 * i - 1)]]

\* For a mutation: only the sizes of the payload are looked at.
ReadGraphTrusting(f) ==
    IF Len(f) < GraphHeader \/ f[1] # "HMB3" \/ f[2] # 3 \/ Len(f) < GraphHeader + f[6] THEN None
    ELSE [payload |-> SubSeq(f, GraphHeader + 1, GraphHeader + f[6]), root |-> f[3], hash |-> f[7],
          relocations |-> RelocationsOf(f, GraphHeader + f[6], f[5])]

ReadGraph(f) ==
    LET root == f[3]  heap == f[4]  count == f[5]  payload == f[6]  at == f[8]  bytes == f[9]
        relocations == RelocationsOf(f, at, count)
    IN  IF Len(f) < GraphHeader \/ f[1] # "HMB3" \/ f[2] # 3 THEN None
        ELSE IF payload # root + heap \/ bytes # 2 * count \/ at # GraphHeader + payload
                \/ at + bytes # Len(f) THEN None
        ELSE IF \E i \in 1..count : \/ relocations[i].source > payload - 1
                                    \/ relocations[i].target >= payload THEN None
        ELSE [payload |-> SubSeq(f, GraphHeader + 1, at), root |-> root, hash |-> f[7],
              relocations |-> relocations]

RestoreGraphPointers(payload, relocations) == Relocate(payload, relocations, Base)

---------------------------------------------------------------------------
(* Mapped variables.  The root holds the number, and of each payload its   *)
(* offset behind the header and its length.                                *)

RootSize == 1 + 2 * Len(Fields)

\* For a mutation: every payload is said to be the first one.
OffsetFirst(g, i) == RootSize

Offset(g, i) ==
    LET at[j \in 1..(Len(Fields) + 1)] ==
            IF j = 1 THEN RootSize ELSE at[j - 1] + Len(g[Fields[j - 1]])
    IN  at[i]

Root(g) ==
    [p \in 1..RootSize |->
        LET i == p \div 2
        IN  IF p = 1 THEN g.num ELSE IF p = 2 * i THEN Offset(g, i) ELSE Len(g[Fields[i]])]

MappedHeader(hash) == Header(RootSize, Unset, Unset, Unset, hash, Unset, Unset)

\* The size of the file is taken for the place of the relocations.
FinalHeader(hash, size) ==
    LET payload == size - RootSize - GraphHeader
    IN  Header(RootSize, payload, Unset, payload, hash, size, 0)

RootOK(f, hash) == Len(f) >= GraphHeader /\ f[1] = "HMB3" /\ f[2] = 3 /\ f[3] = RootSize /\ f[7] = hash

\* The header and the root of the file can be read.
RootReadable == file # Absent /\ RootOK(file, schema) /\ Len(file) >= GraphHeader + RootSize

\* What the buffer holds after the root has been read into it, its own former
\* content where there was nothing to read.
Buffer(before) ==
    LET n == IF file = Absent \/ ~RootOK(file, schema) THEN 0
             ELSE IF RootReadable THEN RootSize ELSE Len(file) - GraphHeader
    IN  SubSeq(file, GraphHeader + 1, GraphHeader + n) \o SubSeq(before, n + 1, RootSize)

Element(unit) == IF unit \in Elements \union {Null} THEN unit ELSE Junk

\* For a mutation: a slice that cannot be read has undefined elements.
LoadPayloadUndefined(field, offset, length) ==
    LET at == GraphHeader + offset
    IN  IF file # Absent /\ at >= 0 /\ at + length <= Len(file)
        THEN [i \in 1..length |-> Element(file[at + i])]
        ELSE IF field \in Slices THEN [i \in 1..length |-> Unset] ELSE <<>>

\* For a mutation: what there is of the payload is taken for all of it.
LoadPayloadPartial(field, offset, length) ==
    LET at  == GraphHeader + offset
        end == IF at + length > Len(file) THEN Len(file) ELSE at + length
    IN  IF file # Absent /\ at >= 0 THEN [i \in 1..(end - at) |-> Element(file[at + i])] ELSE <<>>

\* What cannot be read is an empty string, or a slice of that length without data.
LoadPayload(field, offset, length) ==
    LET at == GraphHeader + offset
    IN  IF file # Absent /\ at >= 0 /\ at + length <= Len(file)
        THEN [i \in 1..length |-> Element(file[at + i])]
        ELSE IF field \in Slices THEN [i \in 1..length |-> Null] ELSE <<>>

FieldNames == Range(Fields)
Variables == {"num"} \union FieldNames
Index(field) == CHOOSE i \in DOMAIN Fields : Fields[i] = field

Number(unit) == IF unit \in Int THEN unit ELSE Garbage

Loaded(buffer) ==
    [x \in Variables |->
        IF x = "num" THEN Number(buffer[1])
        ELSE LoadPayload(x, Number(buffer[2 * Index(x)]), Number(buffer[2 * Index(x) + 1]))]

---------------------------------------------------------------------------
(* Saving.                                                                 *)

StepsOfSave ==
    CASE writer = "block"  -> << <<"create", "block">> >>
      [] writer = "graph"  -> << <<"create", "graph">>, <<"update", "patch">> >>
      [] writer = "mapped" -> << <<"create", "root">> >> \o [i \in DOMAIN Fields |-> <<"append", Fields[i]>>]
                                 \o << <<"update", "final">> >>

Content(what) ==
    CASE what = "block" -> SerializeBlock(saving)
      [] what = "graph" -> FirstHeader(saving) \o Relocated(saving) \o RelocationTable(saving)
      [] what = "patch" -> PatchedHeader(saving)
      [] what = "root"  -> MappedHeader(schema) \o Root(globals)
      [] what = "final" -> FinalHeader(schema, Len(file))

How  == Head(steps)[1]
What == IF How = "append" THEN globals[Head(steps)[2]] ELSE Content(Head(steps)[2])

\* To update a file that is not there is an error; to read the elements of a
\* slice without data kills the process.
Opens == How = "update" => file # Absent
Sound == How = "append" /\ Head(steps)[2] \in Slices => \A i \in DOMAIN What : What[i] # Null

\* The file after units have reached it.
Written(how, units) ==
    IF file = Absent \/ how = "create" THEN units
    ELSE IF how = "append" THEN file \o units ELSE units \o SubSeq(file, Len(units) + 1, Len(file))

\* The next write reaches the file with its first n units; it has the given
\* outcome unless an earlier one of the save had another.
Reach(n, outcome) ==
    /\ file' = Written(How, SubSeq(What, 1, n))
    /\ IF How = "create" THEN saved' = saving /\ status' = outcome
       ELSE /\ saved' = saved
            /\ status' = CASE file = Absent -> "short" [] status = "writing" -> outcome [] OTHER -> status

Values == {[x \in Variables |-> IF x = "num" THEN n ELSE t[x]] :
              n \in Numbers, t \in [FieldNames -> Texts]}

Start == [x \in Variables |-> IF x = "num" THEN 0 ELSE <<>>]

Init == /\ writer \in Writers /\ file = Absent /\ steps = <<>>
        /\ saving = None /\ saved = None /\ status = "none"
        /\ globals = Start /\ schema \in Schemas /\ failures = 0

Assign == /\ writer = "mapped" /\ steps = <<>>
          /\ globals' \in Values
          /\ UNCHANGED <<writer, file, steps, saving, saved, status, schema, failures>>

Save(content) == /\ steps = <<>>
                 /\ saving' = content /\ steps' = StepsOfSave
                 /\ UNCHANGED <<writer, file, saved, status, globals, schema, failures>>

\* The save of something whose pointers are out of range is refused.
Serialize       == writer = "block" /\ \E b \in Blocks : BlockFits(b) /\ Save(b)
SerializeGraph  == writer = "graph" /\ \E g \in Graphs : GraphFits(g) /\ Save(g)
MappedSerialize == writer = "mapped" /\ Save([value |-> globals, hash |-> schema])

Write == /\ steps # <<>> /\ Opens /\ Sound
         /\ steps' = Tail(steps)
         /\ Reach(Len(What), IF steps' = <<>> THEN "whole" ELSE "writing")
         /\ saving' = IF steps' = <<>> THEN None ELSE saving
         /\ UNCHANGED <<writer, globals, schema, failures>>

\* The file cannot be opened, or takes only some of the units.  The Go code
\* returns the error; the generated code goes on with the next write.
WriteFails == /\ steps # <<>> /\ Sound
              /\ \/ /\ ~Opens /\ UNCHANGED <<file, saved, status, failures>>
                 \/ /\ failures < MaxFailures /\ failures' = failures + 1
                    /\ \/ UNCHANGED <<file, saved>> /\ status' = IF file = Absent THEN status ELSE "short"
                       \/ Opens /\ \E n \in 0..(Len(What) - 1) : Reach(n, "short")
              /\ steps' = IF writer = "mapped" THEN Tail(steps) ELSE <<>>
              /\ saving' = IF steps' = <<>> THEN None ELSE saving
              /\ UNCHANGED <<writer, globals, schema>>

\* The process dies, in a write or between two; the next one may be another
\* version of the program.
Crash == /\ \/ UNCHANGED <<file, saved>> /\ status' = IF status = "writing" THEN "torn" ELSE status
            \/ steps # <<>> /\ Opens /\ Sound /\ \E n \in 0..Len(What) : Reach(n, "torn")
         /\ steps' = <<>> /\ saving' = None
         /\ globals' = Start /\ schema' \in Schemas
         /\ UNCHANGED <<writer, failures>>

\* Every variable is overwritten, whatever the runtime's calls return.
MappedDeserialize == /\ writer = "mapped" /\ steps = <<>>
                     /\ \E before \in Leftovers : globals' = Loaded(Buffer(before))
                     /\ UNCHANGED <<writer, file, steps, saving, saved, status, schema, failures>>

Next == \/ Assign \/ Serialize \/ SerializeGraph \/ MappedSerialize
        \/ Write \/ WriteFails \/ Crash \/ MappedDeserialize

Spec == Init /\ [][Next]_vars

---------------------------------------------------------------------------
(* Properties.                                                             *)

\* Types: a file is there as soon as a save has created one, and a payload
\* variable only ever holds elements or lacks its data, whatever was on the
\* stack when it was loaded (LoadPayload).
TypeOK ==
    /\ file = Absent <=> status = "none"
    /\ status \in {"none", "writing", "whole", "short", "torn"}
    /\ globals.num \in Int /\ schema \in Schemas /\ failures \in 0..MaxFailures
    /\ \A x \in FieldNames : \A i \in DOMAIN globals[x] : globals[x][i] \in Elements \union {Null, Junk}

\* A save that ran to its end without an error, loaded by any later process of
\* a program with the same schema, gives back every variable (the offsets that
\* MappedSerialize computes are where its appends put the payloads).
RoundTrip ==
    [][MappedDeserialize /\ status = "whole" /\ schema = saved.hash
           => globals' = saved.value]_vars

Lacking(x, n) == IF x \in Slices THEN [i \in 1..n |-> Null] ELSE <<>>

\* Of a file that a dying process left, whose header and root are there, each
\* payload is loaded as the save meant it or is found missing: never that of
\* an earlier save, never a part of it, never that of another variable.
NeverMixed ==
    [][MappedDeserialize /\ RootReadable /\ status # "short"
           => /\ globals'.num = saved.value.num
              /\ \A x \in FieldNames :
                    globals'[x] \in {saved.value[x], Lacking(x, Len(saved.value[x]))}]_vars

\* A file of Serialize or SerializeGraph, whatever failed while it was written,
\* either is rejected or is exactly what the save that created it was called
\* with, each pointer at its target in the new mapping; one whose save returned
\* without an error is not rejected.
ReadableIsWritten ==
    /\ writer = "block" /\ file # Absent =>
          LET b == DecodeHeader(file)
          IN  /\ status = "whole" => b # None
              /\ b # None => b = saved /\ RestorePointers(b.pointers) =
                                  [i \in DOMAIN saved.pointers |-> Base + saved.pointers[i]]
    /\ writer = "graph" /\ file # Absent =>
          LET g == ReadGraph(file)
              moved == RestoreGraphPointers(g.payload, g.relocations)
              slots == {r.source : r \in Range(saved.relocations)}
          IN  /\ status = "whole" => g # None
              /\ g # None =>
                    /\ g.root = Len(saved.root) /\ g.hash = saved.hash
                    /\ g.relocations = saved.relocations
                    /\ \A i \in DOMAIN GraphPayload(saved) :
                          IF i - 1 \in slots
                          THEN \E r \in Range(saved.relocations) :
                                  r.source = i - 1 /\ moved[i] = Base + r.target
                          ELSE moved[i] = GraphPayload(saved)[i]
=============================================================================
