----------------------------- MODULE MCHikeImage -----------------------------
(* Images of a block, of a graph, and of a mapped number, string and slice,  *)
(* the two with payloads of up to two elements.                              *)
EXTENDS HikeImage

CONSTANTS ea, eb

MappedFields == <<"name", "list">>
TwoTexts     == {<<ea>>, <<eb, eb>>}

\* The stack holds a root read or made earlier, or numbers that name parts of
\* the header and of the root.
StackBuffers == {<<1, 5, 1, 6, 2>>, <<1, -2, 1, 6, 2>>}

SmallBlocks == {[data |-> d, pointers |-> p] :
                    d \in {<<ea>>, <<ea, eb>>}, p \in {<<>>, <<0>>, <<1, 0>>, <<2>>}}

Reloc(s, t) == [source |-> s, target |-> t]

\* A root of two units, heap objects of one and none, relocations within the
\* root, to the heap, from the heap, twice from one slot, and out of range.
SmallGraphs == {[root |-> <<0, ea>>, heap |-> h, relocations |-> r, hash |-> 7] :
                    h \in {<<>>, <<<<eb>>>>, <<<<eb>>, <<>>, <<0>>>>},
                    r \in {<<>>, <<Reloc(0, 1)>>, <<Reloc(0, 2)>>, <<Reloc(0, 1), Reloc(2, 0)>>,
                           <<Reloc(0, 1), Reloc(0, 0)>>, <<Reloc(3, 2)>>}}
=============================================================================
