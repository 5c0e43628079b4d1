------------------------------ MODULE HikeArea ------------------------------
(***************************************************************************)
(* Areas: lexical blocks whose allocations come from a buffer and end with *)
(* the block.  An area in an area takes half of what the outer one has     *)
(* left and gives it back by restoring the cursor.  The compiler keeps the *)
(* areas open in a function on a stack of its own (areaStack) and emits an *)
(* end at the end of the block and, innermost first, before every return   *)
(* and panic; break and continue emit none.  Functions call each other     *)
(* with areas open, on several threads.                                    *)
(***************************************************************************)
EXTENDS Integers, Sequences, FiniteSets

CONSTANTS
  Threads,
  Buffers,      \* what malloc may return for the buffer of an area
  KiB,          \* sizes that area(...) is given; 0 when it is given none
  Sizes,        \* sizes in bytes of the types that are allocated
  \* Bounds: open areas, calls of each thread that have not returned,
  \* allocations in areas, allocations on the heap.
  MaxAreas, MaxCalls, MaxLive, MaxSpilt

ASSUME AreaAssumption ==
  /\ KiB \subseteq Nat
  /\ Sizes \subseteq Nat

VARIABLES
  areas,        \* of each thread, the open areas, innermost last
  given,        \* for each of them the memory it has given out (history)
  calls,        \* of each thread, how many areas were open at each call
  exiting,      \* the function of the thread is on its way out
  heap,         \* the size of each buffer, 0 when it is free
  spilt,        \* blocks of the heap for what fits into no area
  left          \* threads that have left a loop from inside an area (history)

vars == <<areas, given, calls, exiting, heap, spilt, left>>

\* struct.__hike_area: where its memory is, the bytes used and available, the
\* area around it in the same function (0 is null), and that one's cursor.
Area ==
  [buf : Buffers, base : Nat, used : Nat, cap : Nat, parent : Nat, start : Nat]

Capacity(k) == IF k = 0 THEN 16384 ELSE k * 1024

AlignUp(n) == ((n + 7) \div 8) * 8

-----------------------------------------------------------------------------
\* The areas that were open when the current function was called.
Floor(t) == calls[t][Len(calls[t])]

\* Mutant: areaStack is not emptied at the beginning of a function.
ParentOfCaller(t) == Len(areas[t])

\* The last of areaStack, which is empty at the beginning of a function.
Parent(t) == IF Len(areas[t]) > Floor(t) THEN Len(areas[t]) ELSE 0

Open(t) == Len(areas[t]) > Floor(t)

Init ==
  /\ areas = [t \in Threads |-> << >>]
  /\ given = [t \in Threads |-> << >>]
  /\ calls = [t \in Threads |-> <<0>>]
  /\ exiting = [t \in Threads |-> FALSE]
  /\ heap = [b \in Buffers |-> 0]
  /\ spilt = 0
  /\ left = {}

OpenAreas == UNION {{<<t, i>> : i \in 1..Len(areas[t])} : t \in Threads}

Push(t, outer, area) ==
  /\ Cardinality(OpenAreas) < MaxAreas
  /\ areas' = [areas EXCEPT ![t] = Append(outer, area)]
  /\ given' = [given EXCEPT ![t] = Append(@, << >>)]
  /\ UNCHANGED <<calls, exiting, spilt, left>>

\* __hike_area_begin without a parent.
BeginRoot(t, k, b) ==
  /\ ~exiting[t] /\ Parent(t) = 0
  /\ heap[b] = 0
  /\ heap' = [heap EXCEPT ![b] = Capacity(k)]
  /\ Push(t, areas[t], [buf |-> b, base |-> 0, used |-> 0, cap |-> Capacity(k),
                        parent |-> 0, start |-> 0])

Half(area) == (area.cap - area.used) \div 2

\* __hike_area_begin with a parent.  The size it is given has no effect.
BeginNested(t) ==
  /\ ~exiting[t] /\ Parent(t) # 0
  /\ LET p     == Parent(t)
         outer == areas[t][p]
     IN  Push(t, [areas[t] EXCEPT ![p].used = @ + Half(outer)],
                 [buf |-> outer.buf, base |-> outer.base + outer.used, used |-> 0,
                  cap |-> Half(outer), parent |-> p, start |-> outer.used])
  /\ UNCHANGED heap

\* The cursor after an allocation of n bytes.
Next8(area, n) == AlignUp(area.used) + n

\* Mutant: the test leaves out the alignment.
FitsUnaligned(area, n) == area.used + n <= area.cap

Fits(area, n) == Next8(area, n) <= area.cap

\* What is alive: of each open area of each thread, each of its allocations.
Live == UNION {UNION {{<<t, i, j>> : j \in DOMAIN given[t][i]} : i \in DOMAIN given[t]}
                 : t \in Threads}

\* __hike_area_alloc, always of the innermost area.
AreaAlloc(t, n) ==
  LET i == Len(areas[t])
      a == areas[t][i]
  IN  /\ ~exiting[t] /\ Open(t)
      /\ Fits(a, n)
      /\ Cardinality(Live) < MaxLive
      /\ areas' = [areas EXCEPT ![t][i].used = Next8(a, n)]
      /\ given' = [given EXCEPT ![t][i] =
                     Append(@, [lo |-> a.base + AlignUp(a.used), hi |-> a.base + Next8(a, n)])]
      /\ UNCHANGED <<calls, exiting, heap, spilt, left>>

\* Its fallback: a block of the heap, which the end of the area does not free.
AreaSpill(t, n) ==
  /\ ~exiting[t] /\ Open(t)
  /\ ~Fits(areas[t][Len(areas[t])], n)
  /\ spilt < MaxSpilt
  /\ spilt' = spilt + 1
  /\ UNCHANGED <<areas, given, calls, exiting, heap, left>>

Keep(t, k) ==
  /\ given' = [given EXCEPT ![t] = SubSeq(@, 1, k)]
  /\ UNCHANGED <<calls, exiting, spilt>>

\* Mutant: the cursor of the parent stays where it is.
EndNestedKeeping(t) ==
  LET i == Len(areas[t])
  IN  /\ Open(t) /\ areas[t][i].parent # 0
      /\ areas' = [areas EXCEPT ![t] = SubSeq(@, 1, i - 1)]
      /\ Keep(t, i - 1)
      /\ UNCHANGED <<heap, left>>

\* __hike_area_end, at the end of the block or on the way out of the function.
EndNested(t) ==
  LET i == Len(areas[t])
      a == areas[t][i]
  IN  /\ Open(t) /\ a.parent # 0
      /\ areas' = [areas EXCEPT ![t] =
                     [SubSeq(@, 1, i - 1) EXCEPT ![a.parent].used = a.start]]
      /\ Keep(t, i - 1)
      /\ UNCHANGED <<heap, left>>

EndRoot(t) ==
  LET i == Len(areas[t])
      a == areas[t][i]
  IN  /\ Open(t) /\ a.parent = 0
      /\ heap' = [heap EXCEPT ![a.buf] = 0]
      /\ areas' = [areas EXCEPT ![t] = SubSeq(@, 1, i - 1)]
      /\ Keep(t, i - 1)
      /\ UNCHANGED left

\* break or continue: the first k areas of the thread are around the loop.
Leave(t, k) ==
  /\ ~exiting[t]
  /\ k < Len(areas[t])
  /\ areas' = [areas EXCEPT ![t] = SubSeq(@, 1, k)]
  /\ Keep(t, k)
  /\ left' = left \cup {t}
  /\ UNCHANGED heap

Call(t) ==
  /\ ~exiting[t]
  /\ Len(calls[t]) < MaxCalls
  /\ calls' = [calls EXCEPT ![t] = Append(@, Len(areas[t]))]
  /\ UNCHANGED <<areas, given, exiting, heap, spilt, left>>

\* return or panic: terminate ends the areas of areaStack first.
Exit(t) ==
  /\ ~exiting[t]
  /\ exiting' = [exiting EXCEPT ![t] = TRUE]
  /\ UNCHANGED <<areas, given, calls, heap, spilt, left>>

\* The function that a thread begins with is not called by any other; it is
\* run again.
Return(t) ==
  /\ exiting[t] /\ ~Open(t)
  /\ exiting' = [exiting EXCEPT ![t] = FALSE]
  /\ calls' = IF Len(calls[t]) = 1 THEN calls
              ELSE [calls EXCEPT ![t] = SubSeq(@, 1, Len(@) - 1)]
  /\ UNCHANGED <<areas, given, heap, spilt, left>>

Next ==
  \E t \in Threads :
    \/ \E k \in KiB, b \in Buffers : BeginRoot(t, k, b)
    \/ BeginNested(t)
    \/ \E n \in Sizes : AreaAlloc(t, n) \/ AreaSpill(t, n)
    \/ EndNested(t)
    \/ EndRoot(t)
    \/ \E k \in Floor(t)..Len(areas[t]) : Leave(t, k)
    \/ Call(t)
    \/ Exit(t)
    \/ Return(t)

Spec == Init /\ [][Next]_vars

-----------------------------------------------------------------------------
(* Properties                                                              *)

Extent == [lo : Nat, hi : Nat]

\* The cursor of the i-th of the open areas A.  While a nested area is open,
\* half of what is left counts as used: the cursor proper is where it begins.
Cursor(A, i) ==
  IF i < Len(A) /\ A[i + 1].parent = i THEN A[i + 1].start ELSE A[i].used

\* Types; no area uses more than it has, and an area that was open at a call
\* is open until the return.
TypeOK ==
  /\ areas \in [Threads -> Seq(Area)]
  /\ given \in [Threads -> Seq(Seq(Extent))]
  /\ calls \in [Threads -> Seq(Nat)]
  /\ exiting \in [Threads -> BOOLEAN]
  /\ heap \in [Buffers -> Nat]
  /\ spilt \in Nat
  /\ left \subseteq Threads
  /\ \A t \in Threads :
       /\ Len(given[t]) = Len(areas[t])
       /\ Len(calls[t]) > 0
       /\ \A c \in 1..Len(calls[t]) : calls[t][c] <= Len(areas[t])
       /\ \A i \in 1..Len(areas[t]) : areas[t][i].used <= areas[t][i].cap

Memory(l) == given[l[1]][l[2]][l[3]]
BufferOf(l) == areas[l[1]][l[2]].buf

\* Two values that are alive do not share a byte: whether they are of one
\* area, of an area and one nested in it, of a function and its caller, or of
\* two threads, and whatever areas have been left in between.
NonOverlap ==
  \A l, m \in Live : l # m /\ BufferOf(l) = BufferOf(m) =>
    Memory(l).hi <= Memory(m).lo \/ Memory(m).hi <= Memory(l).lo

\* A value that is alive lies within a buffer that has not been freed.
NoDangling ==
  \A l \in Live : heap[BufferOf(l)] > 0 /\ Memory(l).hi <= heap[BufferOf(l)]

\* Memory is safe: no two live values overlap and none dangles.
MemorySafe == TypeOK /\ NonOverlap /\ NoDangling

\* An area ends with its last allocation: what areas nested in it had taken
\* has come back to it.  (A break or continue out of a nested area leaves the
\* half it had taken in use.)
Restored ==
  \A t \in Threads \ left : \A i \in 1..Len(areas[t]) :
    LET n == Len(given[t][i])
    IN  areas[t][i].base + Cursor(areas[t], i) = IF n = 0 THEN areas[t][i].base ELSE given[t][i][n].hi

\* Every buffer belongs to an area that is open.  (One whose area is left by
\* break or continue is never freed.)
Released ==
  left = {} => \A b \in Buffers : heap[b] > 0 =>
                 \E t \in Threads : \E i \in 1..Len(areas[t]) : areas[t][i].buf = b

\* What an area has taken, of its parent or of the heap, comes back when it
\* ends, unless it was left by break or continue.
GivenBack == Restored /\ Released

\* A function leaves the areas of its callers as they are.
CallerUntouched ==
  [][\A t \in Threads :
       /\ SubSeq(areas'[t], 1, Floor(t)) = SubSeq(areas[t], 1, Floor(t))
       /\ SubSeq(given'[t], 1, Floor(t)) = SubSeq(given[t], 1, Floor(t))]_vars
=============================================================================
