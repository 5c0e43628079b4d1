--------------------------- MODULE HikeAreaProofs ---------------------------
(***************************************************************************)
(* Proofs about HikeArea for every set of threads, every nesting of areas  *)
(* and calls, and allocations of any size.  Most of the argument is about  *)
(* one stack of areas A, what each of them has given out (G), the number   *)
(* of areas at each call (C) and the sizes of the buffers (H).             *)
(***************************************************************************)
EXTENDS HikeArea, TLAPS

-----------------------------------------------------------------------------
(* The inductive invariant                                                 *)

\* An area lies within a buffer that has not been freed.
Within(A, H) ==
  \A i \in 1..Len(A) : /\ A[i].used <= A[i].cap
                       /\ H[A[i].buf] > 0
                       /\ A[i].base + A[i].cap <= H[A[i].buf]

\* An area with a parent begins at its cursor, in the same buffer.
Nested(A) ==
  \A i \in 1..Len(A) : A[i].parent # 0 =>
    /\ i > 1 /\ A[i].parent = i - 1
    /\ A[i].buf = A[i - 1].buf
    /\ A[i].base = A[i - 1].base + A[i].start
    /\ A[i].start <= A[i - 1].used

\* An area without a parent shares its buffer with none below it.
Separate(A) ==
  \A i, j, k \in 1..Len(A) : i < k /\ k <= j /\ A[k].parent = 0 => A[i].buf # A[j].buf

\* In one buffer, an area begins behind the cursors of those below it.
Above(A) ==
  \A i, k \in 1..Len(A) : i < k /\ A[i].buf = A[k].buf =>
    A[i].base + Cursor(A, i) <= A[k].base

\* What has been given out lies between the area's base and its cursor, one
\* allocation after the other.
Filled(A, G) ==
  \A i \in 1..Len(A) : \A j \in 1..Len(G[i]) :
    /\ A[i].base <= G[i][j].lo /\ G[i][j].lo <= G[i][j].hi
    /\ G[i][j].hi <= A[i].base + Cursor(A, i)
    /\ \A k \in 1..Len(G[i]) : j < k => G[i][j].hi <= G[i][k].lo

\* The first area of a function has no parent; a function is called with no
\* fewer areas open than those that called it.
Roots(A, C) ==
  \A c \in 1..Len(C) : /\ \A d \in 1..c : C[d] <= C[c]
                       /\ C[c] < Len(A) => A[C[c] + 1].parent = 0

StackInv(A, G, C, H) ==
  Within(A, H) /\ Nested(A) /\ Separate(A) /\ Above(A) /\ Filled(A, G) /\ Roots(A, C)

\* Two threads have no buffer in common.
Foreign ==
  \A t, u \in Threads : t # u =>
    \A i \in 1..Len(areas[t]), k \in 1..Len(areas[u]) : areas[t][i].buf # areas[u][k].buf

\* What a stack is, with its types.
StackOK(A, G, C, H) ==
  /\ A \in Seq(Area) /\ G \in Seq(Seq(Extent)) /\ C \in Seq(Nat)
  /\ Len(G) = Len(A) /\ Len(C) > 0
  /\ \A c \in 1..Len(C) : C[c] <= Len(A)
  /\ StackInv(A, G, C, H)

IInv ==
  /\ areas \in [Threads -> Seq(Area)] /\ given \in [Threads -> Seq(Seq(Extent))]
  /\ calls \in [Threads -> Seq(Nat)] /\ exiting \in [Threads -> BOOLEAN]
  /\ heap \in [Buffers -> Nat] /\ spilt \in Nat
  /\ \A t \in Threads : StackOK(areas[t], given[t], calls[t], heap)
  /\ Foreign

-----------------------------------------------------------------------------
(* One stack of areas                                                      *)

\* The fields of the areas.
Fields(A) ==
  \A i \in 1..Len(A) :
    /\ A[i].buf \in Buffers /\ A[i].base \in Nat /\ A[i].used \in Nat
    /\ A[i].cap \in Nat /\ A[i].parent \in Nat /\ A[i].start \in Nat

LEMMA FieldsOf ==
  ASSUME NEW A \in Seq(Area)
  PROVE  Fields(A)
<1> SUFFICES ASSUME NEW i \in 1..Len(A)
             PROVE  /\ A[i].buf \in Buffers /\ A[i].base \in Nat /\ A[i].used \in Nat
                    /\ A[i].cap \in Nat /\ A[i].parent \in Nat /\ A[i].start \in Nat
  BY DEF Fields
<1>1. A[i] \in Area
  OBVIOUS
<1> QED BY <1>1 DEF Area

LEMMA ExtentsOf ==
  ASSUME NEW G \in Seq(Seq(Extent)), NEW i \in 1..Len(G), NEW j \in 1..Len(G[i])
  PROVE  G[i][j].lo \in Nat /\ G[i][j].hi \in Nat
<1>1. G[i] \in Seq(Extent)
  OBVIOUS
<1>2. G[i][j] \in Extent
  BY <1>1
<1> QED BY <1>2 DEF Extent

LEMMA CursorType ==
  ASSUME NEW A \in Seq(Area), NEW i \in 1..Len(A)
  PROVE  Cursor(A, i) \in Nat
<1>1. A[i].used \in Nat /\ (i < Len(A) => A[i + 1].start \in Nat)
  BY FieldsOf DEF Fields
<1> QED BY <1>1 DEF Cursor

\* The other buffers do not matter.
LEMMA OtherBuffers ==
  ASSUME NEW A \in Seq(Area), NEW G, NEW C, NEW H, NEW I,
         StackInv(A, G, C, H),
         \A i \in 1..Len(A) : I[A[i].buf] = H[A[i].buf]
  PROVE  StackInv(A, G, C, I)
BY DEF StackInv, Within

\* B begins with the first k areas of A; the k-th may have moved its cursor on.
Keeps(A, B, k) ==
  /\ k \in 0..Len(A) /\ k <= Len(B)
  /\ \A i \in 1..k :
       /\ B[i].buf = A[i].buf /\ B[i].base = A[i].base /\ B[i].cap = A[i].cap
       /\ B[i].parent = A[i].parent /\ B[i].start = A[i].start
       /\ i < k => B[i].used = A[i].used
       /\ Cursor(A, i) <= Cursor(B, i)

\* The first k areas keep the properties of the stack.
LEMMA KeepNested ==
  ASSUME NEW A, NEW B, NEW k, Len(A) \in Nat, Len(B) = k, Fields(A), Keeps(A, B, k), Nested(A)
  PROVE  Nested(B)
<1> SUFFICES ASSUME NEW i \in 1..k, B[i].parent # 0
             PROVE  /\ i > 1 /\ B[i].parent = i - 1
                    /\ B[i].buf = B[i - 1].buf
                    /\ B[i].base = B[i - 1].base + B[i].start
                    /\ B[i].start <= B[i - 1].used
  BY DEF Nested
<1>1. i \in 1..Len(A) /\ A[i].parent = B[i].parent /\ A[i].buf = B[i].buf
      /\ A[i].base = B[i].base /\ A[i].start = B[i].start
  BY DEF Keeps
<1>2. /\ i > 1 /\ A[i].parent = i - 1
      /\ A[i].buf = A[i - 1].buf
      /\ A[i].base = A[i - 1].base + A[i].start
      /\ A[i].start <= A[i - 1].used
  BY <1>1 DEF Nested
<1>3. i - 1 \in 1..k /\ i - 1 < k
  BY <1>2 DEF Keeps
<1>4. /\ B[i - 1].buf = A[i - 1].buf /\ B[i - 1].base = A[i - 1].base
      /\ B[i - 1].used = A[i - 1].used
  BY <1>3 DEF Keeps
<1> QED BY <1>1, <1>2, <1>4

LEMMA KeepSeparate ==
  ASSUME NEW A, NEW B, NEW k, Len(A) \in Nat, Len(B) = k, Keeps(A, B, k), Separate(A)
  PROVE  Separate(B)
<1> SUFFICES ASSUME NEW i \in 1..k, NEW j \in 1..k, NEW m \in 1..k, i < m, m <= j, B[m].parent = 0
             PROVE  B[i].buf # B[j].buf
  BY DEF Separate
<1>1. i \in 1..Len(A) /\ j \in 1..Len(A) /\ m \in 1..Len(A)
  BY DEF Keeps
<1>2. A[m].parent = 0 /\ A[i].buf = B[i].buf /\ A[j].buf = B[j].buf
  BY DEF Keeps
<1>3. A[i].buf # A[j].buf
  BY <1>1, <1>2 DEF Separate
<1> QED BY <1>2, <1>3

LEMMA KeepCursor ==
  ASSUME NEW A, NEW B, NEW k, Len(A) \in Nat, Len(B) \in Nat, Fields(A), Keeps(A, B, k),
         NEW i \in 1..k, i < k
  PROVE  Cursor(B, i) = Cursor(A, i)
BY DEF Cursor, Keeps

LEMMA KeepAbove ==
  ASSUME NEW A, NEW B, NEW k, Len(A) \in Nat, Len(B) = k, Fields(A), Keeps(A, B, k), Above(A)
  PROVE  Above(B)
<1> SUFFICES ASSUME NEW i \in 1..k, NEW m \in 1..k, i < m, B[i].buf = B[m].buf
             PROVE  B[i].base + Cursor(B, i) <= B[m].base
  BY DEF Above
<1>1. i \in 1..Len(A) /\ m \in 1..Len(A) /\ i < k
  BY DEF Keeps
<1>2. Cursor(B, i) = Cursor(A, i)
  BY <1>1, KeepCursor
<1>3. /\ B[i].buf = A[i].buf /\ B[i].base = A[i].base
      /\ B[m].buf = A[m].buf /\ B[m].base = A[m].base
  BY DEF Keeps
<1>4. A[i].base + Cursor(A, i) <= A[m].base
  BY <1>1, <1>3 DEF Above
<1> QED BY <1>2, <1>3, <1>4

LEMMA KeepRoots ==
  ASSUME NEW A, NEW B, NEW C \in Seq(Nat), NEW k, Len(A) \in Nat, Len(B) = k,
         Keeps(A, B, k), Roots(A, C)
  PROVE  Roots(B, C)
<1> SUFFICES ASSUME NEW c \in 1..Len(C), C[c] < k
             PROVE  B[C[c] + 1].parent = 0
  BY DEF Roots
<1>1. C[c] \in Nat /\ k \in Nat /\ k <= Len(A)
  BY DEF Keeps
<1>2. A[C[c] + 1].parent = 0
  BY <1>1 DEF Roots
<1> QED BY <1>1, <1>2 DEF Keeps

LEMMA KeepFilled ==
  ASSUME NEW A, NEW B, NEW k, NEW G \in Seq(Seq(Extent)), NEW F, Len(A) \in Nat, Len(B) = k,
         Len(G) = Len(A), Len(F) = k, \A i \in 1..k : F[i] = G[i],
         Fields(A), Keeps(A, B, k), Filled(A, G),
         \A i \in 1..k : Cursor(A, i) \in Nat /\ Cursor(B, i) \in Nat
  PROVE  Filled(B, F)
<1> SUFFICES ASSUME NEW i \in 1..k, NEW j \in 1..Len(G[i])
             PROVE  /\ B[i].base <= G[i][j].lo /\ G[i][j].lo <= G[i][j].hi
                    /\ G[i][j].hi <= B[i].base + Cursor(B, i)
                    /\ \A m \in 1..Len(G[i]) : j < m => G[i][j].hi <= G[i][m].lo
  BY DEF Filled
<1>1. i \in 1..Len(A) /\ i \in 1..Len(G)
  BY DEF Keeps
<1>2. /\ A[i].base <= G[i][j].lo /\ G[i][j].lo <= G[i][j].hi
      /\ G[i][j].hi <= A[i].base + Cursor(A, i)
      /\ \A m \in 1..Len(G[i]) : j < m => G[i][j].hi <= G[i][m].lo
  BY <1>1 DEF Filled
<1>3. G[i][j].hi \in Nat
  BY <1>1, ExtentsOf
<1>4. A[i].base \in Nat /\ B[i].base = A[i].base /\ Cursor(A, i) <= Cursor(B, i)
  BY <1>1 DEF Keeps, Fields
<1>5. Cursor(A, i) \in Nat /\ Cursor(B, i) \in Nat
  OBVIOUS
<1>6. ASSUME NEW h \in Nat, NEW b \in Nat, NEW c \in Nat, NEW d \in Nat, h <= b + c, c <= d
      PROVE  h <= b + d
  BY <1>6
<1>7. G[i][j].hi <= A[i].base + Cursor(B, i)
  BY <1>2, <1>3, <1>4, <1>5, <1>6
<1> QED BY <1>2, <1>4, <1>7

\* Areas are taken off the top, whether they are ended or left; the cursor of
\* the innermost of the others may move.
LEMMA KeepStack ==
  ASSUME NEW A \in Seq(Area), NEW B \in Seq(Area), NEW G \in Seq(Seq(Extent)), NEW F,
         NEW C \in Seq(Nat), NEW H, NEW k,
         Len(G) = Len(A), Len(F) = k, \A i \in 1..k : F[i] = G[i],
         Len(B) = k, Keeps(A, B, k), \A i \in 1..k : B[i].used <= B[i].cap,
         StackInv(A, G, C, H)
  PROVE  StackInv(B, F, C, H)
<1>1. Fields(A) /\ k \in Nat /\ Len(A) \in Nat /\ k <= Len(A)
  BY FieldsOf DEF Keeps
<1>2. \A i \in 1..k : Cursor(A, i) \in Nat /\ Cursor(B, i) \in Nat
  BY CursorType, <1>1
<1>3. Within(B, H)
  <2> SUFFICES ASSUME NEW i \in 1..k
               PROVE  H[B[i].buf] > 0 /\ B[i].base + B[i].cap <= H[B[i].buf]
    BY DEF Within
  <2>1. i \in 1..Len(A)
    BY <1>1
  <2>2. H[A[i].buf] > 0 /\ A[i].base + A[i].cap <= H[A[i].buf]
    BY <2>1 DEF StackInv, Within
  <2> QED BY <2>2 DEF Keeps
<1>4. Nested(B) /\ Separate(B) /\ Above(B) /\ Roots(B, C)
  BY <1>1, KeepNested, KeepSeparate, KeepAbove, KeepRoots DEF StackInv
<1>5. Filled(B, F)
  BY <1>1, <1>2, KeepFilled DEF StackInv
<1> QED BY <1>3, <1>4, <1>5 DEF StackInv
\* B is A with an area more, which takes its memory from a new buffer or from
\* the innermost area of A; that one's cursor then counts half of the rest.
Fresh(A, B, H) ==
  LET n == Len(A)
  IN  /\ B[n + 1].parent = 0
      /\ \A i \in 1..n : A[i].buf # B[n + 1].buf
      /\ H[B[n + 1].buf] > 0
      /\ B[n + 1].base + B[n + 1].cap <= H[B[n + 1].buf]

Halved(A, B) ==
  LET n == Len(A)
  IN  /\ n > 0 /\ B[n + 1].parent = n
      /\ B[n + 1].buf = A[n].buf
      /\ B[n + 1].base = A[n].base + A[n].used
      /\ B[n + 1].start = A[n].used
      /\ A[n].used <= B[n].used
      /\ A[n].used + B[n + 1].cap <= A[n].cap

\* A push onto a stack of n areas.
Pushed(A, B, H) ==
  /\ Keeps(A, B, Len(A))
  /\ \A i \in 1..Len(A) : Cursor(B, i) = Cursor(A, i) /\ B[i].used <= B[i].cap
  /\ B[Len(A) + 1].used <= B[Len(A) + 1].cap
  /\ Fresh(A, B, H) \/ Halved(A, B)

LEMMA PushWithin ==
  ASSUME NEW A, NEW B, NEW H, NEW n \in Nat, Len(A) = n, Len(B) = n + 1, Fields(A), Fields(B),
         \A b \in Buffers : H[b] \in Nat, Pushed(A, B, H), Within(A, H)
  PROVE  Within(B, H)
<1> SUFFICES ASSUME NEW i \in 1..(n + 1)
             PROVE  /\ B[i].used <= B[i].cap
                    /\ H[B[i].buf] > 0
                    /\ B[i].base + B[i].cap <= H[B[i].buf]
  BY DEF Within
<1>1. CASE i \in 1..n
  BY <1>1 DEF Within, Pushed, Keeps
<1>2. CASE i = n + 1 /\ Fresh(A, B, H)
  BY <1>2 DEF Pushed, Fresh
<1>3. CASE i = n + 1 /\ Halved(A, B)
  <2>1. /\ n \in 1..n /\ B[i].buf = A[n].buf
        /\ B[i].base = A[n].base + A[n].used
        /\ A[n].used + B[i].cap <= A[n].cap
    BY <1>3 DEF Halved
  <2>2. H[A[n].buf] > 0 /\ A[n].base + A[n].cap <= H[A[n].buf]
    BY <2>1 DEF Within
  <2>3. /\ A[n].base \in Nat /\ A[n].used \in Nat /\ A[n].cap \in Nat /\ B[i].cap \in Nat
        /\ A[n].buf \in Buffers
    BY <2>1 DEF Fields
  <2>4. H[A[n].buf] \in Nat
    BY <2>3
  <2>5. B[i].used <= B[i].cap
    BY <1>3 DEF Pushed
  <2> QED BY <2>1, <2>2, <2>3, <2>4, <2>5
<1> QED BY <1>1, <1>2, <1>3 DEF Pushed

LEMMA PushNested ==
  ASSUME NEW A, NEW B, NEW H, NEW n \in Nat, Len(A) = n, Len(B) = n + 1, Fields(A), Fields(B),
         Pushed(A, B, H), Nested(A)
  PROVE  Nested(B)
<1> SUFFICES ASSUME NEW i \in 1..(n + 1), B[i].parent # 0
             PROVE  /\ i > 1 /\ B[i].parent = i - 1
                    /\ B[i].buf = B[i - 1].buf
                    /\ B[i].base = B[i - 1].base + B[i].start
                    /\ B[i].start <= B[i - 1].used
  BY DEF Nested
<1>1. CASE i \in 1..n
  <2>1. A[i].parent = B[i].parent /\ A[i].buf = B[i].buf
        /\ A[i].base = B[i].base /\ A[i].start = B[i].start
    BY <1>1 DEF Pushed, Keeps
  <2>2. /\ i > 1 /\ A[i].parent = i - 1
        /\ A[i].buf = A[i - 1].buf
        /\ A[i].base = A[i - 1].base + A[i].start
        /\ A[i].start <= A[i - 1].used
    BY <1>1, <2>1 DEF Nested
  <2>3. i - 1 \in 1..n /\ i - 1 < n
    BY <1>1, <2>2
  <2>4. /\ B[i - 1].buf = A[i - 1].buf /\ B[i - 1].base = A[i - 1].base
        /\ B[i - 1].used = A[i - 1].used
    BY <2>3 DEF Pushed, Keeps
  <2> QED BY <2>1, <2>2, <2>4
<1>2. CASE i = n + 1
  <2>1. Halved(A, B)
    BY <1>2 DEF Pushed, Fresh
  <2>2. /\ n \in 1..n /\ B[i].parent = n /\ B[i].buf = A[n].buf
        /\ B[i].base = A[n].base + B[i].start /\ B[i].start <= B[n].used
    BY <1>2, <2>1 DEF Halved
  <2>3. B[n].buf = A[n].buf /\ B[n].base = A[n].base
    BY <2>2 DEF Pushed, Keeps
  <2> QED BY <1>2, <2>2, <2>3
<1> QED BY <1>1, <1>2

LEMMA PushSeparate ==
  ASSUME NEW A, NEW B, NEW H, NEW n \in Nat, Len(A) = n, Len(B) = n + 1,
         Pushed(A, B, H), Separate(A)
  PROVE  Separate(B)
<1> SUFFICES ASSUME NEW i \in 1..(n + 1), NEW j \in 1..(n + 1), NEW k \in 1..(n + 1),
                    i < k, k <= j, B[k].parent = 0
             PROVE  B[i].buf # B[j].buf
  BY DEF Separate
<1>1. CASE j \in 1..n
  <2>1. i \in 1..n /\ k \in 1..n
    BY <1>1
  <2> QED BY <1>1, <2>1 DEF Separate, Pushed, Keeps
<1>2. CASE j = n + 1 /\ Fresh(A, B, H)
  <2>1. i \in 1..n
    OBVIOUS
  <2> QED BY <1>2, <2>1 DEF Fresh, Pushed, Keeps
<1>3. CASE j = n + 1 /\ Halved(A, B)
  <2>1. /\ n \in 1..n /\ i \in 1..n /\ B[j].parent = n /\ B[j].buf = A[n].buf
    BY <1>3 DEF Halved
  <2>2. k \in 1..n /\ k <= n /\ A[k].parent = 0 /\ A[i].buf = B[i].buf
    BY <1>3, <2>1 DEF Pushed, Keeps
  <2>3. A[i].buf # A[n].buf
    BY <2>1, <2>2 DEF Separate
  <2> QED BY <2>1, <2>2, <2>3
<1> QED BY <1>1, <1>2, <1>3 DEF Pushed

LEMMA PushAbove ==
  ASSUME NEW A, NEW B, NEW H, NEW n \in Nat, Len(A) = n, Len(B) = n + 1, Fields(A), Fields(B),
         \A i \in 1..n : Cursor(A, i) \in Nat,
         Pushed(A, B, H), Above(A)
  PROVE  Above(B)
<1> SUFFICES ASSUME NEW i \in 1..(n + 1), NEW m \in 1..(n + 1), i < m, B[i].buf = B[m].buf
             PROVE  B[i].base + Cursor(B, i) <= B[m].base
  BY DEF Above
<1>1. /\ i \in 1..n /\ Cursor(B, i) = Cursor(A, i) /\ B[i].base = A[i].base
      /\ B[i].buf = A[i].buf
  BY DEF Pushed, Keeps
<1>2. CASE m \in 1..n
  <2>1. B[m].base = A[m].base /\ B[m].buf = A[m].buf
    BY <1>2 DEF Pushed, Keeps
  <2>2. A[i].base + Cursor(A, i) <= A[m].base
    BY <1>1, <1>2, <2>1 DEF Above
  <2> QED BY <1>1, <2>1, <2>2
<1>3. CASE m = n + 1
  <2>1. Halved(A, B)
    BY <1>1, <1>3 DEF Pushed, Fresh
  <2>2. /\ n \in 1..n /\ B[m].parent = n /\ B[m].buf = A[n].buf
        /\ B[m].base = A[n].base + A[n].used /\ B[m].start = A[n].used
    BY <1>3, <2>1 DEF Halved
  <2>3. A[n].base \in Nat /\ A[n].used \in Nat /\ A[i].base \in Nat /\ Cursor(A, i) \in Nat
    BY <1>1, <2>2 DEF Fields
  <2>4. CASE i = n
    <3>1. Cursor(B, n) = A[n].used
      BY <1>3, <2>2 DEF Cursor
    <3>2. B[i].base + Cursor(B, i) = B[m].base
      BY <1>1, <2>2, <2>4, <3>1
    <3>3. B[m].base \in Nat
      BY DEF Fields
    <3> QED BY <3>2, <3>3
  <2>5. CASE i < n
    <3>1. A[i].base + Cursor(A, i) <= A[n].base
      BY <1>1, <2>2, <2>5 DEF Above
    <3> QED BY <1>1, <2>2, <2>3, <3>1
  <2> QED BY <1>1, <2>4, <2>5
<1> QED BY <1>2, <1>3

LEMMA PushFilled ==
  ASSUME NEW A, NEW B, NEW H, NEW n \in Nat, Len(A) = n, Len(B) = n + 1,
         NEW G, NEW F, Len(G) = n, Len(F) = n + 1, F[n + 1] = << >>,
         \A i \in 1..n : F[i] = G[i],
         Pushed(A, B, H), Filled(A, G)
  PROVE  Filled(B, F)
<1> SUFFICES ASSUME NEW i \in 1..(n + 1), NEW j \in 1..Len(F[i])
             PROVE  /\ B[i].base <= F[i][j].lo /\ F[i][j].lo <= F[i][j].hi
                    /\ F[i][j].hi <= B[i].base + Cursor(B, i)
                    /\ \A m \in 1..Len(F[i]) : j < m => F[i][j].hi <= F[i][m].lo
  BY DEF Filled
<1>1. i \in 1..n
  OBVIOUS
<1>2. F[i] = G[i] /\ Cursor(B, i) = Cursor(A, i) /\ B[i].base = A[i].base
  BY <1>1 DEF Pushed, Keeps
<1> QED BY <1>1, <1>2 DEF Filled

LEMMA PushRoots ==
  ASSUME NEW A, NEW B, NEW H, NEW C \in Seq(Nat), NEW n \in Nat, Len(A) = n, Len(B) = n + 1,
         Pushed(A, B, H), Roots(A, C),
         \A c \in 1..Len(C) : C[c] <= n /\ (C[c] = n => B[n + 1].parent = 0)
  PROVE  Roots(B, C)
<1> SUFFICES ASSUME NEW c \in 1..Len(C), C[c] < n + 1
             PROVE  B[C[c] + 1].parent = 0
  BY DEF Roots
<1>1. C[c] \in Nat
  OBVIOUS
<1>2. CASE C[c] = n
  BY <1>2
<1>3. CASE C[c] < n
  <2>1. C[c] + 1 \in 1..n
    BY <1>1, <1>3
  <2>2. A[C[c] + 1].parent = 0
    BY <1>3 DEF Roots
  <2> QED BY <2>1, <2>2 DEF Pushed, Keeps
<1> QED BY <1>1, <1>2, <1>3

LEMMA PushStack ==
  ASSUME NEW A \in Seq(Area), NEW B \in Seq(Area), NEW G, NEW F, NEW C \in Seq(Nat),
         NEW H, \A b \in Buffers : H[b] \in Nat,
         Len(B) = Len(A) + 1, Len(G) = Len(A), Len(F) = Len(A) + 1, F[Len(A) + 1] = << >>,
         \A i \in 1..Len(A) : F[i] = G[i],
         \A c \in 1..Len(C) : C[c] <= Len(A) /\ (C[c] = Len(A) => B[Len(A) + 1].parent = 0),
         Pushed(A, B, H), StackInv(A, G, C, H)
  PROVE  StackInv(B, F, C, H)
<1> DEFINE n == Len(A)
<1>1. n \in Nat /\ Fields(A) /\ Fields(B)
  BY FieldsOf
<1>2. \A i \in 1..n : Cursor(A, i) \in Nat
  BY CursorType
<1>3. /\ Len(A) = n /\ Len(B) = n + 1 /\ Len(G) = n /\ Len(F) = n + 1 /\ F[n + 1] = << >>
      /\ \A i \in 1..n : F[i] = G[i]
      /\ \A c \in 1..Len(C) : C[c] <= n /\ (C[c] = n => B[n + 1].parent = 0)
  OBVIOUS
<1>4. Within(A, H) /\ Nested(A) /\ Separate(A) /\ Above(A) /\ Filled(A, G) /\ Roots(A, C)
  BY DEF StackInv
<1> HIDE DEF n
<1>5. Within(B, H) /\ Nested(B) /\ Separate(B)
  BY <1>1, <1>3, <1>4, PushWithin, PushNested, PushSeparate
<1>6. Above(B)
  BY <1>1, <1>2, <1>3, <1>4, PushAbove
<1>7. Filled(B, F) /\ Roots(B, C)
  BY <1>1, <1>3, <1>4, PushFilled, PushRoots
<1> QED BY <1>5, <1>6, <1>7 DEF StackInv

\* An allocation from the innermost area, behind its cursor.
LEMMA AllocStack ==
  ASSUME NEW A \in Seq(Area), NEW B \in Seq(Area), NEW G \in Seq(Seq(Extent)), NEW F,
         NEW C \in Seq(Nat), NEW H, NEW n \in 1..Len(A), NEW x \in Extent,
         Len(A) = n, Len(B) = n, Len(G) = n, Len(F) = n,
         \A i \in 1..n : i < n => F[i] = G[i],
         F[n] = Append(G[n], x),
         Keeps(A, B, n), \A i \in 1..n : B[i].used <= B[i].cap,
         A[n].base + A[n].used <= x.lo, x.lo <= x.hi, x.hi = B[n].base + B[n].used,
         StackInv(A, G, C, H)
  PROVE  StackInv(B, F, C, H)
<1>1. StackInv(B, G, C, H)
  BY KeepStack
<1>2. Filled(A, G) /\ Filled(B, G)
  BY <1>1 DEF StackInv
<1>3. Cursor(A, n) = A[n].used /\ Cursor(B, n) = B[n].used
  BY DEF Cursor
<1>4. Fields(A) /\ Fields(B)
  BY FieldsOf
<1>5. B[n].base = A[n].base /\ A[n].base \in Nat /\ A[n].used \in Nat /\ B[n].used \in Nat
  BY <1>4 DEF Keeps, Fields
<1>6. x.lo \in Nat /\ x.hi \in Nat
  BY DEF Extent
<1>7. \A j \in 1..Len(G[n]) : G[n][j].lo \in Nat /\ G[n][j].hi \in Nat
  BY ExtentsOf
<1>8. /\ Len(G[n]) \in Nat /\ Len(F[n]) = Len(G[n]) + 1 /\ F[n][Len(G[n]) + 1] = x
      /\ \A j \in 1..Len(G[n]) : F[n][j] = G[n][j]
  <2>1. G[n] \in Seq(Extent)
    OBVIOUS
  <2> QED BY <2>1
<1>9. Filled(B, F)
  <2> SUFFICES ASSUME NEW i \in 1..n, NEW j \in 1..Len(F[i])
               PROVE  /\ B[i].base <= F[i][j].lo /\ F[i][j].lo <= F[i][j].hi
                      /\ F[i][j].hi <= B[i].base + Cursor(B, i)
                      /\ \A m \in 1..Len(F[i]) : j < m => F[i][j].hi <= F[i][m].lo
    BY DEF Filled
  <2>1. CASE i < n
    BY <1>2, <2>1 DEF Filled
  <2>2. CASE i = n /\ j = Len(G[n]) + 1
    <3>1. F[i][j] = x /\ Cursor(B, i) = B[n].used
      BY <1>3, <1>8, <2>2
    <3>2. B[n].base <= x.lo
      <4>1. A[n].base \in Nat /\ A[n].used \in Nat /\ B[n].base = A[n].base
        BY <1>5
      <4>2. ASSUME NEW b \in Nat, NEW u \in Nat, NEW l \in Nat, b + u <= l
            PROVE  b <= l
        BY ONLY <4>2
      <4> QED BY ONLY <1>6, <4>1, <4>2, A[n].base + A[n].used <= x.lo
    <3>3. \A m \in 1..Len(F[i]) : ~(j < m)
      BY <1>8, <2>2
    <3>4. x.hi <= B[n].base + B[n].used
      BY <1>5, <1>6
    <3> QED BY <2>2, <3>1, <3>2, <3>3, <3>4
  <2>3. CASE i = n /\ j \in 1..Len(G[n])
    <3>1. /\ A[n].base <= G[n][j].lo /\ G[n][j].lo <= G[n][j].hi
          /\ G[n][j].hi <= A[n].base + A[n].used
          /\ G[n][j].hi <= B[n].base + Cursor(B, n)
          /\ \A m \in 1..Len(G[n]) : j < m => G[n][j].hi <= G[n][m].lo
      BY <1>2, <1>3, <2>3 DEF Filled
    <3>2. F[i][j] = G[n][j]
      BY <1>8, <2>3
    <3>3. G[n][j].hi <= x.lo
      <4>1. A[n].base \in Nat /\ A[n].used \in Nat /\ G[n][j].hi \in Nat
        BY <1>5, <1>7, <2>3
      <4>2. ASSUME NEW h \in Nat, NEW b \in Nat, NEW u \in Nat, NEW l \in Nat, h <= b + u, b + u <= l
            PROVE  h <= l
        BY ONLY <4>2
      <4> QED BY ONLY <1>6, <3>1, <4>1, <4>2, A[n].base + A[n].used <= x.lo
    <3>4. ASSUME NEW m \in 1..Len(F[i]), j < m
          PROVE  F[i][j].hi <= F[i][m].lo
      <4>0. m \in 1..(Len(G[n]) + 1) /\ Len(G[n]) \in Nat
        BY <1>8, <2>3
      <4>1. m \in 1..Len(G[n]) \/ m = Len(G[n]) + 1
        <5>1. ASSUME NEW l \in Nat, NEW p \in 1..(l + 1)
              PROVE  p \in 1..l \/ p = l + 1
          BY ONLY <5>1
        <5> QED BY ONLY <4>0, <5>1
      <4>2. CASE m \in 1..Len(G[n])
        BY <1>8, <2>3, <3>1, <3>2, <3>4, <4>2
      <4>3. CASE m = Len(G[n]) + 1
        BY <1>8, <2>3, <3>2, <3>3, <4>3
      <4> QED BY <4>1, <4>2, <4>3
    <3> QED BY <1>5, <2>3, <3>1, <3>2, <3>4
  <2> QED BY <1>8, <2>1, <2>2, <2>3
<1> QED BY <1>1, <1>9 DEF StackInv

-----------------------------------------------------------------------------
(* Changes of a stack                                                      *)

\* The cursor of one area is set.
Moved(A, k, v) == [A EXCEPT ![k].used = v]

LEMMA SetUsed ==
  ASSUME NEW A \in Seq(Area), NEW k \in 1..Len(A), NEW v \in Nat,
         NEW B, B = Moved(A, k, v)
  PROVE  /\ B \in Seq(Area) /\ Len(B) = Len(A)
         /\ \A i \in 1..Len(A) : i # k => B[i] = A[i]
         /\ B[k].buf = A[k].buf /\ B[k].base = A[k].base /\ B[k].cap = A[k].cap
         /\ B[k].parent = A[k].parent /\ B[k].start = A[k].start
         /\ B[k].used = v
<1>1. A[k] \in Area
  OBVIOUS
<1>2. [A[k] EXCEPT !.used = v] \in Area
  BY <1>1 DEF Area
<1>3. B = [A EXCEPT ![k] = [A[k] EXCEPT !.used = v]]
  BY DEF Moved
<1>4. B \in Seq(Area) /\ Len(B) = Len(A) /\ \A i \in 1..Len(A) : i # k => B[i] = A[i]
  BY <1>2, <1>3
<1>5. B[k] = [A[k] EXCEPT !.used = v]
  BY <1>3
<1> QED BY <1>1, <1>4, <1>5 DEF Area

\* The cursor of an area does not lie behind what it has used.
LEMMA CursorBound ==
  ASSUME NEW A \in Seq(Area), Nested(A), NEW i \in 1..Len(A)
  PROVE  Cursor(A, i) <= A[i].used
<1>1. A[i].used \in Nat
  BY FieldsOf DEF Fields
<1>2. ASSUME i < Len(A), A[i + 1].parent = i
      PROVE  A[i + 1].start <= A[i].used
  <2>1. i + 1 \in 1..Len(A) /\ A[i + 1].parent # 0 /\ (i + 1) - 1 = i
    BY <1>2
  <2>2. A[i + 1].start <= A[(i + 1) - 1].used
    BY <2>1 DEF Nested
  <2> QED BY <2>1, <2>2
<1> QED BY <1>1, <1>2 DEF Cursor

\* The first k areas, the cursor of the last of them possibly moved on.
LEMMA KeepsFirst ==
  ASSUME NEW A \in Seq(Area), Nested(A), NEW k \in 0..Len(A), NEW B \in Seq(Area), k <= Len(B),
         \A i \in 1..k : i < k => B[i] = A[i],
         k > 0 => /\ B[k].buf = A[k].buf /\ B[k].base = A[k].base /\ B[k].cap = A[k].cap
                  /\ B[k].parent = A[k].parent /\ B[k].start = A[k].start
                  /\ Cursor(A, k) <= Cursor(B, k)
  PROVE  Keeps(A, B, k)
<1> SUFFICES ASSUME NEW i \in 1..k
             PROVE  /\ B[i].buf = A[i].buf /\ B[i].base = A[i].base /\ B[i].cap = A[i].cap
                    /\ B[i].parent = A[i].parent /\ B[i].start = A[i].start
                    /\ i < k => B[i].used = A[i].used
                    /\ Cursor(A, i) <= Cursor(B, i)
  BY DEF Keeps
<1>1. CASE i = k
  BY <1>1
<1>2. CASE i < k
  <2>1. B[i] = A[i]
    BY <1>2
  <2>2. i + 1 \in 1..k /\ i < Len(A) /\ i < Len(B)
    BY <1>2
  <2>3. B[i + 1].parent = A[i + 1].parent /\ B[i + 1].start = A[i + 1].start
    BY <2>2
  <2>4. Cursor(B, i) = Cursor(A, i)
    BY <2>1, <2>2, <2>3 DEF Cursor
  <2>5. Cursor(A, i) \in Nat
    BY CursorType
  <2> QED BY <1>2, <2>1, <2>4, <2>5
<1> QED BY <1>1, <1>2

\* No call has seen more areas open than the last one.
LEMMA LastCall ==
  ASSUME NEW A, NEW C \in Seq(Nat), Len(C) > 0, Roots(A, C)
  PROVE  C[Len(C)] \in Nat /\ \A c \in 1..Len(C) : C[c] <= C[Len(C)]
BY DEF Roots

\* The areas from the k-th on are dropped.
LEMMA DropStack ==
  ASSUME NEW A, NEW G, NEW C, NEW H, StackOK(A, G, C, H), NEW k \in C[Len(C)]..Len(A)
  PROVE  StackOK(SubSeq(A, 1, k), SubSeq(G, 1, k), C, H)
<1> DEFINE B == SubSeq(A, 1, k)
           F == SubSeq(G, 1, k)
<1>1. A \in Seq(Area) /\ G \in Seq(Seq(Extent)) /\ C \in Seq(Nat) /\ Len(G) = Len(A) /\ Len(C) > 0
  BY DEF StackOK
<1>2. StackInv(A, G, C, H) /\ Nested(A) /\ Roots(A, C)
  BY DEF StackOK, StackInv
<1>3. k \in 0..Len(A) /\ \A c \in 1..Len(C) : C[c] <= k
  BY <1>1, <1>2, LastCall
<1>4. /\ B \in Seq(Area) /\ Len(B) = k /\ \A i \in 1..k : B[i] = A[i]
      /\ F \in Seq(Seq(Extent)) /\ Len(F) = k /\ \A i \in 1..k : F[i] = G[i]
  BY <1>1, <1>3
<1> HIDE DEF B, F
<1>5. \A i \in 1..k : B[i].used <= B[i].cap
  BY <1>1, <1>2, <1>3, <1>4 DEF StackInv, Within
<1>6. k > 0 => Cursor(A, k) <= Cursor(B, k)
  <2> SUFFICES ASSUME k > 0
               PROVE  Cursor(A, k) <= Cursor(B, k)
    OBVIOUS
  <2>1. k \in 1..Len(A) /\ Cursor(B, k) = A[k].used
    BY <1>1, <1>3, <1>4 DEF Cursor
  <2> QED BY <1>1, <1>2, <2>1, CursorBound
<1>7. Keeps(A, B, k)
  <2>1. k <= Len(B) /\ Nested(A) /\ \A i \in 1..k : i < k => B[i] = A[i]
    BY <1>2, <1>3, <1>4
  <2>2. k > 0 => /\ B[k].buf = A[k].buf /\ B[k].base = A[k].base /\ B[k].cap = A[k].cap
                 /\ B[k].parent = A[k].parent /\ B[k].start = A[k].start
                 /\ Cursor(A, k) <= Cursor(B, k)
    <3>1. k > 0 => B[k] = A[k]
      BY <1>3, <1>4
    <3> QED BY <1>6, <3>1
  <2>3. A \in Seq(Area) /\ B \in Seq(Area) /\ k \in 0..Len(A)
    BY <1>1, <1>3, <1>4
  <2> QED BY ONLY <2>1, <2>2, <2>3, KeepsFirst
<1>8. StackInv(B, F, C, H)
  BY <1>1, <1>2, <1>4, <1>5, <1>7, KeepStack
<1> QED BY <1>1, <1>3, <1>4, <1>8 DEF StackOK, B, F

\* A nested area is ended: its parent has its cursor back.
Ended(A) == [SubSeq(A, 1, Len(A) - 1) EXCEPT ![A[Len(A)].parent].used = A[Len(A)].start]

LEMMA EndStack ==
  ASSUME NEW A, NEW G, NEW C, NEW H, StackOK(A, G, C, H), Len(A) > C[Len(C)],
         A[Len(A)].parent # 0,
         NEW B, B = Ended(A)
  PROVE  /\ StackOK(B, SubSeq(G, 1, Len(A) - 1), C, H)
         /\ Len(A) > 1 /\ Len(B) = Len(A) - 1
         /\ \A i \in 1..Len(B) : B[i].buf = A[i].buf
<1> DEFINE k == Len(A) - 1
           D == SubSeq(A, 1, k)
           F == SubSeq(G, 1, k)
<1>1. A \in Seq(Area) /\ G \in Seq(Seq(Extent)) /\ C \in Seq(Nat) /\ Len(G) = Len(A) /\ Len(C) > 0
  BY DEF StackOK
<1>2. StackInv(A, G, C, H) /\ Nested(A) /\ Roots(A, C) /\ Within(A, H)
  BY DEF StackOK, StackInv
<1>3. C[Len(C)] \in Nat /\ Len(A) \in Nat /\ Len(A) > 0 /\ Len(A) \in 1..Len(A)
  BY <1>1, <1>2, LastCall
<1>4. /\ Len(A) > 1 /\ A[Len(A)].parent = Len(A) - 1 /\ A[Len(A)].start <= A[Len(A) - 1].used
  BY <1>2, <1>3 DEF Nested
<1>5. k \in 1..Len(A) /\ k + 1 = Len(A) /\ k < Len(A) /\ \A c \in 1..Len(C) : C[c] <= k
  <2>1. \A c \in 1..Len(C) : C[c] <= C[Len(C)] /\ C[c] \in Nat
    BY ONLY <1>1, <1>2, LastCall
  <2>2. \A c \in 1..Len(C) : C[c] <= k
    BY ONLY <1>3, <2>1, Len(A) > C[Len(C)]
  <2> QED BY ONLY <1>3, <1>4, <2>2
<1>6. /\ D \in Seq(Area) /\ Len(D) = k /\ \A i \in 1..k : D[i] = A[i]
      /\ F \in Seq(Seq(Extent)) /\ Len(F) = k /\ \A i \in 1..k : F[i] = G[i]
  <2>1. k \in 1..Len(A) /\ Len(A) = Len(G)
    BY ONLY <1>1, <1>5
  <2> HIDE DEF k
  <2>2. D \in Seq(Area) /\ Len(D) = k /\ \A i \in 1..k : D[i] = A[i]
    BY ONLY <1>1, <2>1
  <2>3. F \in Seq(Seq(Extent)) /\ Len(F) = k /\ \A i \in 1..k : F[i] = G[i]
    BY ONLY <1>1, <2>1
  <2> QED BY ONLY <2>2, <2>3
<1>7. A[Len(A)].start \in Nat /\ A[k].used \in Nat /\ A[k].cap \in Nat
  BY <1>1, <1>3, <1>5, FieldsOf DEF Fields
<1>8. B = Moved(D, k, A[k + 1].start)
  BY <1>4, <1>5 DEF Moved, Ended
<1>9. A[k + 1].parent = k /\ A[k + 1].start \in Nat /\ A[k + 1].start <= A[k].used
  BY <1>4, <1>5, <1>7
<1> HIDE DEF k, D, F
<1>10. /\ B \in Seq(Area) /\ Len(B) = k
       /\ \A i \in 1..k : i # k => B[i] = A[i]
       /\ B[k].buf = A[k].buf /\ B[k].base = A[k].base /\ B[k].cap = A[k].cap
       /\ B[k].parent = A[k].parent /\ B[k].start = A[k].start
       /\ B[k].used = A[k + 1].start
  <2>1. D[k] = A[k]
    BY <1>5, <1>6
  <2> DEFINE v == A[k + 1].start
  <2>3. D \in Seq(Area) /\ k \in 1..Len(D) /\ v \in Nat /\ B = Moved(D, k, v)
    <3>1. D \in Seq(Area)
      BY ONLY <1>6
    <3>2. k \in 1..Len(D)
      BY ONLY <1>5, <1>6
    <3>3. v \in Nat
      BY ONLY <1>9
    <3>4. B = Moved(D, k, v)
      BY ONLY <1>8
    <3> QED BY ONLY <3>1, <3>2, <3>3, <3>4
  <2> HIDE DEF v
  <2>2. /\ B \in Seq(Area) /\ Len(B) = Len(D)
        /\ \A i \in 1..Len(D) : i # k => B[i] = D[i]
        /\ B[k].buf = D[k].buf /\ B[k].base = D[k].base /\ B[k].cap = D[k].cap
        /\ B[k].parent = D[k].parent /\ B[k].start = D[k].start
        /\ B[k].used = v
    BY ONLY <2>3, SetUsed
  <2> QED BY <1>6, <2>1, <2>2 DEF v
<1>11. Cursor(A, k) = A[k + 1].start /\ Cursor(B, k) = A[k + 1].start
  BY <1>5, <1>9, <1>10 DEF Cursor
<1>12. Keeps(A, B, k)
  <2>1. /\ k \in 0..Len(A) /\ k <= Len(B) /\ Nested(A) /\ A \in Seq(Area) /\ B \in Seq(Area)
        /\ \A i \in 1..k : i < k => B[i] = A[i]
    BY ONLY <1>1, <1>2, <1>5, <1>10
  <2>2. /\ B[k].buf = A[k].buf /\ B[k].base = A[k].base /\ B[k].cap = A[k].cap
        /\ B[k].parent = A[k].parent /\ B[k].start = A[k].start
        /\ Cursor(A, k) <= Cursor(B, k)
    BY ONLY <1>9, <1>10, <1>11
  <2> QED BY ONLY <2>1, <2>2, KeepsFirst
<1>13. \A i \in 1..k : B[i].used <= B[i].cap
  <2>1. A[k].used <= A[k].cap /\ \A i \in 1..k : A[i].used <= A[i].cap
    BY <1>2, <1>5 DEF Within
  <2> QED BY <1>5, <1>7, <1>9, <1>10, <2>1
<1>14. StackInv(B, F, C, H)
  BY <1>1, <1>2, <1>6, <1>10, <1>12, <1>13, KeepStack
<1>15. \A i \in 1..k : B[i].buf = A[i].buf
  BY <1>12 DEF Keeps
<1> QED BY <1>1, <1>4, <1>5, <1>6, <1>10, <1>14, <1>15 DEF StackOK, k, F

\* An area is pushed.
LEMMA PushOK ==
  ASSUME NEW A, NEW G, NEW C, NEW H, StackOK(A, G, C, H), \A b \in Buffers : H[b] \in Nat,
         NEW B \in Seq(Area), Pushed(A, B, H), Len(B) = Len(A) + 1,
         C[Len(C)] = Len(A) => B[Len(A) + 1].parent = 0
  PROVE  StackOK(B, Append(G, << >>), C, H)
<1> DEFINE F == Append(G, << >>)
<1>1. /\ A \in Seq(Area) /\ G \in Seq(Seq(Extent)) /\ C \in Seq(Nat) /\ Len(G) = Len(A)
      /\ Len(C) > 0 /\ \A c \in 1..Len(C) : C[c] <= Len(A)
  BY DEF StackOK
<1>2. StackInv(A, G, C, H) /\ Roots(A, C)
  BY DEF StackOK, StackInv
<1>3. /\ F \in Seq(Seq(Extent)) /\ Len(F) = Len(A) + 1 /\ F[Len(A) + 1] = << >>
      /\ \A i \in 1..Len(A) : F[i] = G[i]
  <2>1. << >> \in Seq(Extent)
    OBVIOUS
  <2> QED BY ONLY <1>1, <2>1
<1> HIDE DEF F
<1>4. \A c \in 1..Len(C) : C[c] <= Len(A) /\ (C[c] = Len(A) => B[Len(A) + 1].parent = 0)
  <2>1. C[Len(C)] \in Nat /\ C[Len(C)] <= Len(A) /\ \A c \in 1..Len(C) : C[c] <= C[Len(C)]
    BY <1>1, <1>2, LastCall
  <2>2. \A c \in 1..Len(C) : C[c] \in Nat
    BY <1>1
  <2> QED BY <1>1, <2>1, <2>2
<1>5. StackInv(B, F, C, H)
  BY <1>1, <1>2, <1>3, <1>4, PushStack
<1>6. \A c \in 1..Len(C) : C[c] <= Len(B)
  BY <1>1
<1> QED BY <1>1, <1>3, <1>5, <1>6 DEF StackOK, F

\* An area that is new.
LEMMA PushFresh ==
  ASSUME NEW A, NEW G, NEW C, NEW H, StackOK(A, G, C, H), \A b \in Buffers : H[b] \in Nat,
         NEW a \in Area, a.parent = 0, a.used <= a.cap, H[a.buf] > 0, a.base + a.cap <= H[a.buf],
         \A i \in 1..Len(A) : A[i].buf # a.buf
  PROVE  StackOK(Append(A, a), Append(G, << >>), C, H)
<1> DEFINE B == Append(A, a)
           n == Len(A)
<1>1. A \in Seq(Area) /\ Nested(A) /\ Within(A, H)
  BY DEF StackOK, StackInv
<1>2. B \in Seq(Area) /\ Len(B) = n + 1 /\ B[n + 1] = a /\ n \in Nat
      /\ \A i \in 1..n : B[i] = A[i]
  BY <1>1
<1> HIDE DEF B, n
<1>3. \A i \in 1..n : Cursor(B, i) = Cursor(A, i) /\ Cursor(A, i) \in Nat
  <2> SUFFICES ASSUME NEW i \in 1..n
               PROVE  Cursor(B, i) = Cursor(A, i) /\ Cursor(A, i) \in Nat
    OBVIOUS
  <2>1. Cursor(A, i) \in Nat
    BY <1>1, CursorType DEF n
  <2>2. CASE i < n
    <3>1. i + 1 \in 1..n
      BY <1>2, <2>2
    <3>2. B[i] = A[i] /\ B[i + 1] = A[i + 1] /\ i < Len(A) /\ i < Len(B)
      BY <1>2, <2>2, <3>1 DEF n
    <3> QED BY <2>1, <3>2 DEF Cursor
  <2>3. CASE i = n
    <3>1. B[i] = A[i] /\ B[i + 1].parent = 0 /\ i # 0 /\ ~(i < Len(A))
      BY <1>2, <2>3 DEF n
    <3> QED BY <2>1, <3>1 DEF Cursor
  <2> QED BY <1>2, <2>2, <2>3
<1>4. Keeps(A, B, n)
  BY <1>2, <1>3 DEF Keeps, n
<1>5. Fresh(A, B, H)
  BY <1>2 DEF Fresh, n
<1>6. Pushed(A, B, H)
  BY <1>1, <1>2, <1>3, <1>4, <1>5 DEF Pushed, Within, n
<1>7. B[Len(A) + 1].parent = 0 /\ Len(B) = Len(A) + 1
  BY <1>2 DEF n
<1> QED BY <1>2, <1>6, <1>7, PushOK DEF B

\* An area that takes half of what the innermost one has left.
LEMMA PushHalf ==
  ASSUME NEW A, NEW G, NEW C, NEW H, StackOK(A, G, C, H), \A b \in Buffers : H[b] \in Nat,
         C[Len(C)] < Len(A),
         NEW h \in Nat, A[Len(A)].used + h <= A[Len(A)].cap,
         NEW a \in Area, a.parent = Len(A), a.buf = A[Len(A)].buf,
         a.base = A[Len(A)].base + A[Len(A)].used, a.start = A[Len(A)].used,
         a.used = 0, a.cap = h
  PROVE  StackOK(Append(Moved(A, Len(A), A[Len(A)].used + h), a), Append(G, << >>), C, H)
<1> DEFINE n == Len(A)
           v == A[n].used + h
           D == Moved(A, n, v)
           B == Append(D, a)
<1>1. A \in Seq(Area) /\ C \in Seq(Nat) /\ Len(C) > 0 /\ Nested(A) /\ Within(A, H) /\ Roots(A, C)
  BY DEF StackOK, StackInv
<1>2. n \in Nat /\ n \in 1..n
  <2>1. C[Len(C)] \in Nat
    BY ONLY <1>1, LastCall
  <2> QED BY <1>1, <2>1
<1>3. A[n].used \in Nat /\ A[n].base \in Nat /\ A[n].cap \in Nat /\ v \in Nat
  BY ONLY <1>1, <1>2, FieldsOf, h \in Nat DEF Fields
<1>4. a.parent = n /\ a.buf = A[n].buf /\ a.base = A[n].base + A[n].used /\ a.start = A[n].used
      /\ a.used = 0 /\ a.cap = h /\ A[n].used + h <= A[n].cap /\ v = A[n].used + h
  OBVIOUS
<1> HIDE DEF v
<1>5. /\ D \in Seq(Area) /\ Len(D) = n
      /\ \A i \in 1..n : i # n => D[i] = A[i]
      /\ D[n].buf = A[n].buf /\ D[n].base = A[n].base /\ D[n].cap = A[n].cap
      /\ D[n].parent = A[n].parent /\ D[n].start = A[n].start
      /\ D[n].used = v
  BY ONLY <1>1, <1>2, <1>3, SetUsed
<1> HIDE DEF D
<1>6. B \in Seq(Area) /\ Len(B) = n + 1 /\ B[n + 1] = a /\ \A i \in 1..n : B[i] = D[i]
  BY ONLY <1>2, <1>5, a \in Area
<1> HIDE DEF B, n
<1>7. \A i \in 1..n : i < n => B[i] = A[i]
  BY <1>2, <1>5, <1>6
<1>8. /\ B[n].buf = A[n].buf /\ B[n].base = A[n].base /\ B[n].cap = A[n].cap
      /\ B[n].parent = A[n].parent /\ B[n].start = A[n].start /\ B[n].used = v
  BY ONLY <1>2, <1>5, <1>6
<1>9. \A i \in 1..n : Cursor(B, i) = Cursor(A, i) /\ Cursor(A, i) \in Nat
  <2> SUFFICES ASSUME NEW i \in 1..n
               PROVE  Cursor(B, i) = Cursor(A, i) /\ Cursor(A, i) \in Nat
    OBVIOUS
  <2>1. Cursor(A, i) \in Nat
    BY <1>1, CursorType DEF n
  <2>2. CASE i < n
    <3>1. B[i] = A[i] /\ i < Len(A) /\ i < Len(B)
      BY <1>2, <1>6, <1>7, <2>2 DEF n
    <3>2. B[i + 1].parent = A[i + 1].parent /\ B[i + 1].start = A[i + 1].start
      <4>1. CASE i + 1 = n
        BY <1>8, <4>1
      <4>2. CASE i + 1 < n
        <5>1. i + 1 \in 1..n
          BY <1>2, <4>2
        <5> QED BY <1>7, <4>2, <5>1
      <4> QED BY <1>2, <2>2, <4>1, <4>2
    <3> QED BY <2>1, <3>1, <3>2 DEF Cursor
  <2>3. CASE i = n
    <3>1. B[i + 1].parent = i /\ B[i + 1].start = A[i].used /\ i < Len(B) /\ ~(i < Len(A))
      BY <1>2, <1>4, <1>6, <2>3 DEF n
    <3> QED BY <2>1, <3>1 DEF Cursor
  <2> QED BY <1>2, <2>2, <2>3
<1>10. Keeps(A, B, n)
  <2>1. /\ n \in 0..Len(A) /\ n <= Len(B) /\ Nested(A) /\ A \in Seq(Area) /\ B \in Seq(Area)
    BY ONLY <1>1, <1>2, <1>6 DEF n
  <2>2. Cursor(A, n) <= Cursor(B, n)
    BY ONLY <1>2, <1>9
  <2> QED BY ONLY <1>7, <1>8, <2>1, <2>2, KeepsFirst
<1>11. \A i \in 1..n : B[i].used <= B[i].cap
  <2> SUFFICES ASSUME NEW i \in 1..n
               PROVE  B[i].used <= B[i].cap
    OBVIOUS
  <2>1. A[i].used <= A[i].cap
    BY <1>1 DEF Within, n
  <2>2. CASE i = n
    BY <1>4, <1>8, <2>2
  <2>3. CASE i < n
    BY <1>7, <2>1, <2>3
  <2> QED BY <1>2, <2>2, <2>3
<1>12. Halved(A, B)
  BY <1>2, <1>3, <1>4, <1>6, <1>8 DEF Halved, n
<1>13. Pushed(A, B, H)
  BY <1>3, <1>4, <1>6, <1>9, <1>10, <1>11, <1>12 DEF Pushed, n
<1>14. Len(B) = Len(A) + 1 /\ C[Len(C)] # Len(A)
  BY <1>1, <1>2, <1>6, LastCall DEF n
<1> QED BY <1>6, <1>13, <1>14, PushOK DEF B, D, v, n

\* n bytes at an aligned offset.
LEMMA Aligned ==
  ASSUME NEW u \in Nat
  PROVE  AlignUp(u) \in Nat /\ u <= AlignUp(u)
BY DEF AlignUp

\* An allocation from the innermost area.
LEMMA AllocOK ==
  ASSUME NEW A, NEW G, NEW C, NEW H, StackOK(A, G, C, H), NEW i, i = Len(A), i > 0,
         NEW n \in Nat, Fits(A[i], n)
  PROVE  StackOK([A EXCEPT ![i].used = Next8(A[i], n)],
                 [G EXCEPT ![i] = Append(@, [lo |-> A[i].base + AlignUp(A[i].used),
                                             hi |-> A[i].base + Next8(A[i], n)])],
                 C, H)
<1> DEFINE v == Next8(A[i], n)
           x == [lo |-> A[i].base + AlignUp(A[i].used), hi |-> A[i].base + Next8(A[i], n)]
           B == Moved(A, i, v)
           F == [G EXCEPT ![i] = Append(@, x)]
<1>1. /\ A \in Seq(Area) /\ G \in Seq(Seq(Extent)) /\ C \in Seq(Nat) /\ Len(G) = Len(A)
      /\ Len(C) > 0 /\ \A c \in 1..Len(C) : C[c] <= Len(A)
  BY DEF StackOK
<1>2. StackInv(A, G, C, H) /\ Nested(A) /\ Within(A, H)
  BY DEF StackOK, StackInv
<1>3. i \in 1..Len(A) /\ i \in Nat
  BY <1>1
<1>4. A[i].used \in Nat /\ A[i].base \in Nat /\ A[i].cap \in Nat
  BY ONLY <1>1, <1>3, FieldsOf DEF Fields
<1>5. AlignUp(A[i].used) \in Nat /\ A[i].used <= AlignUp(A[i].used)
  BY ONLY <1>4, Aligned
<1>6. v \in Nat /\ A[i].used <= v /\ v <= A[i].cap /\ v = AlignUp(A[i].used) + n
  BY <1>4, <1>5 DEF Fits, Next8
<1>7. x \in Extent /\ A[i].base + A[i].used <= x.lo /\ x.lo <= x.hi /\ x.hi = A[i].base + v
  <2>1. ASSUME NEW b \in Nat, NEW u \in Nat, NEW w \in Nat, NEW m \in Nat, u <= w
        PROVE  /\ b + w \in Nat /\ b + (w + m) \in Nat /\ b + u <= b + w /\ b + w <= b + (w + m)
    BY ONLY <2>1
  <2>2. /\ x.lo = A[i].base + AlignUp(A[i].used) /\ x.hi = A[i].base + v
        /\ x = [lo |-> x.lo, hi |-> x.hi]
    OBVIOUS
  <2> DEFINE w == AlignUp(A[i].used)
             b == A[i].base
             u == A[i].used
  <2>4. b \in Nat /\ u \in Nat /\ w \in Nat /\ n \in Nat /\ u <= w
    BY ONLY <1>4, <1>5, n \in Nat
  <2>5. x.lo = b + w /\ x.hi = b + (w + n)
    BY <1>6, <2>2
  <2> HIDE DEF x, v, B, F, w, b, u
  <2>6. x.lo \in Nat /\ x.hi \in Nat /\ b + u <= x.lo /\ x.lo <= x.hi
    BY ONLY <2>1, <2>4, <2>5
  <2>3. x.lo \in Nat /\ x.hi \in Nat /\ A[i].base + A[i].used <= x.lo /\ x.lo <= x.hi
    BY ONLY <2>6 DEF b, u
  <2> QED BY ONLY <2>2, <2>3 DEF Extent
<1> HIDE DEF x
<1>8. /\ F \in Seq(Seq(Extent)) /\ Len(F) = Len(A) /\ F[i] = Append(G[i], x)
      /\ \A j \in 1..Len(A) : j < i => F[j] = G[j]
  <2>1. G[i] \in Seq(Extent) /\ i \in 1..Len(G)
    BY <1>1, <1>3
  <2>2. Append(G[i], x) \in Seq(Extent)
    BY <1>7, <2>1
  <2> QED BY ONLY <1>1, <1>3, <2>1, <2>2
<1> HIDE DEF v, F
<1>9. /\ B \in Seq(Area) /\ Len(B) = Len(A)
      /\ \A j \in 1..Len(A) : j # i => B[j] = A[j]
      /\ B[i].buf = A[i].buf /\ B[i].base = A[i].base /\ B[i].cap = A[i].cap
      /\ B[i].parent = A[i].parent /\ B[i].start = A[i].start
      /\ B[i].used = v
  <2>1. A \in Seq(Area) /\ i \in 1..Len(A) /\ v \in Nat
    BY ONLY <1>1, <1>3, <1>6
  <2> QED BY ONLY <2>1, SetUsed
<1> HIDE DEF B
<1>10. Cursor(A, i) = A[i].used /\ Cursor(B, i) = v
  BY <1>3, <1>9 DEF Cursor
<1>11. Keeps(A, B, i)
  <2>1. /\ i \in 0..Len(A) /\ i <= Len(B) /\ Nested(A) /\ A \in Seq(Area) /\ B \in Seq(Area)
        /\ \A j \in 1..i : j < i => B[j] = A[j]
    BY ONLY <1>1, <1>2, <1>3, <1>9
  <2>2. Cursor(A, i) <= Cursor(B, i)
    BY ONLY <1>6, <1>10
  <2> QED BY ONLY <1>9, <2>1, <2>2, KeepsFirst
<1>12. \A j \in 1..i : B[j].used <= B[j].cap
  <2> SUFFICES ASSUME NEW j \in 1..i
               PROVE  B[j].used <= B[j].cap
    OBVIOUS
  <2>1. A[j].used <= A[j].cap
    BY <1>2, <1>3 DEF Within
  <2>2. CASE j = i
    BY <1>6, <1>9, <2>2
  <2>3. CASE j < i
    BY <1>3, <1>9, <2>1, <2>3
  <2> QED BY <1>3, <2>2, <2>3
<1>13. StackInv(B, F, C, H)
  <2>1. x.hi = B[i].base + B[i].used
    BY <1>7, <1>9
  <2>2. /\ Len(A) = i /\ Len(B) = i /\ Len(G) = i /\ Len(F) = i
        /\ \A j \in 1..i : j < i => F[j] = G[j]
    BY <1>1, <1>8, <1>9
  <2> QED BY ONLY <1>1, <1>2, <1>3, <1>7, <1>8, <1>9, <1>11, <1>12, <2>1, <2>2, AllocStack
<1> QED BY <1>1, <1>8, <1>9, <1>13 DEF StackOK, B, F, v, x, Moved

\* A function is called.
LEMMA CallOK ==
  ASSUME NEW A, NEW G, NEW C, NEW H, StackOK(A, G, C, H)
  PROVE  StackOK(A, G, Append(C, Len(A)), H)
<1> DEFINE D == Append(C, Len(A))
<1>1. /\ A \in Seq(Area) /\ C \in Seq(Nat) /\ Len(C) > 0
      /\ \A c \in 1..Len(C) : C[c] <= Len(A)
      /\ Roots(A, C)
  BY DEF StackOK, StackInv
<1>2. /\ D \in Seq(Nat) /\ Len(D) = Len(C) + 1 /\ D[Len(C) + 1] = Len(A)
      /\ \A c \in 1..Len(C) : D[c] = C[c]
      /\ Len(A) \in Nat /\ Len(C) \in Nat
  BY <1>1
<1> HIDE DEF D
<1>5. ASSUME NEW c \in 1..Len(D)
      PROVE  c \in 1..Len(C) \/ c = Len(C) + 1
  BY ONLY <1>2, <1>5
<1>3. ASSUME NEW c \in 1..Len(D)
      PROVE  D[c] <= Len(A)
  <2>1. CASE c = Len(C) + 1
    BY <1>2, <2>1
  <2>2. CASE c \in 1..Len(C)
    <3>1. D[c] = C[c] /\ C[c] <= Len(A)
      BY <1>1, <1>2, <2>2
    <3> QED BY <3>1
  <2> QED BY <1>5, <2>1, <2>2
<1>4. Roots(A, D)
  <2> SUFFICES ASSUME NEW c \in 1..Len(D)
               PROVE  /\ \A d \in 1..c : D[d] <= D[c]
                      /\ D[c] < Len(A) => A[D[c] + 1].parent = 0
    BY DEF Roots
  <2>1. CASE c = Len(C) + 1
    BY <1>2, <1>3, <2>1
  <2>2. CASE c \in 1..Len(C)
    <3>1. D[c] = C[c] /\ \A d \in 1..c : D[d] = C[d]
      BY ONLY <1>2, <2>2
    <3>2. (\A d \in 1..c : C[d] <= C[c]) /\ (C[c] < Len(A) => A[C[c] + 1].parent = 0)
      BY ONLY <1>1, <2>2 DEF Roots
    <3> QED BY ONLY <3>1, <3>2
  <2> QED BY <1>5, <2>1, <2>2
<1> QED BY <1>2, <1>3, <1>4 DEF StackOK, StackInv, D

\* A function returns to the one that called it.
LEMMA ReturnOK ==
  ASSUME NEW A, NEW G, NEW C, NEW H, StackOK(A, G, C, H), Len(C) # 1
  PROVE  StackOK(A, G, SubSeq(C, 1, Len(C) - 1), H)
<1> DEFINE D == SubSeq(C, 1, Len(C) - 1)
<1>1. /\ A \in Seq(Area) /\ C \in Seq(Nat) /\ Len(C) > 0
      /\ \A c \in 1..Len(C) : C[c] <= Len(A)
      /\ Roots(A, C)
  BY DEF StackOK, StackInv
<1>2. /\ D \in Seq(Nat) /\ Len(D) = Len(C) - 1 /\ Len(D) > 0 /\ Len(C) \in Nat
      /\ \A c \in 1..Len(D) : D[c] = C[c]
  <2>1. Len(C) \in Nat /\ Len(C) > 1
    <3>1. Len(C) \in Nat
      BY <1>1
    <3>2. ASSUME NEW l \in Nat, l > 0, l # 1
          PROVE  l > 1
      BY ONLY <3>2
    <3> QED BY ONLY <1>1, <3>1, <3>2, Len(C) # 1
  <2>2. Len(C) - 1 \in 1..Len(C)
    BY ONLY <2>1
  <2> QED BY ONLY <1>1, <2>1, <2>2
<1> HIDE DEF D
<1>3. ASSUME NEW c \in 1..Len(D)
      PROVE  D[c] <= Len(A)
  <2>1. c \in 1..Len(C) /\ D[c] = C[c]
    BY ONLY <1>2
  <2> QED BY <1>1, <2>1
<1>4. Roots(A, D)
  <2> SUFFICES ASSUME NEW c \in 1..Len(D)
               PROVE  /\ \A d \in 1..c : D[d] <= D[c]
                      /\ D[c] < Len(A) => A[D[c] + 1].parent = 0
    BY DEF Roots
  <2>1. c \in 1..Len(C) /\ D[c] = C[c] /\ \A d \in 1..c : D[d] = C[d]
    BY ONLY <1>2
  <2>2. (\A d \in 1..c : C[d] <= C[c]) /\ (C[c] < Len(A) => A[C[c] + 1].parent = 0)
    BY ONLY <1>1, <2>1 DEF Roots
  <2> QED BY ONLY <2>1, <2>2
<1> QED BY <1>2, <1>3, <1>4 DEF StackOK, StackInv, D

-----------------------------------------------------------------------------
(* The steps                                                               *)

\* Stacks that end before or with another's buffers.
LEMMA OtherHeap ==
  ASSUME NEW A, NEW G, NEW C, NEW H, NEW I, StackOK(A, G, C, H),
         \A i \in 1..Len(A) : I[A[i].buf] = H[A[i].buf]
  PROVE  StackOK(A, G, C, I)
BY OtherBuffers DEF StackOK

\* A step changes the stack of one thread, and no buffer of the others; it
\* takes no buffer that is another thread's.
LEMMA StackStep ==
  ASSUME IInv, NEW t \in Threads, NEW A, NEW G, NEW C,
         areas' = [areas EXCEPT ![t] = A], given' = [given EXCEPT ![t] = G],
         calls' = [calls EXCEPT ![t] = C],
         exiting' \in [Threads -> BOOLEAN], heap' \in [Buffers -> Nat], spilt' \in Nat,
         StackOK(A, G, C, heap'),
         \A u \in Threads \ {t} : \A k \in 1..Len(areas[u]) :
           heap'[areas[u][k].buf] = heap[areas[u][k].buf],
         \A u \in Threads \ {t} : \A k \in 1..Len(areas[u]), i \in 1..Len(A) :
           A[i].buf # areas[u][k].buf
  PROVE  IInv'
<1>1. /\ areas \in [Threads -> Seq(Area)] /\ given \in [Threads -> Seq(Seq(Extent))]
      /\ calls \in [Threads -> Seq(Nat)]
      /\ \A u \in Threads : StackOK(areas[u], given[u], calls[u], heap)
      /\ Foreign
  BY DEF IInv
<1>2. A \in Seq(Area) /\ G \in Seq(Seq(Extent)) /\ C \in Seq(Nat)
  BY DEF StackOK
<1>3. /\ areas' \in [Threads -> Seq(Area)] /\ given' \in [Threads -> Seq(Seq(Extent))]
      /\ calls' \in [Threads -> Seq(Nat)]
      /\ areas'[t] = A /\ given'[t] = G /\ calls'[t] = C
      /\ \A u \in Threads \ {t} : /\ areas'[u] = areas[u] /\ given'[u] = given[u]
                                  /\ calls'[u] = calls[u]
  BY <1>1, <1>2
<1>4. ASSUME NEW u \in Threads
      PROVE  StackOK(areas'[u], given'[u], calls'[u], heap')
  <2>1. CASE u = t
    BY <1>3, <2>1
  <2>2. CASE u # t
    <3>1. StackOK(areas[u], given[u], calls[u], heap')
      <4>1. StackOK(areas[u], given[u], calls[u], heap)
        BY <1>1
      <4>2. \A k \in 1..Len(areas[u]) : heap'[areas[u][k].buf] = heap[areas[u][k].buf]
        BY <2>2
      <4> QED BY ONLY <4>1, <4>2, OtherHeap
    <3> QED BY <1>3, <2>2, <3>1
  <2> QED BY <2>1, <2>2
<1>5. Foreign'
  <2> SUFFICES ASSUME NEW u \in Threads, NEW v \in Threads, u # v,
                      NEW i \in 1..Len(areas'[u]), NEW k \in 1..Len(areas'[v])
               PROVE  areas'[u][i].buf # areas'[v][k].buf
    BY DEF Foreign
  <2>1. CASE u = t
    BY <1>3, <2>1
  <2>2. CASE v = t
    BY <1>3, <2>2
  <2>3. CASE u # t /\ v # t
    BY <1>1, <1>3, <2>3 DEF Foreign
  <2> QED BY <2>1, <2>2, <2>3
<1> QED BY <1>3, <1>4, <1>5 DEF IInv

\* The same for a step that takes and frees no buffer.
LEMMA QuietStep ==
  ASSUME IInv, NEW t \in Threads, NEW A, NEW G, NEW C,
         areas' = [areas EXCEPT ![t] = A], given' = [given EXCEPT ![t] = G],
         calls' = [calls EXCEPT ![t] = C],
         exiting' \in [Threads -> BOOLEAN], heap' = heap, spilt' \in Nat,
         StackOK(A, G, C, heap),
         \A i \in 1..Len(A) : \E j \in 1..Len(areas[t]) : A[i].buf = areas[t][j].buf
  PROVE  IInv'
<1>1. heap \in [Buffers -> Nat] /\ Foreign
  BY DEF IInv
<1>2. \A u \in Threads \ {t} : \A k \in 1..Len(areas[u]), i \in 1..Len(A) :
        A[i].buf # areas[u][k].buf
  BY <1>1 DEF Foreign
<1>3. heap' \in [Buffers -> Nat] /\ StackOK(A, G, C, heap')
  BY <1>1
<1>4. \A u \in Threads \ {t} : \A k \in 1..Len(areas[u]) :
        heap'[areas[u][k].buf] = heap[areas[u][k].buf]
  OBVIOUS
<1> QED BY <1>2, <1>3, <1>4, StackStep

\* The stack of a thread.
LEMMA StackOf ==
  ASSUME IInv, NEW t \in Threads
  PROVE  /\ StackOK(areas[t], given[t], calls[t], heap)
         /\ areas[t] \in Seq(Area) /\ given[t] \in Seq(Seq(Extent)) /\ calls[t] \in Seq(Nat)
         /\ Len(given[t]) = Len(areas[t]) /\ Len(calls[t]) > 0
         /\ Floor(t) \in 0..Len(areas[t])
         /\ areas = [areas EXCEPT ![t] = areas[t]]
         /\ given = [given EXCEPT ![t] = given[t]]
         /\ calls = [calls EXCEPT ![t] = calls[t]]
<1>1. StackOK(areas[t], given[t], calls[t], heap)
  BY DEF IInv
<1>2. Floor(t) \in 0..Len(areas[t])
  BY <1>1 DEF StackOK, Floor
<1> QED BY <1>1, <1>2 DEF IInv, StackOK

LEMMA InitIInv ==
  Init => IInv
<1> SUFFICES ASSUME Init
             PROVE  IInv
  OBVIOUS
<1>1. ASSUME NEW t \in Threads
      PROVE  StackOK(areas[t], given[t], calls[t], heap)
  <2>1. areas[t] = << >> /\ given[t] = << >> /\ calls[t] = <<0>>
    BY DEF Init
  <2>2. StackOK(<< >>, << >>, <<0>>, heap)
    BY DEF StackOK, StackInv, Within, Nested, Separate, Above, Filled, Roots
  <2> QED BY <2>1, <2>2
<1>2. Foreign
  BY DEF Init, Foreign
<1>3. /\ areas \in [Threads -> Seq(Area)] /\ given \in [Threads -> Seq(Seq(Extent))]
      /\ calls \in [Threads -> Seq(Nat)] /\ exiting \in [Threads -> BOOLEAN]
      /\ heap \in [Buffers -> Nat] /\ spilt \in Nat
  <2>1. << >> \in Seq(Area) /\ << >> \in Seq(Seq(Extent)) /\ <<0>> \in Seq(Nat)
    OBVIOUS
  <2> QED BY <2>1 DEF Init
<1> QED BY <1>1, <1>2, <1>3 DEF IInv

LEMMA BeginRootIInv ==
  ASSUME IInv, NEW t \in Threads, NEW k \in KiB, NEW b \in Buffers, BeginRoot(t, k, b)
  PROVE  IInv'
<1> DEFINE a == [buf |-> b, base |-> 0, used |-> 0, cap |-> Capacity(k), parent |-> 0, start |-> 0]
           A == areas[t]
<1>1. Capacity(k) \in Nat /\ Capacity(k) > 0
  <2>1. k \in Nat
    BY AreaAssumption
  <2> QED BY <2>1 DEF Capacity
<1>2. a \in Area
  BY <1>1 DEF Area
<1>3. /\ StackOK(A, given[t], calls[t], heap) /\ A \in Seq(Area)
      /\ calls = [calls EXCEPT ![t] = calls[t]]
  BY StackOf
<1>4. heap \in [Buffers -> Nat] /\ exiting \in [Threads -> BOOLEAN] /\ spilt \in Nat
  BY DEF IInv
<1>5. /\ areas' = [areas EXCEPT ![t] = Append(A, a)]
      /\ given' = [given EXCEPT ![t] = Append(given[t], << >>)]
      /\ calls' = calls /\ exiting' = exiting /\ spilt' = spilt
      /\ heap[b] = 0 /\ heap' = [heap EXCEPT ![b] = Capacity(k)]
  BY DEF BeginRoot, Push
<1>6. heap' \in [Buffers -> Nat] /\ heap'[b] = Capacity(k) /\ \A c \in Buffers : c # b => heap'[c] = heap[c]
  BY <1>1, <1>4, <1>5
<1>7. ASSUME NEW u \in Threads, NEW i \in 1..Len(areas[u])
      PROVE  areas[u][i].buf # b /\ heap'[areas[u][i].buf] = heap[areas[u][i].buf]
  <2>1. areas[u] \in Seq(Area) /\ Within(areas[u], heap)
    BY StackOf DEF StackOK, StackInv
  <2>2. areas[u][i].buf \in Buffers /\ heap[areas[u][i].buf] > 0
    BY <2>1, FieldsOf DEF Fields, Within
  <2> QED BY <1>5, <1>6, <2>2
<1> HIDE DEF A
<1>8. StackOK(A, given[t], calls[t], heap')
  BY <1>3, <1>7, OtherHeap DEF A
<1>9. StackOK(Append(A, a), Append(given[t], << >>), calls[t], heap')
  <2>1. a.parent = 0 /\ a.used <= a.cap /\ heap'[a.buf] > 0 /\ a.base + a.cap <= heap'[a.buf]
    BY <1>1, <1>6
  <2>2. (\A i \in 1..Len(A) : A[i].buf # a.buf) /\ \A c \in Buffers : heap'[c] \in Nat
    BY <1>6, <1>7 DEF A
  <2> HIDE DEF a
  <2> QED BY ONLY <1>2, <1>8, <2>1, <2>2, PushFresh
<1>10. ASSUME NEW u \in Threads \ {t}, NEW j \in 1..Len(areas[u]), NEW i \in 1..Len(Append(A, a))
       PROVE  Append(A, a)[i].buf # areas[u][j].buf
  <2>1. areas[u][j].buf # b
    BY <1>7
  <2>2. CASE i = Len(A) + 1
    <3>1. Append(A, a)[i] = a
      BY <1>2, <1>3, <2>2
    <3> QED BY <2>1, <3>1
  <2>3. CASE i \in 1..Len(A)
    <3>1. Append(A, a)[i] = A[i]
      BY <1>2, <1>3, <2>3
    <3> QED BY <2>3, <3>1 DEF IInv, Foreign, A
  <2> QED BY <1>2, <1>3, <2>2, <2>3
<1>11. /\ areas' = [areas EXCEPT ![t] = Append(A, a)]
       /\ given' = [given EXCEPT ![t] = Append(given[t], << >>)]
       /\ calls' = [calls EXCEPT ![t] = calls[t]]
       /\ exiting' \in [Threads -> BOOLEAN] /\ heap' \in [Buffers -> Nat] /\ spilt' \in Nat
  BY <1>3, <1>4, <1>5, <1>6
<1>12. \A u \in Threads \ {t} : \A j \in 1..Len(areas[u]) :
         heap'[areas[u][j].buf] = heap[areas[u][j].buf]
  BY ONLY <1>7
<1> HIDE DEF a
<1> QED BY ONLY IInv, t \in Threads, <1>9, <1>10, <1>11, <1>12, StackStep

LEMMA BeginNestedIInv ==
  ASSUME IInv, NEW t \in Threads, BeginNested(t)
  PROVE  IInv'
<1> DEFINE A == areas[t]
           n == Len(areas[t])
           outer == A[n]
           h == Half(outer)
           a == [buf |-> outer.buf, base |-> outer.base + outer.used, used |-> 0,
                 cap |-> h, parent |-> n, start |-> outer.used]
           B == Append(Moved(A, n, outer.used + h), a)
<1>1. Parent(t) = n /\ n > Floor(t) /\ ~exiting[t]
  BY DEF BeginNested, Parent
<1>2. /\ StackOK(A, given[t], calls[t], heap) /\ A \in Seq(Area)
      /\ calls[t][Len(calls[t])] \in 0..n /\ calls[t][Len(calls[t])] < n
      /\ calls = [calls EXCEPT ![t] = calls[t]]
  BY <1>1, StackOf DEF Floor
<1>3. n \in 1..n /\ n \in Nat
  BY <1>2
<1>4. /\ areas' = [areas EXCEPT ![t] = B]
      /\ given' = [given EXCEPT ![t] = Append(given[t], << >>)]
      /\ calls' = calls /\ exiting' = exiting /\ spilt' = spilt /\ heap' = heap
  BY <1>1 DEF BeginNested, Push, Moved
<1>5. /\ outer.buf \in Buffers /\ outer.base \in Nat /\ outer.used \in Nat /\ outer.cap \in Nat
  BY <1>2, <1>3, FieldsOf DEF Fields
<1>6. outer.used <= outer.cap
  BY <1>2, <1>3 DEF StackOK, StackInv, Within
<1>7. h \in Nat /\ outer.used + h <= outer.cap
  <2>1. ASSUME NEW u \in Nat, NEW c \in Nat, u <= c
        PROVE  (c - u) \div 2 \in Nat /\ u + (c - u) \div 2 <= c
    BY ONLY <2>1
  <2> HIDE DEF A, n, outer
  <2> QED BY ONLY <1>5, <1>6, <2>1 DEF Half
<1> HIDE DEF h
<1>8. a \in Area
  BY <1>3, <1>5, <1>7 DEF Area
<1>9. heap \in [Buffers -> Nat] /\ exiting \in [Threads -> BOOLEAN] /\ spilt \in Nat
  BY DEF IInv
<1>10. StackOK(B, Append(given[t], << >>), calls[t], heap)
  <2>1. /\ a.parent = n /\ a.buf = A[n].buf /\ a.base = A[n].base + A[n].used
        /\ a.start = A[n].used /\ a.used = 0 /\ a.cap = h
    OBVIOUS
  <2>2. \A b \in Buffers : heap[b] \in Nat
    BY <1>9
  <2> HIDE DEF a, A
  <2>3. n = Len(A)
    BY DEF A
  <2> QED BY ONLY <1>2, <1>7, <1>8, <2>1, <2>2, <2>3, PushHalf
<1>11. \A i \in 1..Len(B) : \E j \in 1..Len(areas[t]) : B[i].buf = areas[t][j].buf
  <2> DEFINE v == outer.used + h
             D == Moved(A, n, v)
  <2>1. /\ A \in Seq(Area) /\ n \in 1..Len(A) /\ v \in Nat
    BY <1>2, <1>3, <1>5, <1>7
  <2> HIDE DEF v, a, A, n
  <2>2. /\ D \in Seq(Area) /\ Len(D) = Len(A)
        /\ \A i \in 1..Len(A) : i # n => D[i] = A[i]
        /\ D[n].buf = A[n].buf
    BY ONLY <2>1, SetUsed
  <2> HIDE DEF D
  <2>3. \A i \in 1..Len(A) : D[i].buf = A[i].buf
    BY ONLY <2>2
  <2>4. Len(A) = n /\ n \in Nat /\ a.buf = A[n].buf /\ A = areas[t] /\ n \in 1..n
    BY <1>3 DEF A, n, a
  <2>5. Append(D, a)[n + 1] = a /\ Len(Append(D, a)) = n + 1 /\ \A i \in 1..n : Append(D, a)[i] = D[i]
    BY ONLY <1>8, <2>2, <2>4
  <2>6. \A i \in 1..(n + 1) : \E j \in 1..n : Append(D, a)[i].buf = A[j].buf
    BY ONLY <2>3, <2>4, <2>5
  <2>7. \A i \in 1..Len(Append(D, a)) : \E j \in 1..Len(areas[t]) :
          Append(D, a)[i].buf = areas[t][j].buf
    <3>1. Len(Append(D, a)) = n + 1 /\ Len(areas[t]) = n /\ areas[t] = A
      BY ONLY <2>4, <2>5
    <3> HIDE DEF A, a
    <3> QED BY ONLY <2>6, <3>1
  <2> QED BY ONLY <2>7 DEF D, v
<1> QED BY <1>2, <1>4, <1>9, <1>10, <1>11, QuietStep

LEMMA AreaAllocIInv ==
  ASSUME IInv, NEW t \in Threads, NEW n \in Sizes, AreaAlloc(t, n)
  PROVE  IInv'
<1> DEFINE i == Len(areas[t])
           A == areas[t]
           B == [A EXCEPT ![i].used = Next8(A[i], n)]
           F == [given[t] EXCEPT ![i] =
                   Append(@, [lo |-> A[i].base + AlignUp(A[i].used), hi |-> A[i].base + Next8(A[i], n)])]
<1>1. /\ StackOK(A, given[t], calls[t], heap) /\ A \in Seq(Area) /\ Floor(t) \in 0..i
      /\ calls = [calls EXCEPT ![t] = calls[t]]
  BY StackOf
<1>2. i > 0 /\ i = Len(A) /\ Fits(A[i], n) /\ i \in 1..Len(A)
  BY <1>1 DEF AreaAlloc, Open
<1>3. n \in Nat
  BY AreaAssumption
<1>4. /\ areas' = [areas EXCEPT ![t] = B] /\ given' = [given EXCEPT ![t] = F]
      /\ calls' = calls /\ exiting' = exiting /\ spilt' = spilt /\ heap' = heap
  BY DEF AreaAlloc
<1>5. StackOK(B, F, calls[t], heap)
  <2> HIDE DEF A, i
  <2> QED BY ONLY <1>1, <1>2, <1>3, AllocOK
<1>6. \A j \in 1..Len(B) : \E m \in 1..Len(areas[t]) : B[j].buf = areas[t][m].buf
  <2>1. B = Moved(A, i, Next8(A[i], n))
    BY DEF Moved
  <2>2. A \in Seq(Area) /\ i \in 1..Len(A) /\ Next8(A[i], n) \in Nat
    <3>1. A[i].used \in Nat
      BY <1>1, <1>2, FieldsOf DEF Fields
    <3>2. AlignUp(A[i].used) \in Nat
      BY <3>1, Aligned
    <3> QED BY <1>1, <1>2, <1>3, <3>2 DEF Next8
  <2> HIDE DEF B, A, i
  <2>3. /\ Len(B) = Len(A) /\ B[i].buf = A[i].buf
        /\ \A j \in 1..Len(A) : j # i => B[j] = A[j]
    BY ONLY <2>1, <2>2, SetUsed
  <2>4. \A j \in 1..Len(B) : \E m \in 1..Len(A) : B[j].buf = A[m].buf
    BY ONLY <2>3
  <2> QED BY ONLY <2>4 DEF A
<1>7. exiting' \in [Threads -> BOOLEAN] /\ spilt' \in Nat /\ calls' = [calls EXCEPT ![t] = calls[t]]
  BY <1>1, <1>4 DEF IInv
<1>8. heap' = heap /\ areas' = [areas EXCEPT ![t] = B] /\ given' = [given EXCEPT ![t] = F]
  BY ONLY <1>4
<1> HIDE DEF B, F
<1> QED BY ONLY IInv, t \in Threads, <1>5, <1>6, <1>7, <1>8, QuietStep

LEMMA AreaSpillIInv ==
  ASSUME IInv, NEW t \in Threads, NEW n \in Sizes, AreaSpill(t, n)
  PROVE  IInv'
BY DEF IInv, AreaSpill, Foreign

LEMMA EndNestedIInv ==
  ASSUME IInv, NEW t \in Threads, EndNested(t)
  PROVE  IInv'
<1> DEFINE A == areas[t]
           C == calls[t]
           n == Len(areas[t])
           B == [SubSeq(A, 1, n - 1) EXCEPT ![A[n].parent].used = A[n].start]
           F == SubSeq(given[t], 1, n - 1)
<1>1. /\ StackOK(A, given[t], C, heap) /\ calls = [calls EXCEPT ![t] = C]
  BY StackOf
<1>2. /\ Len(A) > C[Len(C)] /\ A[Len(A)].parent # 0
      /\ areas' = [areas EXCEPT ![t] = B] /\ given' = [given EXCEPT ![t] = F]
      /\ calls' = calls /\ exiting' = exiting /\ spilt' = spilt /\ heap' = heap
  BY DEF EndNested, Keep, Open, Floor
<1>3. /\ StackOK(B, F, C, heap) /\ Len(A) > 1 /\ Len(B) = Len(A) - 1
      /\ \A i \in 1..Len(B) : B[i].buf = A[i].buf
  <2>1. B = Ended(A)
    BY DEF Ended
  <2>2. F = SubSeq(given[t], 1, Len(A) - 1) /\ Len(A) > C[Len(C)] /\ A[Len(A)].parent # 0
    BY <1>2
  <2> HIDE DEF A, B, C, F
  <2> QED BY ONLY <1>1, <2>1, <2>2, EndStack
<1>4. Len(A) \in Nat
  BY <1>1 DEF StackOK
<1> HIDE DEF B, F
<1>5. \A i \in 1..Len(B) : \E m \in 1..Len(areas[t]) : B[i].buf = areas[t][m].buf
  <2> SUFFICES ASSUME NEW i \in 1..Len(B)
               PROVE  \E m \in 1..Len(areas[t]) : B[i].buf = areas[t][m].buf
    OBVIOUS
  <2>1. i \in 1..Len(areas[t])
    BY <1>3, <1>4
  <2> QED BY <1>3, <2>1
<1>6. exiting' \in [Threads -> BOOLEAN] /\ spilt' \in Nat /\ calls' = [calls EXCEPT ![t] = C]
  BY <1>1, <1>2 DEF IInv
<1> QED BY <1>2, <1>3, <1>5, <1>6, QuietStep

LEMMA EndRootIInv ==
  ASSUME IInv, NEW t \in Threads, EndRoot(t)
  PROVE  IInv'
<1> DEFINE A == areas[t]
           C == calls[t]
           n == Len(areas[t])
           b == A[n].buf
           B == SubSeq(A, 1, n - 1)
           F == SubSeq(given[t], 1, n - 1)
<1>1. /\ StackOK(A, given[t], C, heap) /\ calls = [calls EXCEPT ![t] = C]
      /\ A \in Seq(Area) /\ Floor(t) \in 0..n
  BY StackOf
<1>2. /\ n > Floor(t) /\ A[n].parent = 0 /\ heap' = [heap EXCEPT ![b] = 0]
      /\ areas' = [areas EXCEPT ![t] = B] /\ given' = [given EXCEPT ![t] = F]
      /\ calls' = calls /\ exiting' = exiting /\ spilt' = spilt
  BY DEF EndRoot, Keep, Open
<1>3. n \in 1..n /\ n \in Nat /\ n = Len(A) /\ n - 1 \in C[Len(C)]..Len(A) /\ n - 1 \in Nat
  BY <1>1, <1>2 DEF Floor
<1>4. StackOK(B, F, C, heap)
  <2> HIDE DEF n, A, C
  <2> QED BY ONLY <1>1, <1>3, DropStack
<1>5. Len(B) = n - 1 /\ \A i \in 1..(n - 1) : B[i] = A[i]
  BY <1>1, <1>3
<1>6. \A i \in 1..(n - 1) : A[i].buf # b
  <2> SUFFICES ASSUME NEW i \in 1..(n - 1)
               PROVE  A[i].buf # A[n].buf
    OBVIOUS
  <2>1. Separate(A)
    BY <1>1 DEF StackOK, StackInv
  <2>2. i \in 1..Len(A) /\ n \in 1..Len(A) /\ i < n /\ n <= n /\ A[n].parent = 0
    BY <1>2, <1>3
  <2> QED BY ONLY <2>1, <2>2 DEF Separate
<1>7. \A u \in Threads \ {t} : \A k \in 1..Len(areas[u]) : \A i \in 1..n : A[i].buf # areas[u][k].buf
  BY DEF IInv, Foreign
<1>8. heap \in [Buffers -> Nat] /\ exiting \in [Threads -> BOOLEAN] /\ spilt \in Nat
  BY DEF IInv
<1>9. \A u \in Threads : \A k \in 1..Len(areas[u]) : areas[u][k].buf \in Buffers
  BY StackOf, FieldsOf DEF Fields
<1>10. heap' \in [Buffers -> Nat] /\ \A c \in Buffers : c # b => heap'[c] = heap[c]
  BY <1>2, <1>8
<1> HIDE DEF b, B, F, A
<1>11. StackOK(B, F, C, heap')
  <2>1. \A i \in 1..Len(B) : heap'[B[i].buf] = heap[B[i].buf]
    <3> SUFFICES ASSUME NEW i \in 1..(n - 1)
                 PROVE  heap'[A[i].buf] = heap[A[i].buf]
      BY <1>5
    <3>1. i \in 1..Len(areas[t])
      BY <1>3
    <3>2. A[i].buf \in Buffers
      BY <1>9, <3>1 DEF A
    <3> QED BY <1>6, <1>10, <3>2
  <2> QED BY <1>4, <2>1, OtherHeap
<1>12. \A u \in Threads \ {t} : \A k \in 1..Len(areas[u]) :
         heap'[areas[u][k].buf] = heap[areas[u][k].buf]
  BY <1>3, <1>7, <1>9, <1>10 DEF b
<1>13. \A u \in Threads \ {t} : \A k \in 1..Len(areas[u]), i \in 1..Len(B) :
         B[i].buf # areas[u][k].buf
  <2>1. \A i \in 1..Len(B) : i \in 1..n /\ B[i] = A[i]
    BY <1>3, <1>5
  <2> QED BY <1>7, <2>1
<1>14. exiting' \in [Threads -> BOOLEAN] /\ spilt' \in Nat /\ calls' = [calls EXCEPT ![t] = C]
  BY <1>1, <1>2, <1>8
<1> QED BY <1>2, <1>10, <1>11, <1>12, <1>13, <1>14, StackStep

LEMMA LeaveIInv ==
  ASSUME IInv, NEW t \in Threads, NEW k \in Floor(t)..Len(areas[t]), Leave(t, k)
  PROVE  IInv'
<1> DEFINE A == areas[t]
           C == calls[t]
           B == SubSeq(A, 1, k)
           F == SubSeq(given[t], 1, k)
<1>1. /\ StackOK(A, given[t], C, heap) /\ calls = [calls EXCEPT ![t] = C]
      /\ A \in Seq(Area) /\ Floor(t) \in 0..Len(A)
  BY StackOf
<1>2. /\ areas' = [areas EXCEPT ![t] = B] /\ given' = [given EXCEPT ![t] = F]
      /\ calls' = calls /\ exiting' = exiting /\ spilt' = spilt /\ heap' = heap
  BY DEF Leave, Keep
<1>3. k \in C[Len(C)]..Len(A) /\ k \in 0..Len(A)
  BY <1>1 DEF Floor
<1>4. StackOK(B, F, C, heap)
  <2> HIDE DEF A, C
  <2> QED BY ONLY <1>1, <1>3, DropStack
<1>5. \A i \in 1..Len(B) : \E m \in 1..Len(areas[t]) : B[i].buf = areas[t][m].buf
  <2>1. Len(B) = k /\ \A i \in 1..k : i \in 1..Len(areas[t]) /\ B[i] = areas[t][i]
    BY <1>1, <1>3
  <2> QED BY <2>1
<1>6. exiting' \in [Threads -> BOOLEAN] /\ spilt' \in Nat /\ calls' = [calls EXCEPT ![t] = C]
  BY <1>1, <1>2 DEF IInv
<1> QED BY <1>2, <1>4, <1>5, <1>6, QuietStep

LEMMA CallsIInv ==
  ASSUME IInv, NEW t \in Threads, Call(t) \/ Exit(t) \/ Return(t)
  PROVE  IInv'
<1>1. /\ StackOK(areas[t], given[t], calls[t], heap)
      /\ areas = [areas EXCEPT ![t] = areas[t]] /\ given = [given EXCEPT ![t] = given[t]]
      /\ calls = [calls EXCEPT ![t] = calls[t]]
  BY StackOf
<1>2. exiting \in [Threads -> BOOLEAN] /\ spilt \in Nat
  BY DEF IInv
<1>3. ASSUME NEW C, calls' = [calls EXCEPT ![t] = C], StackOK(areas[t], given[t], C, heap),
             areas' = areas, given' = given, heap' = heap, spilt' = spilt,
             exiting' \in [Threads -> BOOLEAN]
      PROVE  IInv'
  <2>1. \A i \in 1..Len(areas[t]) : \E j \in 1..Len(areas[t]) : areas[t][i].buf = areas[t][j].buf
    OBVIOUS
  <2> QED BY <1>1, <1>2, <1>3, <2>1, QuietStep
<1>4. CASE Call(t)
  <2>1. StackOK(areas[t], given[t], Append(calls[t], Len(areas[t])), heap)
    BY <1>1, CallOK
  <2> QED BY <1>2, <1>3, <1>4, <2>1 DEF Call
<1>5. CASE Exit(t)
  BY <1>1, <1>2, <1>3, <1>5 DEF Exit
<1>6. CASE Return(t)
  <2>1. CASE Len(calls[t]) = 1
    BY <1>1, <1>2, <1>3, <1>6, <2>1 DEF Return
  <2>2. CASE Len(calls[t]) # 1
    <3>1. StackOK(areas[t], given[t], SubSeq(calls[t], 1, Len(calls[t]) - 1), heap)
      BY <1>1, <2>2, ReturnOK
    <3> QED BY <1>2, <1>3, <1>6, <2>2, <3>1 DEF Return
  <2> QED BY <2>1, <2>2
<1> QED BY <1>4, <1>5, <1>6

LEMMA NextIInv ==
  IInv /\ [Next]_vars => IInv'
<1> SUFFICES ASSUME IInv, [Next]_vars
             PROVE  IInv'
  OBVIOUS
<1>1. CASE UNCHANGED vars
  BY <1>1 DEF IInv, Foreign, vars
<1>2. ASSUME NEW t \in Threads, NEW k \in KiB, NEW b \in Buffers, BeginRoot(t, k, b)
      PROVE  IInv'
  BY <1>2, BeginRootIInv
<1>3. ASSUME NEW t \in Threads, BeginNested(t)
      PROVE  IInv'
  BY <1>3, BeginNestedIInv
<1>4. ASSUME NEW t \in Threads, NEW n \in Sizes, AreaAlloc(t, n) \/ AreaSpill(t, n)
      PROVE  IInv'
  BY <1>4, AreaAllocIInv, AreaSpillIInv
<1>5. ASSUME NEW t \in Threads, EndNested(t) \/ EndRoot(t)
      PROVE  IInv'
  BY <1>5, EndNestedIInv, EndRootIInv
<1>6. ASSUME NEW t \in Threads, NEW k \in Floor(t)..Len(areas[t]), Leave(t, k)
      PROVE  IInv'
  BY <1>6, LeaveIInv
<1>7. ASSUME NEW t \in Threads, Call(t) \/ Exit(t) \/ Return(t)
      PROVE  IInv'
  BY <1>7, CallsIInv
<1> QED BY <1>1, <1>2, <1>3, <1>4, <1>5, <1>6, <1>7 DEF Next

\* Whatever threads and functions do, each stack of areas stays nested within
\* its buffers, and no two threads have a buffer in common.
THEOREM AreaInvariant == Spec => []IInv
BY InitIInv, NextIInv, PTL DEF Spec

\* Only break and continue add a thread to those that have left a loop.
LEMMA LeftBy ==
  ASSUME NEW t \in Threads
  PROVE  /\ \A k \in KiB, b \in Buffers : BeginRoot(t, k, b) => left' = left
         /\ BeginNested(t) => left' = left
         /\ \A n \in Sizes : AreaAlloc(t, n) \/ AreaSpill(t, n) => left' = left
         /\ EndNested(t) \/ EndRoot(t) => left' = left
         /\ \A k \in Floor(t)..Len(areas[t]) : Leave(t, k) => left' = left \cup {t}
         /\ Call(t) \/ Exit(t) \/ Return(t) => left' = left
BY DEF BeginRoot, Push, BeginNested, AreaAlloc, AreaSpill, EndNested, EndRoot, Leave, Call, Exit, Return

\* Types, and what is used of an area.
THEOREM AreaTypes == Spec => []TypeOK
<1>1. IInv /\ left \subseteq Threads => TypeOK
  BY DEF IInv, TypeOK, StackOK, StackInv, Within
<1>2. Init => left \subseteq Threads
  BY DEF Init
<1>3. left \subseteq Threads /\ [Next]_vars => (left \subseteq Threads)'
  <2> SUFFICES ASSUME left \subseteq Threads, [Next]_vars
               PROVE  (left \subseteq Threads)'
    OBVIOUS
  <2>1. CASE UNCHANGED vars
    BY <2>1 DEF vars
  <2>2. CASE Next
    BY <2>2, LeftBy DEF Next
  <2> QED BY <2>1, <2>2
<1> QED BY <1>1, <1>2, <1>3, AreaInvariant, PTL DEF Spec

-----------------------------------------------------------------------------
(* What has been given out                                                 *)

LEMMA LiveParts ==
  ASSUME IInv, NEW l \in Live
  PROVE  \E t \in Threads : \E i \in 1..Len(areas[t]) : \E j \in 1..Len(given[t][i]) :
           l = <<t, i, j>>
<1>1. PICK t \in Threads : \E i \in DOMAIN given[t] : \E j \in DOMAIN given[t][i] : l = <<t, i, j>>
  BY DEF Live
<1>2. PICK i \in DOMAIN given[t] : \E j \in DOMAIN given[t][i] : l = <<t, i, j>>
  BY <1>1
<1>3. given[t] \in Seq(Seq(Extent)) /\ Len(given[t]) = Len(areas[t])
  BY StackOf
<1>4. i \in 1..Len(given[t]) /\ given[t][i] \in Seq(Extent)
  BY <1>3
<1>5. PICK j \in DOMAIN given[t][i] : l = <<t, i, j>>
  BY <1>2
<1>6. i \in 1..Len(areas[t]) /\ j \in 1..Len(given[t][i])
  BY <1>3, <1>4
<1> QED BY <1>5, <1>6

\* Where an allocation lies.
LEMMA Placed ==
  ASSUME IInv, NEW t \in Threads, NEW i \in 1..Len(areas[t]), NEW j \in 1..Len(given[t][i])
  PROVE  LET a == areas[t][i]
             x == given[t][i][j]
         IN  /\ x.lo \in Nat /\ x.hi \in Nat
             /\ a.base \in Nat /\ a.cap \in Nat /\ Cursor(areas[t], i) \in Nat
             /\ a.base <= x.lo /\ x.lo <= x.hi /\ x.hi <= a.base + Cursor(areas[t], i)
             /\ Cursor(areas[t], i) <= a.cap
             /\ heap[a.buf] \in Nat /\ heap[a.buf] > 0 /\ a.base + a.cap <= heap[a.buf]
<1>1. /\ StackOK(areas[t], given[t], calls[t], heap) /\ areas[t] \in Seq(Area)
      /\ given[t] \in Seq(Seq(Extent)) /\ Len(given[t]) = Len(areas[t])
  BY StackOf
<1>2. /\ Within(areas[t], heap) /\ Nested(areas[t]) /\ Filled(areas[t], given[t])
  BY <1>1 DEF StackOK, StackInv
<1>3. /\ given[t][i][j].lo \in Nat /\ given[t][i][j].hi \in Nat
  BY <1>1, ExtentsOf
<1>4. /\ areas[t][i].base \in Nat /\ areas[t][i].cap \in Nat /\ areas[t][i].used \in Nat
      /\ areas[t][i].buf \in Buffers
  BY <1>1, FieldsOf DEF Fields
<1>5. Cursor(areas[t], i) \in Nat /\ Cursor(areas[t], i) <= areas[t][i].used
  BY <1>1, <1>2, CursorType, CursorBound
<1>6. /\ areas[t][i].used <= areas[t][i].cap /\ heap[areas[t][i].buf] > 0
      /\ areas[t][i].base + areas[t][i].cap <= heap[areas[t][i].buf]
  BY <1>2 DEF Within
<1>7. heap[areas[t][i].buf] \in Nat
  BY <1>4 DEF IInv
<1>8. /\ areas[t][i].base <= given[t][i][j].lo /\ given[t][i][j].lo <= given[t][i][j].hi
      /\ given[t][i][j].hi <= areas[t][i].base + Cursor(areas[t], i)
  BY <1>2 DEF Filled
<1> QED BY <1>3, <1>4, <1>5, <1>6, <1>7, <1>8

\* Two areas of one stack.
LEMMA Apart ==
  ASSUME IInv, NEW t \in Threads, NEW i \in 1..Len(areas[t]), NEW k \in 1..Len(areas[t]), i < k,
         areas[t][i].buf = areas[t][k].buf,
         NEW j \in 1..Len(given[t][i]), NEW m \in 1..Len(given[t][k])
  PROVE  given[t][i][j].hi <= given[t][k][m].lo
<1>1. /\ given[t][i][j].hi \in Nat /\ areas[t][i].base \in Nat /\ Cursor(areas[t], i) \in Nat
      /\ given[t][i][j].hi <= areas[t][i].base + Cursor(areas[t], i)
  BY Placed
<1>2. /\ given[t][k][m].lo \in Nat /\ areas[t][k].base \in Nat
      /\ areas[t][k].base <= given[t][k][m].lo
  BY Placed
<1>3. areas[t][i].base + Cursor(areas[t], i) <= areas[t][k].base
  <2>1. Above(areas[t])
    BY DEF IInv, StackOK, StackInv
  <2> QED BY <2>1 DEF Above
<1>4. ASSUME NEW h \in Nat, NEW b \in Nat, NEW c \in Nat, NEW d \in Nat, NEW e \in Nat,
             h <= b + c, b + c <= d, d <= e
      PROVE  h <= e
  BY <1>4
<1> QED BY ONLY <1>1, <1>2, <1>3, <1>4

\* No two values that are alive share a byte, whichever areas, functions and
\* threads they belong to, and whatever loops have been left.
THEOREM AreaNonOverlap == Spec => []NonOverlap
<1>1. ASSUME IInv
      PROVE  NonOverlap
  <2> SUFFICES ASSUME NEW l \in Live, NEW m \in Live, l # m, BufferOf(l) = BufferOf(m)
               PROVE  Memory(l).hi <= Memory(m).lo \/ Memory(m).hi <= Memory(l).lo
    BY DEF NonOverlap
  <2>1. PICK t \in Threads : \E i \in 1..Len(areas[t]) : \E j \in 1..Len(given[t][i]) : l = <<t, i, j>>
    BY <1>1, LiveParts
  <2>2. PICK i \in 1..Len(areas[t]) : \E j \in 1..Len(given[t][i]) : l = <<t, i, j>>
    BY <2>1
  <2>3. PICK j \in 1..Len(given[t][i]) : l = <<t, i, j>>
    BY <2>2
  <2>4. PICK u \in Threads : \E k \in 1..Len(areas[u]) : \E n \in 1..Len(given[u][k]) : m = <<u, k, n>>
    BY <1>1, LiveParts
  <2>5. PICK k \in 1..Len(areas[u]) : \E n \in 1..Len(given[u][k]) : m = <<u, k, n>>
    BY <2>4
  <2>6. PICK n \in 1..Len(given[u][k]) : m = <<u, k, n>>
    BY <2>5
  <2>7. /\ Memory(l) = given[t][i][j] /\ BufferOf(l) = areas[t][i].buf
        /\ Memory(m) = given[u][k][n] /\ BufferOf(m) = areas[u][k].buf
    BY <2>3, <2>6 DEF Memory, BufferOf
  <2>8. t = u
    <3>1. Foreign
      BY <1>1 DEF IInv
    <3>2. areas[t][i].buf = areas[u][k].buf
      BY <2>7
    <3> QED BY <3>1, <3>2 DEF Foreign
  <2>9. CASE i = k
    <3>1. Filled(areas[t], given[t])
      BY <1>1 DEF IInv, StackOK, StackInv
    <3>2. j # n
      BY <2>3, <2>6, <2>8, <2>9
    <3>3. \A p, q \in 1..Len(given[t][i]) : p < q => given[t][i][p].hi <= given[t][i][q].lo
      BY <3>1 DEF Filled
    <3>4. j < n \/ n < j
      BY <3>2
    <3> QED BY <2>7, <2>8, <2>9, <3>3, <3>4
  <2>10. CASE i < k
    BY <1>1, <2>7, <2>8, <2>10, Apart
  <2>11. CASE k < i
    BY <1>1, <2>7, <2>8, <2>11, Apart
  <2> QED BY <2>8, <2>9, <2>10, <2>11
<1> QED BY <1>1, AreaInvariant, PTL

\* A value that is alive lies in a buffer that has not been freed.
THEOREM AreaNoDangling == Spec => []NoDangling
<1>1. ASSUME IInv
      PROVE  NoDangling
  <2> SUFFICES ASSUME NEW l \in Live
               PROVE  heap[BufferOf(l)] > 0 /\ Memory(l).hi <= heap[BufferOf(l)]
    BY DEF NoDangling
  <2>1. PICK t \in Threads : \E i \in 1..Len(areas[t]) : \E j \in 1..Len(given[t][i]) : l = <<t, i, j>>
    BY <1>1, LiveParts
  <2>2. PICK i \in 1..Len(areas[t]) : \E j \in 1..Len(given[t][i]) : l = <<t, i, j>>
    BY <2>1
  <2>3. PICK j \in 1..Len(given[t][i]) : l = <<t, i, j>>
    BY <2>2
  <2>4. Memory(l) = given[t][i][j] /\ BufferOf(l) = areas[t][i].buf
    BY <2>3 DEF Memory, BufferOf
  <2>5. /\ heap[areas[t][i].buf] > 0
        /\ given[t][i][j].hi <= heap[areas[t][i].buf]
    <3>1. ASSUME NEW h \in Nat, NEW b \in Nat, NEW c \in Nat, NEW d \in Nat, NEW e \in Nat,
                 h <= b + c, c <= d, b + d <= e
          PROVE  h <= e
      BY <3>1
    <3>2. /\ given[t][i][j].hi \in Nat /\ areas[t][i].base \in Nat /\ areas[t][i].cap \in Nat
          /\ Cursor(areas[t], i) \in Nat /\ heap[areas[t][i].buf] \in Nat
          /\ given[t][i][j].hi <= areas[t][i].base + Cursor(areas[t], i)
          /\ Cursor(areas[t], i) <= areas[t][i].cap
          /\ heap[areas[t][i].buf] > 0 /\ areas[t][i].base + areas[t][i].cap <= heap[areas[t][i].buf]
      BY <1>1, Placed
    <3> QED BY ONLY <3>1, <3>2
  <2> QED BY <2>4, <2>5
<1> QED BY <1>1, AreaInvariant, PTL

\* Memory of areas is safe, whatever areas, functions, threads and loops do.
THEOREM AreaMemorySafe == Spec => []MemorySafe
BY AreaTypes, AreaNonOverlap, AreaNoDangling, PTL DEF MemorySafe

-----------------------------------------------------------------------------
(* The areas of callers                                                    *)

\* What two stacks have in common.
LEMMA SamePrefix ==
  ASSUME NEW S, NEW A \in Seq(S), NEW B \in Seq(S), NEW f \in Nat, f <= Len(A), f <= Len(B),
         \A i \in 1..f : B[i] = A[i]
  PROVE  SubSeq(B, 1, f) = SubSeq(A, 1, f)
OBVIOUS

LEMMA CallerStep ==
  ASSUME IInv, IInv', NEW t \in Threads,
         Floor(t) <= Len(areas'[t]),
         \A i \in 1..Floor(t) : areas'[t][i] = areas[t][i] /\ given'[t][i] = given[t][i]
  PROVE  /\ SubSeq(areas'[t], 1, Floor(t)) = SubSeq(areas[t], 1, Floor(t))
         /\ SubSeq(given'[t], 1, Floor(t)) = SubSeq(given[t], 1, Floor(t))
<1>1. /\ areas[t] \in Seq(Area) /\ given[t] \in Seq(Seq(Extent)) /\ Len(given[t]) = Len(areas[t])
      /\ Floor(t) \in 0..Len(areas[t])
  BY StackOf
<1>2. /\ areas'[t] \in Seq(Area) /\ given'[t] \in Seq(Seq(Extent)) /\ Len(given'[t]) = Len(areas'[t])
  BY DEF IInv, StackOK
<1>3. Floor(t) \in Nat /\ Floor(t) <= Len(areas[t]) /\ Floor(t) <= Len(given[t])
      /\ Floor(t) <= Len(given'[t])
  BY <1>1, <1>2
<1> QED BY <1>1, <1>2, <1>3, SamePrefix

\* The last area of a function with a parent is not its first.
LEMMA ParentAboveFloor ==
  ASSUME IInv, NEW t \in Threads, Open(t), areas[t][Len(areas[t])].parent # 0
  PROVE  /\ areas[t][Len(areas[t])].parent = Len(areas[t]) - 1
         /\ Floor(t) < Len(areas[t]) - 1
<1> DEFINE A == areas[t]
           C == calls[t]
           n == Len(areas[t])
<1>1. /\ StackOK(A, given[t], C, heap) /\ Floor(t) \in 0..n /\ C \in Seq(Nat) /\ Len(C) > 0 /\ A \in Seq(Area)
  BY StackOf
<1>2. Nested(A) /\ Roots(A, C)
  BY <1>1 DEF StackOK, StackInv
<1>3. n \in 1..n /\ n \in Nat /\ Floor(t) < n /\ Len(C) \in 1..Len(C)
  BY <1>1 DEF Open
<1>4. A[n].parent = n - 1
  BY <1>2, <1>3 DEF Nested
<1>5. A[Floor(t) + 1].parent = 0
  BY <1>2, <1>3 DEF Roots, Floor
<1>6. Floor(t) + 1 # n
  BY <1>5
<1> QED BY <1>1, <1>3, <1>4, <1>6

\* What a step of thread t leaves of its stack and of the others.
Untouched(t) ==
  /\ Floor(t) <= Len(areas'[t])
  /\ \A i \in 1..Floor(t) : areas'[t][i] = areas[t][i] /\ given'[t][i] = given[t][i]
  /\ \A u \in Threads \ {t} : areas'[u] = areas[u] /\ given'[u] = given[u]

LEMMA UntouchedBy ==
  ASSUME IInv, NEW t \in Threads, NEW B, NEW F,
         areas' = [areas EXCEPT ![t] = B], given' = [given EXCEPT ![t] = F],
         Floor(t) <= Len(B), \A i \in 1..Floor(t) : B[i] = areas[t][i] /\ F[i] = given[t][i]
  PROVE  Untouched(t)
<1>1. areas \in [Threads -> Seq(Area)] /\ given \in [Threads -> Seq(Seq(Extent))]
  BY DEF IInv
<1>2. /\ areas'[t] = B /\ given'[t] = F
      /\ \A u \in Threads \ {t} : areas'[u] = areas[u] /\ given'[u] = given[u]
  BY <1>1
<1> QED BY <1>2 DEF Untouched

\* Areas are begun by a function behind those of its callers.
LEMMA BeginUntouched ==
  ASSUME IInv, NEW t \in Threads,
         (\E k \in KiB, b \in Buffers : BeginRoot(t, k, b)) \/ BeginNested(t)
  PROVE  Untouched(t)
<1> DEFINE A == areas[t]
           G == given[t]
           n == Len(areas[t])
           F == Append(G, << >>)
<1>1. /\ A \in Seq(Area) /\ G \in Seq(Seq(Extent)) /\ Len(G) = n /\ n \in Nat
      /\ Floor(t) \in 0..n
  BY StackOf
<1>2. \A i \in 1..Floor(t) : F[i] = G[i]
  BY ONLY <1>1
<1>3. ASSUME NEW D \in Seq(Area), Len(D) = n, \A i \in 1..Floor(t) : D[i] = A[i],
             NEW a, areas' = [areas EXCEPT ![t] = Append(D, a)], given' = [given EXCEPT ![t] = F]
      PROVE  Untouched(t)
  <2> DEFINE B == Append(D, a)
  <2>1. Len(B) = n + 1 /\ \A i \in 1..n : B[i] = D[i]
    BY ONLY <1>1, <1>3
  <2>2. areas' = [areas EXCEPT ![t] = B]
    BY <1>3
  <2> HIDE DEF B, F
  <2>3. Floor(t) <= Len(B) /\ \A i \in 1..Floor(t) : B[i] = areas[t][i] /\ F[i] = given[t][i]
    BY <1>1, <1>2, <1>3, <2>1
  <2> QED BY <1>3, <2>2, <2>3, UntouchedBy
<1>4. ASSUME NEW k \in KiB, NEW b \in Buffers, BeginRoot(t, k, b)
      PROVE  Untouched(t)
  <2> DEFINE a == [buf |-> b, base |-> 0, used |-> 0, cap |-> Capacity(k), parent |-> 0, start |-> 0]
  <2>1. areas' = [areas EXCEPT ![t] = Append(A, a)] /\ given' = [given EXCEPT ![t] = F]
    BY <1>4 DEF BeginRoot, Push
  <2> HIDE DEF a, F
  <2> QED BY <1>1, <1>3, <2>1
<1>5. ASSUME BeginNested(t)
      PROVE  Untouched(t)
  <2> DEFINE a == [buf |-> A[n].buf, base |-> A[n].base + A[n].used, used |-> 0,
                   cap |-> Half(A[n]), parent |-> n, start |-> A[n].used]
             v == A[n].used + Half(A[n])
             D == Moved(A, n, v)
  <2>1. n > Floor(t) /\ Parent(t) = n
    BY <1>5 DEF BeginNested, Parent
  <2>2. areas' = [areas EXCEPT ![t] = Append(D, a)] /\ given' = [given EXCEPT ![t] = F]
    BY <1>5, <2>1 DEF BeginNested, Push, Moved
  <2>3. n \in 1..Len(A)
    BY <1>1, <2>1
  <2>4. A[n].used \in Nat /\ A[n].cap \in Nat
    BY <1>1, <2>3, FieldsOf DEF Fields
  <2>5. A[n].used <= A[n].cap
    BY <2>3, StackOf DEF StackOK, StackInv, Within
  <2>6. v \in Nat
    <3>1. ASSUME NEW u \in Nat, NEW c \in Nat, u <= c
          PROVE  u + (c - u) \div 2 \in Nat
      BY ONLY <3>1
    <3> HIDE DEF A, n
    <3> QED BY ONLY <2>4, <2>5, <3>1 DEF Half, v
  <2>7. D \in Seq(Area) /\ Len(D) = Len(A) /\ \A i \in 1..Len(A) : i # n => D[i] = A[i]
    <3>1. A \in Seq(Area)
      BY <1>1
    <3> HIDE DEF v, A, n
    <3> QED BY ONLY <2>3, <2>6, <3>1, SetUsed
  <2> HIDE DEF D, a, F
  <2>8. \A i \in 1..Floor(t) : D[i] = A[i]
    BY <1>1, <2>1, <2>7
  <2> QED BY <1>3, <2>2, <2>7, <2>8
<1> QED BY <1>4, <1>5

\* Areas are ended and left by the function that has begun them.
LEMMA EndUntouched ==
  ASSUME IInv, NEW t \in Threads,
         EndNested(t) \/ EndRoot(t) \/ (\E k \in Floor(t)..Len(areas[t]) : Leave(t, k))
  PROVE  Untouched(t)
<1> DEFINE A == areas[t]
           G == given[t]
           n == Len(areas[t])
<1>1. /\ A \in Seq(Area) /\ G \in Seq(Seq(Extent)) /\ Len(G) = n /\ n \in Nat
      /\ Floor(t) \in 0..n
  BY StackOf
<1>2. ASSUME NEW k \in Floor(t)..n
      PROVE  /\ SubSeq(A, 1, k) \in Seq(Area) /\ Len(SubSeq(A, 1, k)) = k
             /\ \A i \in 1..k : SubSeq(A, 1, k)[i] = A[i] /\ SubSeq(G, 1, k)[i] = G[i]
  <2>1. k \in 0..n /\ Len(A) = n
    BY <1>1
  <2> HIDE DEF A, G, n
  <2> QED BY ONLY <1>1, <2>1
<1>3. ASSUME NEW k \in Floor(t)..n, areas' = [areas EXCEPT ![t] = SubSeq(@, 1, k)],
             given' = [given EXCEPT ![t] = SubSeq(@, 1, k)]
      PROVE  Untouched(t)
  <2> DEFINE B == SubSeq(A, 1, k)
             F == SubSeq(G, 1, k)
  <2>1. areas' = [areas EXCEPT ![t] = B] /\ given' = [given EXCEPT ![t] = F]
    BY <1>3
  <2>2. Len(B) = k /\ \A i \in 1..k : B[i] = A[i] /\ F[i] = G[i]
    BY <1>2
  <2> HIDE DEF B, F
  <2>3. Floor(t) <= Len(B) /\ \A i \in 1..Floor(t) : B[i] = areas[t][i] /\ F[i] = given[t][i]
    BY <1>1, <2>2
  <2> QED BY <2>1, <2>3, UntouchedBy
<1>4. ASSUME EndNested(t)
      PROVE  Untouched(t)
  <2> DEFINE D == SubSeq(A, 1, n - 1)
             v == A[n].start
             B == Moved(D, n - 1, v)
             F == SubSeq(G, 1, n - 1)
  <2>1. Open(t) /\ A[n].parent # 0
    BY <1>4 DEF EndNested
  <2>2. A[n].parent = n - 1 /\ Floor(t) < n - 1
    BY <2>1, ParentAboveFloor
  <2>3. areas' = [areas EXCEPT ![t] = B] /\ given' = [given EXCEPT ![t] = F]
    BY <1>4, <2>2 DEF EndNested, Keep, Moved
  <2>4. n - 1 \in Floor(t)..n /\ n \in 1..n
    BY <1>1, <2>2
  <2>5. v \in Nat
    BY <1>1, <2>4, FieldsOf DEF Fields
  <2>6. D \in Seq(Area) /\ Len(D) = n - 1 /\ \A i \in 1..(n - 1) : D[i] = A[i] /\ F[i] = G[i]
    BY <1>2, <2>4
  <2> HIDE DEF D, v, F
  <2>7. n - 1 \in 1..Len(D)
    BY <1>1, <2>2, <2>6
  <2>8. Len(B) = Len(D) /\ \A i \in 1..Len(D) : i # n - 1 => B[i] = D[i]
    <3> DEFINE k == n - 1
    <3>1. D \in Seq(Area) /\ k \in 1..Len(D) /\ B = Moved(D, k, v)
      BY <2>6, <2>7
    <3> HIDE DEF k, B
    <3>2. Len(B) = Len(D) /\ \A i \in 1..Len(D) : i # k => B[i] = D[i]
      BY ONLY <2>5, <3>1, SetUsed
    <3> QED BY <3>2 DEF k
  <2> HIDE DEF B
  <2>9. Floor(t) <= Len(B) /\ \A i \in 1..Floor(t) : B[i] = areas[t][i] /\ F[i] = given[t][i]
    <3>1. Floor(t) \in Nat /\ n - 1 \in Nat /\ Floor(t) < n - 1 /\ Len(B) = n - 1
      BY <1>1, <2>2, <2>6, <2>8
    <3>2. \A i \in 1..Floor(t) : i \in 1..(n - 1) /\ i # n - 1
      BY ONLY <3>1
    <3>3. \A i \in 1..(n - 1) : D[i] = A[i] /\ F[i] = G[i]
      BY <2>6
    <3>4. \A i \in 1..(n - 1) : i # n - 1 => B[i] = D[i]
      BY <2>6, <2>8
    <3> QED BY <3>1, <3>2, <3>3, <3>4
  <2> QED BY <2>3, <2>9, UntouchedBy
<1>5. ASSUME EndRoot(t)
      PROVE  Untouched(t)
  <2>1. n - 1 \in Floor(t)..n
    BY <1>1, <1>5 DEF EndRoot, Open
  <2> QED BY <1>3, <1>5, <2>1 DEF EndRoot, Keep
<1>6. ASSUME NEW k \in Floor(t)..n, Leave(t, k)
      PROVE  Untouched(t)
  BY <1>3, <1>6 DEF Leave, Keep
<1> QED BY <1>4, <1>5, <1>6

\* An allocation moves the cursor of an area of the function that runs.
LEMMA AllocUntouched ==
  ASSUME IInv, NEW t \in Threads, NEW m \in Sizes, AreaAlloc(t, m)
  PROVE  Untouched(t)
<1> DEFINE A == areas[t]
           G == given[t]
           n == Len(areas[t])
           B == [A EXCEPT ![n].used = Next8(A[n], m)]
           F == [G EXCEPT ![n] = Append(@, [lo |-> A[n].base + AlignUp(A[n].used),
                                            hi |-> A[n].base + Next8(A[n], m)])]
<1>1. /\ A \in Seq(Area) /\ G \in Seq(Seq(Extent)) /\ Len(G) = n /\ n \in Nat
      /\ Floor(t) \in 0..n
  BY StackOf
<1>2. areas' = [areas EXCEPT ![t] = B] /\ given' = [given EXCEPT ![t] = F] /\ n > Floor(t)
  BY DEF AreaAlloc, Open
<1>3. Len(B) = n /\ \A i \in 1..Floor(t) : B[i] = A[i] /\ F[i] = G[i]
  BY <1>1, <1>2
<1> HIDE DEF B, F
<1>4. Floor(t) <= Len(B) /\ \A i \in 1..Floor(t) : B[i] = areas[t][i] /\ F[i] = given[t][i]
  BY <1>1, <1>3
<1> QED BY <1>2, <1>4, UntouchedBy

LEMMA QuietUntouched ==
  ASSUME IInv, NEW t \in Threads,
         (\E m \in Sizes : AreaSpill(t, m)) \/ Call(t) \/ Exit(t) \/ Return(t)
  PROVE  Untouched(t)
<1>1. areas' = areas /\ given' = given
  BY DEF AreaSpill, Call, Exit, Return
<1>2. Floor(t) \in 0..Len(areas[t]) /\ Len(areas[t]) \in Nat
  BY StackOf
<1> QED BY <1>1, <1>2 DEF Untouched

\* A function leaves the areas of its callers, and what they have given out,
\* as they are.
THEOREM AreaCallerUntouched == Spec => CallerUntouched
<1>1. ASSUME IInv, IInv', [Next]_vars
      PROVE  [\A t \in Threads :
               /\ SubSeq(areas'[t], 1, Floor(t)) = SubSeq(areas[t], 1, Floor(t))
               /\ SubSeq(given'[t], 1, Floor(t)) = SubSeq(given[t], 1, Floor(t))]_vars
  <2>1. CASE UNCHANGED vars
    BY <2>1
  <2>2. CASE Next
    <3>1. PICK t \in Threads : Untouched(t)
      BY <1>1, <2>2, BeginUntouched, EndUntouched, AllocUntouched, QuietUntouched DEF Next
    <3>2. /\ Floor(t) <= Len(areas'[t])
          /\ \A i \in 1..Floor(t) : areas'[t][i] = areas[t][i] /\ given'[t][i] = given[t][i]
          /\ \A u \in Threads \ {t} : areas'[u] = areas[u] /\ given'[u] = given[u]
      BY <3>1 DEF Untouched
    <3>3. /\ SubSeq(areas'[t], 1, Floor(t)) = SubSeq(areas[t], 1, Floor(t))
          /\ SubSeq(given'[t], 1, Floor(t)) = SubSeq(given[t], 1, Floor(t))
      BY <1>1, <3>2, CallerStep
    <3> QED BY <3>2, <3>3
  <2> QED BY <1>1, <2>1, <2>2
<1> QED BY <1>1, AreaInvariant, PTL DEF Spec, CallerUntouched

-----------------------------------------------------------------------------
(* Programs that leave no loop from inside an area                         *)

\* An area of a stack ends where its last allocation ends.
ExactAt(A, G, i) ==
  LET n == Len(G[i])
  IN  A[i].base + Cursor(A, i) = IF n = 0 THEN A[i].base ELSE G[i][n].hi

Exact(A, G) == \A i \in 1..Len(A) : ExactAt(A, G, i)

LEMMA ExactSame ==
  ASSUME NEW A, NEW B, NEW G, NEW F, NEW i, ExactAt(A, G, i),
         B[i].base = A[i].base, F[i] = G[i], Cursor(B, i) = Cursor(A, i)
  PROVE  ExactAt(B, F, i)
BY DEF ExactAt

\* The cursor of an area that is not the innermost one.
LEMMA SameCursor ==
  ASSUME NEW A, NEW B, NEW i, i < Len(A), i < Len(B), B[i].used = A[i].used,
         B[i + 1].parent = A[i + 1].parent, B[i + 1].start = A[i + 1].start
  PROVE  Cursor(B, i) = Cursor(A, i)
BY DEF Cursor

LEMMA ExactRoot ==
  ASSUME NEW A \in Seq(Area), NEW G \in Seq(Seq(Extent)), Len(G) = Len(A), Exact(A, G),
         NEW a \in Area, a.parent = 0, a.used = 0
  PROVE  Exact(Append(A, a), Append(G, << >>))
<1> DEFINE B == Append(A, a)
           F == Append(G, << >>)
           n == Len(A)
<1>1. /\ n \in Nat /\ Len(A) = n /\ Len(B) = n + 1 /\ B[n + 1] = a /\ F[n + 1] = << >>
      /\ \A i \in 1..n : B[i] = A[i] /\ F[i] = G[i]
  OBVIOUS
<1> HIDE DEF B, F, n
<1>2. ASSUME NEW i \in 1..n
      PROVE  Cursor(B, i) = Cursor(A, i)
  <2>1. CASE i < n
    <3>1. i + 1 \in 1..n
      BY <1>1, <2>1
    <3>2. B[i] = A[i] /\ B[i + 1] = A[i + 1] /\ i < Len(A) /\ i < Len(B)
      BY <1>1, <2>1, <3>1
    <3> QED BY <3>2, SameCursor
  <2>2. CASE i = n
    <3>1. B[i + 1].parent = 0 /\ i # 0 /\ B[i] = A[i] /\ ~(i < Len(A))
      BY <1>1, <2>2
    <3> QED BY <3>1 DEF Cursor
  <2> QED BY <1>1, <2>1, <2>2
<1>3. ASSUME NEW i \in 1..n
      PROVE  ExactAt(B, F, i)
  <2>1. ExactAt(A, G, i)
    BY <1>1 DEF Exact
  <2>2. B[i].base = A[i].base /\ F[i] = G[i] /\ Cursor(B, i) = Cursor(A, i)
    BY <1>1, <1>2
  <2> QED BY ONLY <2>1, <2>2, ExactSame
<1>4. ExactAt(B, F, n + 1)
  <2>1. Cursor(B, n + 1) = 0 /\ Len(F[n + 1]) = 0 /\ B[n + 1].base \in Nat
    BY <1>1 DEF Cursor, Area
  <2> QED BY <2>1 DEF ExactAt
<1>5. \A i \in 1..Len(B) : i \in 1..n \/ i = n + 1
  BY ONLY <1>1
<1> QED BY <1>3, <1>4, <1>5 DEF Exact, B, F

LEMMA ExactHalf ==
  ASSUME NEW A \in Seq(Area), NEW G \in Seq(Seq(Extent)), Len(G) = Len(A), Exact(A, G),
         NEW n \in 1..Len(A), n = Len(A), NEW v \in Nat,
         NEW a \in Area, a.parent = n, a.start = A[n].used, a.used = 0
  PROVE  Exact(Append(Moved(A, n, v), a), Append(G, << >>))
<1> DEFINE D == Moved(A, n, v)
           B == Append(D, a)
           F == Append(G, << >>)
<1>1. /\ D \in Seq(Area) /\ Len(D) = Len(A)
      /\ \A i \in 1..Len(A) : i # n => D[i] = A[i]
      /\ D[n].base = A[n].base /\ D[n].parent = A[n].parent /\ D[n].start = A[n].start
  BY ONLY A \in Seq(Area), n \in 1..Len(A), v \in Nat, SetUsed
<1> HIDE DEF D
<1>2. /\ n \in Nat /\ Len(A) = n /\ Len(B) = n + 1 /\ B[n + 1] = a /\ F[n + 1] = << >>
      /\ \A i \in 1..n : B[i] = D[i] /\ F[i] = G[i]
  BY <1>1
<1> HIDE DEF B, F
<1>3. /\ \A i \in 1..n : i < n => B[i] = A[i]
      /\ \A i \in 1..n : /\ B[i].base = A[i].base /\ B[i].parent = A[i].parent
                          /\ B[i].start = A[i].start
  <2> SUFFICES ASSUME NEW i \in 1..n
               PROVE  /\ i < n => B[i] = A[i]
                      /\ B[i].base = A[i].base /\ B[i].parent = A[i].parent
                      /\ B[i].start = A[i].start
    OBVIOUS
  <2>1. CASE i = n
    BY <1>1, <1>2, <2>1
  <2>2. CASE i < n
    BY <1>1, <1>2, <2>2
  <2> QED BY <1>2, <2>1, <2>2
<1>4. ASSUME NEW i \in 1..n
      PROVE  Cursor(B, i) = Cursor(A, i)
  <2>1. CASE i < n
    <3>1. i + 1 \in 1..n
      BY <1>2, <2>1
    <3>2. /\ B[i].used = A[i].used /\ i < Len(A) /\ i < Len(B)
          /\ B[i + 1].parent = A[i + 1].parent /\ B[i + 1].start = A[i + 1].start
      BY <1>2, <1>3, <2>1, <3>1
    <3> QED BY ONLY <3>2, SameCursor
  <2>2. CASE i = n
    <3>1. B[i + 1].parent = i /\ B[i + 1].start = A[i].used /\ i < Len(B) /\ ~(i < Len(A))
      BY <1>2, <2>2
    <3> QED BY <3>1 DEF Cursor
  <2> QED BY <1>2, <2>1, <2>2
<1>5. ASSUME NEW i \in 1..n
      PROVE  ExactAt(B, F, i)
  <2>1. ExactAt(A, G, i)
    BY <1>2 DEF Exact
  <2>2. B[i].base = A[i].base /\ F[i] = G[i] /\ Cursor(B, i) = Cursor(A, i)
    BY <1>2, <1>3, <1>4
  <2> QED BY ONLY <2>1, <2>2, ExactSame
<1>6. ExactAt(B, F, n + 1)
  <2>1. Cursor(B, n + 1) = 0 /\ Len(F[n + 1]) = 0 /\ B[n + 1].base \in Nat
    BY <1>2 DEF Cursor, Area
  <2> QED BY <2>1 DEF ExactAt
<1>7. \A i \in 1..Len(B) : i \in 1..n \/ i = n + 1
  BY ONLY <1>2
<1> QED BY <1>5, <1>6, <1>7 DEF Exact, B, D, F

LEMMA ExactAlloc ==
  ASSUME NEW A \in Seq(Area), NEW G \in Seq(Seq(Extent)), Len(G) = Len(A), Exact(A, G),
         NEW n \in 1..Len(A), n = Len(A), NEW v \in Nat, NEW x \in Extent, x.hi = A[n].base + v
  PROVE  Exact([A EXCEPT ![n].used = v], [G EXCEPT ![n] = Append(@, x)])
<1> DEFINE B == Moved(A, n, v)
           F == [G EXCEPT ![n] = Append(@, x)]
<1>1. /\ B \in Seq(Area) /\ Len(B) = Len(A)
      /\ \A i \in 1..Len(A) : i # n => B[i] = A[i]
      /\ B[n].base = A[n].base /\ B[n].parent = A[n].parent /\ B[n].start = A[n].start
      /\ B[n].used = v
  BY ONLY A \in Seq(Area), n \in 1..Len(A), v \in Nat, SetUsed
<1>2. /\ n \in Nat /\ Len(A) = n /\ Len(B) = n
      /\ \A i \in 1..n : i < n => F[i] = G[i]
      /\ Len(F[n]) = Len(G[n]) + 1 /\ Len(G[n]) \in Nat /\ F[n][Len(F[n])] = x
  <2>1. G[n] \in Seq(Extent)
    OBVIOUS
  <2>2. F[n] = Append(G[n], x) /\ \A i \in 1..n : i < n => F[i] = G[i]
    OBVIOUS
  <2>3. Len(Append(G[n], x)) = Len(G[n]) + 1 /\ Append(G[n], x)[Len(G[n]) + 1] = x /\ Len(G[n]) \in Nat
    BY ONLY <2>1
  <2> HIDE DEF F
  <2> QED BY <1>1, <2>2, <2>3
<1> HIDE DEF B, F
<1>3. ASSUME NEW i \in 1..n, i < n
      PROVE  ExactAt(B, F, i)
  <2>1. i + 1 \in 1..n
    BY <1>2, <1>3
  <2>2. B[i + 1].parent = A[i + 1].parent /\ B[i + 1].start = A[i + 1].start
    <3>1. CASE i + 1 = n
      BY <1>1, <3>1
    <3>2. CASE i + 1 < n
      BY <1>1, <1>2, <2>1, <3>2
    <3> QED BY <1>2, <2>1, <3>1, <3>2
  <2>3. B[i] = A[i] /\ i < Len(A) /\ i < Len(B)
    BY <1>1, <1>2, <1>3
  <2>4. Cursor(B, i) = Cursor(A, i)
    BY ONLY <2>2, <2>3, SameCursor
  <2>5. ExactAt(A, G, i) /\ F[i] = G[i]
    BY <1>2, <1>3 DEF Exact
  <2> QED BY ONLY <2>3, <2>4, <2>5, ExactSame
<1>4. ExactAt(B, F, n)
  <2>1. Cursor(B, n) = v
    BY <1>1, <1>2 DEF Cursor
  <2>2. Len(F[n]) # 0
    BY <1>2
  <2> QED BY <1>1, <1>2, <2>1, <2>2 DEF ExactAt
<1>5. \A i \in 1..Len(B) : (i \in 1..n /\ i < n) \/ i = n
  BY ONLY <1>2
<1> QED BY <1>3, <1>4, <1>5 DEF Exact, B, F, Moved

\* The innermost area is ended.
LEMMA ExactEnd ==
  ASSUME NEW A \in Seq(Area), NEW G \in Seq(Seq(Extent)), Len(G) = Len(A), Exact(A, G), Nested(A),
         NEW n \in 1..Len(A), n = Len(A),
         NEW B, B = IF A[n].parent = 0 THEN SubSeq(A, 1, n - 1) ELSE Ended(A)
  PROVE  Exact(B, SubSeq(G, 1, n - 1))
<1> DEFINE k == n - 1
           D == SubSeq(A, 1, k)
           F == SubSeq(G, 1, k)
<1>1. /\ k \in Nat /\ k + 1 = n /\ k < n /\ Len(A) = n /\ n \in Nat /\ k \in 0..Len(A)
  OBVIOUS
<1>2. /\ D \in Seq(Area) /\ Len(D) = k /\ \A i \in 1..k : D[i] = A[i] /\ F[i] = G[i]
  <2> HIDE DEF k
  <2> QED BY <1>1
<1>3. B = IF A[n].parent = 0 THEN D ELSE Moved(D, A[n].parent, A[n].start)
  BY DEF Ended, Moved
<1>4. A[n].start \in Nat
  BY FieldsOf DEF Fields
<1> HIDE DEF D, F
<1>5. CASE A[n].parent = 0
  <2>1. B = D
    BY <1>3, <1>5
  <2>2. ASSUME NEW i \in 1..k
        PROVE  ExactAt(B, F, i)
    <3>1. Cursor(B, i) = Cursor(A, i)
      <4>1. CASE i < k
        <5>1. i + 1 \in 1..k /\ i < Len(A) /\ i < Len(B)
          <6>1. Len(B) = k /\ k \in Nat /\ k < Len(A) /\ Len(A) \in Nat
            BY <1>1, <1>2, <2>1
          <6> HIDE DEF k
          <6> QED BY ONLY <4>1, <6>1, i \in 1..k
        <5>2. B[i] = A[i] /\ B[i + 1] = A[i + 1]
          BY <1>2, <2>1, <5>1
        <5> QED BY ONLY <5>1, <5>2, SameCursor
      <4>2. CASE i = k
        <5>1. A[i + 1].parent = 0 /\ i # 0 /\ ~(i < Len(B)) /\ B[i] = A[i]
          BY <1>1, <1>2, <1>5, <2>1, <4>2
        <5> QED BY <5>1 DEF Cursor
      <4> QED BY <1>1, <4>1, <4>2
    <3>2. ExactAt(A, G, i) /\ B[i] = A[i] /\ F[i] = G[i]
      <4>1. i \in 1..Len(A)
        BY <1>1
      <4>2. ExactAt(A, G, i)
        BY ONLY <4>1, Exact(A, G) DEF Exact
      <4> QED BY <1>2, <2>1, <4>2
    <3> QED BY ONLY <3>1, <3>2, ExactSame
  <2> QED BY <1>2, <2>1, <2>2 DEF Exact, F
<1>6. CASE A[n].parent # 0
  <2>1. n > 1 /\ A[n].parent = k
    BY <1>1, <1>6 DEF Nested
  <2>2. k \in 1..Len(D) /\ B = Moved(D, k, A[n].start)
    BY <1>1, <1>2, <1>3, <1>6, <2>1
  <2> DEFINE v == A[n].start
  <2>3. v \in Nat /\ D \in Seq(Area) /\ B = Moved(D, k, v)
    BY <1>2, <1>4, <2>2
  <2> HIDE DEF v, k
  <2>4. /\ Len(B) = Len(D)
        /\ \A i \in 1..Len(D) : i # k => B[i] = D[i]
        /\ B[k].base = D[k].base /\ B[k].parent = D[k].parent /\ B[k].start = D[k].start
        /\ B[k].used = v
    BY ONLY <2>2, <2>3, SetUsed
  <2>5. ASSUME NEW i \in 1..k
        PROVE  ExactAt(B, F, i)
    <3>1. Cursor(B, i) = Cursor(A, i)
      <4>1. CASE i < k
        <5>1. i + 1 \in 1..k /\ i < Len(A) /\ i < Len(B)
          BY <1>1, <1>2, <2>4, <4>1
        <5>2. B[i] = A[i]
          BY <1>2, <2>4, <4>1
        <5>3. B[i + 1].parent = A[i + 1].parent /\ B[i + 1].start = A[i + 1].start
          <6>1. CASE i + 1 = k
            BY <1>2, <2>4, <5>1, <6>1
          <6>2. CASE i + 1 < k
            BY <1>2, <2>4, <5>1, <6>2
          <6>3. i + 1 = k \/ i + 1 < k
            BY ONLY <1>1, <5>1
          <6> QED BY ONLY <6>1, <6>2, <6>3
        <5> QED BY ONLY <5>1, <5>2, <5>3, SameCursor
      <4>2. CASE i = k
        <5>1. Cursor(A, k) = A[n].start
          BY <1>1, <2>1 DEF Cursor
        <5>2. Cursor(B, k) = v
          BY <1>1, <1>2, <2>4 DEF Cursor
        <5> QED BY <4>2, <5>1, <5>2 DEF v
      <4> QED BY <1>1, <4>1, <4>2
    <3>2. ExactAt(A, G, i) /\ B[i].base = A[i].base /\ F[i] = G[i]
      <4>1. i \in 1..Len(A)
        BY <1>1
      <4>2. CASE i = k
        BY <1>2, <2>4, <4>1, <4>2 DEF Exact
      <4>3. CASE i # k
        BY <1>2, <2>4, <4>1, <4>3 DEF Exact
      <4> QED BY <4>2, <4>3
    <3> QED BY ONLY <3>1, <3>2, ExactSame
  <2> QED BY <1>2, <2>4, <2>5 DEF Exact, F, k
<1> QED BY <1>5, <1>6

\* So it is with the threads that have left no loop from inside an area.
Ends == \A t \in Threads \ left : Exact(areas[t], given[t])

LEMMA EndsRestored ==
  Ends => Restored
BY DEF Ends, Exact, ExactAt, Restored

\* A step of one thread.
LEMMA EndsBy ==
  ASSUME IInv, Ends, NEW t \in Threads, NEW A, NEW G,
         areas' = [areas EXCEPT ![t] = A], given' = [given EXCEPT ![t] = G], Exact(A, G),
         left' = left
  PROVE  Ends'
<1>1. areas \in [Threads -> Seq(Area)] /\ given \in [Threads -> Seq(Seq(Extent))]
  BY DEF IInv
<1>2. /\ areas'[t] = A /\ given'[t] = G
      /\ \A u \in Threads \ {t} : areas'[u] = areas[u] /\ given'[u] = given[u]
  BY <1>1
<1>3. ASSUME NEW u \in Threads \ left
      PROVE  Exact(areas'[u], given'[u])
  <2>1. CASE u = t
    BY <1>2, <2>1
  <2>2. CASE u # t
    BY <1>2, <2>2 DEF Ends
  <2> QED BY <2>1, <2>2
<1> QED BY <1>3 DEF Ends

LEMMA BeginEnds ==
  ASSUME IInv, Ends, NEW t \in Threads \ left,
         (\E k \in KiB, b \in Buffers : BeginRoot(t, k, b)) \/ BeginNested(t)
  PROVE  Ends'
<1> DEFINE A == areas[t]
           G == given[t]
           n == Len(areas[t])
           F == Append(G, << >>)
<1>1. /\ A \in Seq(Area) /\ G \in Seq(Seq(Extent)) /\ Len(G) = Len(A) /\ n \in Nat /\ n = Len(A)
      /\ Exact(A, G) /\ Floor(t) \in 0..n
  BY StackOf DEF Ends
<1>2. ASSUME NEW k \in KiB, NEW b \in Buffers, BeginRoot(t, k, b)
      PROVE  Ends'
  <2> DEFINE a == [buf |-> b, base |-> 0, used |-> 0, cap |-> Capacity(k), parent |-> 0, start |-> 0]
             B == Append(A, a)
  <2>1. areas' = [areas EXCEPT ![t] = B] /\ given' = [given EXCEPT ![t] = F] /\ left' = left
    BY <1>2 DEF BeginRoot, Push
  <2>2. a \in Area /\ a.parent = 0 /\ a.used = 0
    <3>1. k \in Nat
      BY AreaAssumption
    <3> QED BY <3>1 DEF Area, Capacity
  <2>3. Exact(B, F)
    <3> HIDE DEF a, A, G, n
    <3> QED BY ONLY <1>1, <2>2, ExactRoot
  <2> HIDE DEF B, F
  <2> QED BY <2>1, <2>3, EndsBy
<1>3. ASSUME BeginNested(t)
      PROVE  Ends'
  <2> DEFINE a == [buf |-> A[n].buf, base |-> A[n].base + A[n].used, used |-> 0,
                   cap |-> Half(A[n]), parent |-> n, start |-> A[n].used]
             v == A[n].used + Half(A[n])
             B == Append(Moved(A, n, v), a)
  <2>1. n > Floor(t) /\ Parent(t) = n
    BY <1>3 DEF BeginNested, Parent
  <2>2. areas' = [areas EXCEPT ![t] = B] /\ given' = [given EXCEPT ![t] = F] /\ left' = left
    BY <1>3, <2>1 DEF BeginNested, Push, Moved
  <2>3. n \in 1..Len(A)
    BY <1>1, <2>1
  <2>4. A[n].used \in Nat /\ A[n].cap \in Nat /\ A[n].base \in Nat /\ A[n].buf \in Buffers
    BY <1>1, <2>3, FieldsOf DEF Fields
  <2>5. A[n].used <= A[n].cap
    BY <2>3, StackOf DEF StackOK, StackInv, Within
  <2>6. Half(A[n]) \in Nat
    <3>1. ASSUME NEW u \in Nat, NEW c \in Nat, u <= c
          PROVE  (c - u) \div 2 \in Nat
      BY ONLY <3>1
    <3> HIDE DEF A, n
    <3> QED BY ONLY <2>4, <2>5, <3>1 DEF Half
  <2>7. a \in Area /\ a.parent = n /\ a.start = A[n].used /\ a.used = 0 /\ v \in Nat
    <3>1. A[n].base + A[n].used \in Nat /\ n \in Nat /\ v \in Nat
      <4> HIDE DEF A, n, a
      <4>1. n \in Nat
        BY ONLY <1>1
      <4>2. ASSUME NEW b \in Nat, NEW u \in Nat, NEW h \in Nat
            PROVE  b + u \in Nat /\ u + h \in Nat
        BY ONLY <4>2
      <4> QED BY ONLY <2>4, <2>6, <4>1, <4>2 DEF v
    <3> HIDE DEF A, n, v
    <3>2. a \in Area
      BY <2>4, <2>6, <3>1 DEF Area
    <3> QED BY <3>1, <3>2
  <2> HIDE DEF v
  <2>8. Exact(B, F)
    <3> HIDE DEF a, A, G, n
    <3> QED BY ONLY <1>1, <2>3, <2>7, ExactHalf
  <2> HIDE DEF B, F
  <2> QED BY <2>2, <2>8, EndsBy
<1> QED BY <1>2, <1>3

LEMMA AllocEnds ==
  ASSUME IInv, Ends, NEW t \in Threads \ left, NEW m \in Sizes, AreaAlloc(t, m)
  PROVE  Ends'
<1> DEFINE A == areas[t]
           G == given[t]
           n == Len(areas[t])
           v == Next8(A[n], m)
           x == [lo |-> A[n].base + AlignUp(A[n].used), hi |-> A[n].base + Next8(A[n], m)]
           B == [A EXCEPT ![n].used = v]
           F == [G EXCEPT ![n] = Append(@, x)]
<1>1. /\ A \in Seq(Area) /\ G \in Seq(Seq(Extent)) /\ Len(G) = Len(A) /\ n \in Nat /\ n = Len(A)
      /\ Exact(A, G) /\ Floor(t) \in 0..n
  BY StackOf DEF Ends
<1>2. /\ areas' = [areas EXCEPT ![t] = B] /\ given' = [given EXCEPT ![t] = F] /\ n > Floor(t)
      /\ left' = left
  BY DEF AreaAlloc, Open
<1>3. n \in 1..Len(A)
  BY <1>1, <1>2
<1>4. A[n].used \in Nat /\ A[n].base \in Nat
  BY <1>1, <1>3, FieldsOf DEF Fields
<1>5. AlignUp(A[n].used) \in Nat /\ m \in Nat
  BY <1>4, Aligned, AreaAssumption
<1>6. v \in Nat /\ x \in Extent /\ x.hi = A[n].base + v
  <2> HIDE DEF A, n
  <2> QED BY ONLY <1>4, <1>5 DEF Next8, Extent
<1>7. Exact(B, F)
  <2> HIDE DEF A, G, n, v, x
  <2> QED BY ONLY <1>1, <1>3, <1>6, ExactAlloc
<1> HIDE DEF B, F
<1> QED BY <1>2, <1>7, EndsBy

LEMMA EndEnds ==
  ASSUME IInv, Ends, NEW t \in Threads \ left, EndNested(t) \/ EndRoot(t)
  PROVE  Ends'
<1> DEFINE A == areas[t]
           G == given[t]
           n == Len(areas[t])
           B == IF A[n].parent = 0 THEN SubSeq(A, 1, n - 1) ELSE Ended(A)
           F == SubSeq(G, 1, n - 1)
<1>1. /\ A \in Seq(Area) /\ G \in Seq(Seq(Extent)) /\ Len(G) = Len(A) /\ n \in Nat /\ n = Len(A)
      /\ Exact(A, G) /\ Floor(t) \in 0..n
  BY StackOf DEF Ends
<1>2. /\ areas' = [areas EXCEPT ![t] = B] /\ given' = [given EXCEPT ![t] = F] /\ n > Floor(t)
      /\ left' = left
  BY DEF EndNested, EndRoot, Open, Keep, Ended
<1>3. n \in 1..Len(A)
  BY <1>1, <1>2
<1>4. Nested(A)
  BY StackOf DEF StackOK, StackInv
<1>5. Exact(B, F)
  <2>1. B = IF A[n].parent = 0 THEN SubSeq(A, 1, n - 1) ELSE Ended(A)
    OBVIOUS
  <2> HIDE DEF A, G, n, B
  <2> QED BY ONLY <1>1, <1>3, <1>4, <2>1, ExactEnd
<1> HIDE DEF B, F
<1> QED BY <1>2, <1>5, EndsBy

\* A step of one thread leaves the areas of the others as they are.
LEMMA OthersSame ==
  ASSUME IInv, NEW t \in Threads, NEW u \in Threads, u # t,
         \/ \E k \in KiB, b \in Buffers : BeginRoot(t, k, b)
         \/ BeginNested(t)
         \/ \E n \in Sizes : AreaAlloc(t, n)
         \/ EndNested(t) \/ EndRoot(t)
         \/ \E k \in Floor(t)..Len(areas[t]) : Leave(t, k)
  PROVE  areas'[u] = areas[u] /\ given'[u] = given[u]
<1>1. areas \in [Threads -> Seq(Area)] /\ given \in [Threads -> Seq(Seq(Extent))]
  BY DEF IInv
<1>2. ASSUME NEW A, NEW G, areas' = [areas EXCEPT ![t] = A], given' = [given EXCEPT ![t] = G]
      PROVE  areas'[u] = areas[u] /\ given'[u] = given[u]
  BY <1>1, <1>2
<1>3. CASE \E k \in KiB, b \in Buffers : BeginRoot(t, k, b)
  BY <1>2, <1>3 DEF BeginRoot, Push
<1>4. CASE BeginNested(t)
  BY <1>2, <1>4 DEF BeginNested, Push
<1>5. CASE \E n \in Sizes : AreaAlloc(t, n)
  BY <1>1, <1>5 DEF AreaAlloc
<1>6. CASE EndNested(t) \/ EndRoot(t)
  BY <1>1, <1>6 DEF EndNested, EndRoot, Keep
<1>7. CASE \E k \in Floor(t)..Len(areas[t]) : Leave(t, k)
  BY <1>1, <1>7 DEF Leave, Keep
<1> QED BY <1>3, <1>4, <1>5, <1>6, <1>7

\* A step of a thread that has left a loop.
LEMMA EndsOfOthers ==
  ASSUME IInv, Ends, NEW t \in Threads, t \in left', left \subseteq left', left' \subseteq left \cup {t},
         \A u \in Threads : u # t => areas'[u] = areas[u] /\ given'[u] = given[u]
  PROVE  Ends'
BY DEF Ends

\* What a nested area has taken comes back to its parent when it ends, in a
\* thread that has left no loop from inside an area.
THEOREM AreaRestored == Spec => []Restored
<1>1. Init => Ends
  BY DEF Init, Ends, Exact
<1>2. ASSUME IInv, Ends, [Next]_vars
      PROVE  Ends'
  <2>1. CASE UNCHANGED vars
    BY <1>2, <2>1 DEF Ends, vars
  <2>2. ASSUME NEW t \in Threads, NEW n \in Sizes, AreaSpill(t, n)
        PROVE  Ends'
    BY <1>2, <2>2 DEF Ends, AreaSpill
  <2>3. ASSUME NEW t \in Threads, Call(t) \/ Exit(t) \/ Return(t)
        PROVE  Ends'
    BY <1>2, <2>3 DEF Ends, Call, Exit, Return
  <2>4. ASSUME NEW t \in Threads, NEW k \in Floor(t)..Len(areas[t]), Leave(t, k)
        PROVE  Ends'
    <3>1. left' = left \cup {t}
      BY <2>4, LeftBy
    <3>2. \A u \in Threads : u # t => areas'[u] = areas[u] /\ given'[u] = given[u]
      BY <1>2, <2>4, OthersSame
    <3> QED BY <1>2, <3>1, <3>2, EndsOfOthers
  <2>5. ASSUME NEW t \in Threads,
               \/ \E k \in KiB, b \in Buffers : BeginRoot(t, k, b)
               \/ BeginNested(t)
               \/ \E n \in Sizes : AreaAlloc(t, n)
               \/ EndNested(t) \/ EndRoot(t)
        PROVE  Ends'
    <3>1. CASE t \in left
      <4>1. left' = left
        BY <2>5, LeftBy
      <4>2. \A u \in Threads : u # t => areas'[u] = areas[u] /\ given'[u] = given[u]
        BY <1>2, <2>5, OthersSame
      <4> QED BY <1>2, <3>1, <4>1, <4>2, EndsOfOthers
    <3>2. CASE t \notin left
      BY <1>2, <2>5, <3>2, BeginEnds, AllocEnds, EndEnds
    <3> QED BY <3>1, <3>2
  <2> QED BY <1>2, <2>1, <2>2, <2>3, <2>4, <2>5 DEF Next
<1>3. Ends => Restored
  BY EndsRestored
<1> QED BY <1>1, <1>2, <1>3, AreaInvariant, PTL DEF Spec

\* While no loop has been left from inside an area, every buffer belongs to
\* an area that is open, and is freed with it.
THEOREM AreaReleased == Spec => []Released
<1>1. Init => Released
  BY DEF Init, Released
<1>2. ASSUME IInv, Released, [Next]_vars
      PROVE  Released'
  <2> SUFFICES ASSUME left' = {}, NEW b \in Buffers, heap'[b] > 0
               PROVE  \E u \in Threads : \E i \in 1..Len(areas'[u]) : areas'[u][i].buf = b
    BY DEF Released
  <2>11. ASSUME NEW t \in Threads, NEW k \in Floor(t)..Len(areas[t]), Leave(t, k)
         PROVE  FALSE
    BY <2>11, LeftBy
  <2>12. left = {}
    <3>1. CASE UNCHANGED vars
      BY <3>1 DEF vars
    <3>2. CASE Next
      BY <2>11, <3>2, LeftBy DEF Next
    <3> QED BY <1>2, <3>1, <3>2
  <2>13. \A c \in Buffers : heap[c] > 0 =>
           \E u \in Threads : \E i \in 1..Len(areas[u]) : areas[u][i].buf = c
    BY <1>2, <2>12 DEF Released
  <2>1. areas \in [Threads -> Seq(Area)] /\ heap \in [Buffers -> Nat]
    BY <1>2 DEF IInv
  <2>2. CASE heap' = heap /\ areas' = areas
    BY <2>2, <2>13
  <2>3. ASSUME NEW t \in Threads, NEW B, areas' = [areas EXCEPT ![t] = B], heap' = heap,
               \A i \in 1..Len(areas[t]) : \E j \in 1..Len(B) : B[j].buf = areas[t][i].buf
        PROVE  \E u \in Threads : \E i \in 1..Len(areas'[u]) : areas'[u][i].buf = b
    <3>1. PICK u \in Threads : \E i \in 1..Len(areas[u]) : areas[u][i].buf = b
      BY <2>3, <2>13
    <3>2. areas'[t] = B /\ \A w \in Threads \ {t} : areas'[w] = areas[w]
      BY <2>1, <2>3
    <3>3. CASE u = t
      BY <2>3, <3>1, <3>2, <3>3
    <3>4. CASE u # t
      BY <3>1, <3>2, <3>4
    <3> QED BY <3>3, <3>4
  <2>4. ASSUME NEW t \in Threads, NEW k \in KiB, NEW c \in Buffers, BeginRoot(t, k, c)
        PROVE  \E u \in Threads : \E i \in 1..Len(areas'[u]) : areas'[u][i].buf = b
    <3> DEFINE a == [buf |-> c, base |-> 0, used |-> 0, cap |-> Capacity(k), parent |-> 0, start |-> 0]
               n == Len(areas[t])
               B == Append(areas[t], a)
    <3>1. /\ areas' = [areas EXCEPT ![t] = B] /\ heap' = [heap EXCEPT ![c] = Capacity(k)]
      BY <2>4 DEF BeginRoot, Push
    <3>2. /\ Len(B) = n + 1 /\ n \in Nat /\ B[n + 1] = a /\ \A i \in 1..n : B[i] = areas[t][i]
      <4>1. areas[t] \in Seq(Area)
        BY <2>1
      <4> HIDE DEF a
      <4> QED BY <4>1
    <3>3. areas'[t] = B /\ \A w \in Threads \ {t} : areas'[w] = areas[w]
      BY <2>1, <3>1
    <3>4. CASE b = c
      <4>1. n + 1 \in 1..Len(B) /\ B[n + 1].buf = b
        BY <3>2, <3>4
      <4> HIDE DEF B
      <4> QED BY <3>3, <4>1
    <3>5. CASE b # c
      <4>1. heap[b] > 0
        BY <2>1, <3>1, <3>5
      <4>2. PICK u \in Threads : \E i \in 1..Len(areas[u]) : areas[u][i].buf = b
        BY <2>13, <4>1
      <4>3. CASE u = t
        <5>1. PICK i \in 1..n : areas[t][i].buf = b
          BY <4>2, <4>3
        <5>2. i \in 1..Len(B) /\ B[i].buf = b
          BY <3>2, <5>1
        <5> HIDE DEF B
        <5> QED BY <3>3, <5>2
      <4>4. CASE u # t
        BY <3>3, <4>2, <4>4
      <4> QED BY <4>3, <4>4
    <3> QED BY <3>4, <3>5
  <2>5. ASSUME NEW t \in Threads, BeginNested(t)
        PROVE  \E u \in Threads : \E i \in 1..Len(areas'[u]) : areas'[u][i].buf = b
    <3> DEFINE A == areas[t]
               n == Len(areas[t])
               v == A[n].used + Half(A[n])
               a == [buf |-> A[n].buf, base |-> A[n].base + A[n].used, used |-> 0,
                     cap |-> Half(A[n]), parent |-> n, start |-> A[n].used]
               B == Append(Moved(A, n, v), a)
    <3>1. n > Floor(t) /\ Parent(t) = n
      BY <2>5 DEF BeginNested, Parent
    <3>2. areas' = [areas EXCEPT ![t] = B] /\ heap' = heap
      BY <2>5, <3>1 DEF BeginNested, Push, Moved
    <3>3. A \in Seq(Area) /\ Floor(t) \in 0..n /\ n \in Nat /\ n = Len(A)
      BY <1>2, StackOf
    <3>4. n \in 1..Len(A)
      BY <3>1, <3>3
    <3>5. A[n].used \in Nat /\ A[n].cap \in Nat /\ A[n].used <= A[n].cap
      BY <1>2, <3>3, <3>4, FieldsOf, StackOf DEF Fields, StackOK, StackInv, Within
    <3>6. v \in Nat
      <4>1. ASSUME NEW u \in Nat, NEW c \in Nat, u <= c
            PROVE  u + (c - u) \div 2 \in Nat
        BY ONLY <4>1
      <4> HIDE DEF A, n
      <4> QED BY ONLY <3>5, <4>1 DEF Half
    <3> HIDE DEF v, a, A, n
    <3>7. /\ Moved(A, n, v) \in Seq(Area) /\ Len(Moved(A, n, v)) = Len(A)
          /\ \A i \in 1..Len(A) : i # n => Moved(A, n, v)[i] = A[i]
          /\ Moved(A, n, v)[n].buf = A[n].buf
      BY ONLY <3>3, <3>4, <3>6, SetUsed
    <3>8. \A i \in 1..n : i \in 1..Len(B) /\ B[i].buf = A[i].buf
      <4> DEFINE D == Moved(A, n, v)
      <4> HIDE DEF D
      <4>1. Len(D) = n /\ \A i \in 1..n : D[i].buf = A[i].buf /\ D \in Seq(Area)
        BY <3>3, <3>7 DEF D
      <4>2. \A i \in 1..n : i \in 1..Len(Append(D, a)) /\ Append(D, a)[i] = D[i]
        BY <3>3, <3>7, <4>1 DEF D
      <4> QED BY <4>1, <4>2 DEF D
    <3> HIDE DEF B
    <3>9. \A i \in 1..Len(areas[t]) : \E j \in 1..Len(B) : B[j].buf = areas[t][i].buf
      BY <3>8 DEF A, n
    <3> QED BY <2>3, <3>2, <3>9
  <2>6. ASSUME NEW t \in Threads, NEW n \in Sizes, AreaAlloc(t, n)
        PROVE  \E u \in Threads : \E i \in 1..Len(areas'[u]) : areas'[u][i].buf = b
    <3> DEFINE m == Len(areas[t])
               B == [areas[t] EXCEPT ![m].used = Next8(areas[t][m], n)]
    <3>1. areas' = [areas EXCEPT ![t] = B] /\ heap' = heap /\ m > Floor(t)
      BY <2>6 DEF AreaAlloc, Open
    <3>2. areas[t] \in Seq(Area) /\ Floor(t) \in 0..m /\ m \in Nat
      BY <1>2, StackOf
    <3>3. areas[t][m] \in Area
      BY <3>1, <3>2
    <3>4. Len(B) = m /\ \A i \in 1..m : B[i].buf = areas[t][i].buf
      <4>1. Len(B) = m /\ \A i \in 1..m : i # m => B[i] = areas[t][i]
        BY <3>2
      <4>2. m \in 1..m /\ B[m] = [areas[t][m] EXCEPT !.used = Next8(areas[t][m], n)]
        BY <3>1, <3>2
      <4>3. B[m].buf = areas[t][m].buf
        BY <3>3, <4>2 DEF Area
      <4> HIDE DEF B
      <4> QED BY <4>1, <4>3
    <3> HIDE DEF B
    <3>5. \A i \in 1..Len(areas[t]) : \E j \in 1..Len(B) : B[j].buf = areas[t][i].buf
      BY <3>4
    <3> QED BY <2>3, <3>1, <3>5
  <2>7. ASSUME NEW t \in Threads, EndNested(t)
        PROVE  \E u \in Threads : \E i \in 1..Len(areas'[u]) : areas'[u][i].buf = b
    <3> DEFINE A == areas[t]
               C == calls[t]
               n == Len(areas[t])
               B == Ended(A)
    <3>1. /\ StackOK(A, given[t], C, heap) /\ Floor(t) \in 0..n /\ A \in Seq(Area) /\ n \in Nat
      BY <1>2, StackOf
    <3>2. /\ Len(A) > C[Len(C)] /\ A[Len(A)].parent # 0 /\ n = Len(A)
          /\ areas' = [areas EXCEPT ![t] = B] /\ heap' = heap
      BY <2>7 DEF EndNested, Open, Floor, Ended
    <3>3. Nested(A)
      BY <3>1 DEF StackOK, StackInv
    <3> HIDE DEF A, B, C
    <3>4. n > 1 /\ Len(B) = n - 1 /\ \A i \in 1..Len(B) : B[i].buf = A[i].buf
      BY <3>1, <3>2, EndStack DEF B
    <3>5. n \in 1..n /\ A[n].buf = A[n - 1].buf /\ n - 1 \in 1..Len(B)
      <4>1. n \in 1..Len(A) /\ A[n].parent # 0
        BY <3>1, <3>2, <3>4
      <4>2. A[n].buf = A[n - 1].buf
        BY ONLY <3>3, <4>1 DEF Nested
      <4> QED BY <3>1, <3>4, <4>2
    <3>6. ASSUME NEW i \in 1..n
          PROVE  \E j \in 1..Len(B) : B[j].buf = A[i].buf
      <4>1. CASE i = n
        BY <3>4, <3>5, <4>1
      <4>2. CASE i \in 1..Len(B)
        BY <3>4, <4>2
      <4> QED BY <3>1, <3>4, <4>1, <4>2
    <3>7. \A i \in 1..Len(areas[t]) : \E j \in 1..Len(B) : B[j].buf = areas[t][i].buf
      BY <3>6 DEF A
    <3> QED BY <2>3, <3>2, <3>7
  <2>8. ASSUME NEW t \in Threads, EndRoot(t)
        PROVE  \E u \in Threads : \E i \in 1..Len(areas'[u]) : areas'[u][i].buf = b
    <3> DEFINE n == Len(areas[t])
               B == SubSeq(areas[t], 1, n - 1)
               c == areas[t][n].buf
    <3>1. /\ areas' = [areas EXCEPT ![t] = B] /\ heap' = [heap EXCEPT ![c] = 0] /\ n > Floor(t)
      BY <2>8 DEF EndRoot, Open
    <3>2. areas[t] \in Seq(Area) /\ Floor(t) \in 0..n /\ n \in Nat
      BY <1>2, StackOf
    <3>3. Len(B) = n - 1 /\ \A i \in 1..(n - 1) : B[i] = areas[t][i]
      BY <3>1, <3>2
    <3> HIDE DEF B, c
    <3>4. areas'[t] = B /\ \A w \in Threads \ {t} : areas'[w] = areas[w]
      BY <2>1, <3>1
    <3>5. b # c /\ heap[b] > 0
      BY <2>1, <3>1
    <3>6. PICK u \in Threads : \E i \in 1..Len(areas[u]) : areas[u][i].buf = b
      BY <2>13, <3>5
    <3>7. CASE u = t
      <4>1. PICK i \in 1..n : areas[t][i].buf = b
        BY <3>6, <3>7
      <4>2. i # n
        BY <3>5, <4>1 DEF c
      <4>3. i \in 1..Len(B) /\ B[i].buf = b
        BY <3>2, <3>3, <4>1, <4>2
      <4> QED BY <3>4, <4>3
    <3>8. CASE u # t
      BY <3>4, <3>6, <3>8
    <3> QED BY <3>7, <3>8
  <2>9. CASE UNCHANGED vars
    BY <2>2, <2>9 DEF vars
  <2>10. ASSUME NEW t \in Threads, Call(t) \/ Exit(t) \/ Return(t) \/ \E n \in Sizes : AreaSpill(t, n)
         PROVE  heap' = heap /\ areas' = areas
    BY <2>10 DEF Call, Exit, Return, AreaSpill
  <2> QED BY <1>2, <2>2, <2>4, <2>5, <2>6, <2>7, <2>8, <2>9, <2>10, <2>11 DEF Next
<1> QED BY <1>1, <1>2, AreaInvariant, PTL DEF Spec

\* What an area has taken comes back when it ends, unless it was left by break
\* or continue.
THEOREM AreaGivenBack == Spec => []GivenBack
BY AreaRestored, AreaReleased, PTL DEF GivenBack
=============================================================================
