------------------------------ MODULE HikeLower ------------------------------
(***************************************************************************)
(* How a function body becomes structured control nodes (pkg/lower), and   *)
(* the pass that removes transparent blocks (pkg/hir/control_normalize.go).*)
(*                                                                         *)
(* The lowerer is a record l: the table of control nodes of the function,  *)
(* in which the ID of a node is its position, counted from 0; the stack of *)
(* bodies under construction (references to a part of a node, the Go       *)
(* code's *ControlBody); the stack of loop and switch contexts; the open   *)
(* areas; the deferred calls; and whether the current block of the legacy  *)
(* control flow has its terminator, which some statements look at.  A body *)
(* is a sequence of items: instructions and references to nodes.           *)
(*                                                                         *)
(* Instructions are kept when they can be observed or decide a branch; the *)
(* others are one silent instruction where their presence shapes the tree. *)
(* Labels are pairs of a name and the ID that makes them unique; those the *)
(* code spells as constants have -1.                                       *)
(***************************************************************************)
EXTENDS SequencesExt, HikeSyntax

Item(op, x, v, r, dom) == [op |-> op, x |-> x, v |-> v, r |-> r, dom |-> dom]
Instr(op, x, v)        == Item(op, x, v, 0, {})
NodeRef(id)            == Item("node", "", id, 0, {})
Silent                 == Item("silent", "", 0, 0, {})

Bool == {0, 1}
NoLabel == <<"", -1>>

Node(k, label) ==
    [k |-> k, label |-> label, parts |-> [p \in {} |-> <<>>],
     placeholder |-> FALSE, exit |-> FALSE, of |-> -1,
     next |-> 0, brk |-> 0, cnt |-> 0, to |-> -1,
     reg |-> 0, vals |-> {}, size |-> 0, targets |-> <<>>, cont |-> -1]

BodyPart == <<"body", 0>>
InitPart == <<"init", 0>>
PostPart == <<"post", 0>>
ThenPart == <<"then", 0>>
ElsePart == <<"else", 0>>
DefaultPart == <<"default", 0>>
CasePart(i) == <<"case", i>>

At(l, id)      == l.nodes[id + 1]
Part(n, p)     == IF p \in DOMAIN n.parts THEN n.parts[p] ELSE <<>>
Body(l, ref)   == Part(At(l, ref[1]), ref[2])
SetBody(l, ref, body) ==
    [l EXCEPT !.nodes[ref[1] + 1].parts = (ref[2] :> body) @@ @]

NewID(l)       == Len(l.nodes)
RegisterControlElement(l, n) == [l EXCEPT !.nodes = Append(@, n)]
SetNext(l, id, next) == IF id < 0 THEN l ELSE [l EXCEPT !.nodes[id + 1].next = next]
SetLinks(l, id, next, brk, cnt) ==
    [l EXCEPT !.nodes[id + 1] = [@ EXCEPT !.next = next, !.brk = brk, !.cnt = cnt]]

Top(l)         == l.stack[Len(l.stack)]
Push(l, ref)   == [l EXCEPT !.stack = Append(@, ref)]
Pop(l)         == IF Len(l.stack) > 1 THEN [l EXCEPT !.stack = Front(@)] ELSE l
SetTop(l, ref) == [l EXCEPT !.stack[Len(l.stack)] = ref]
SetBlock(l)    == [l EXCEPT !.term = FALSE]

---------------------------------------------------------------------------
(* Where nodes and instructions go in a body.                              *)

IsExit(l, item)        == item.op = "node" /\ At(l, item.v).exit
IsPlaceholder(l, item) == item.op = "node" /\ At(l, item.v).placeholder
EndsInExit(l, body)    == body # <<>> /\ IsExit(l, body[Len(body)])

LastContinuationIndex(l, body) ==
    IF EndsInExit(l, body) THEN Len(body) - 1 ELSE Len(body)

BeforeExit(l, ref, item) ==
    LET body == Body(l, ref)
        n == LastContinuationIndex(l, body)
    IN  SetBody(l, ref, SubSeq(body, 1, n) \o <<item>> \o SubSeq(body, n + 1, Len(body)))

Placeholder(id, of) ==
    [Node("block", <<"next", id>>) EXCEPT !.placeholder = TRUE, !.of = of]

AppendContinuationAfter(l, ref, predecessor) ==
    LET id == NewID(l)
    IN  IF l.crashed THEN l
        ELSE BeforeExit(SetNext(RegisterControlElement(l, Placeholder(id, predecessor)),
                                predecessor, id),
                        ref, NodeRef(id))

AppendInstructionBlock(l, ref) == AppendContinuationAfter(l, ref, -1)

\* For a mutation: a placeholder gives its place up whatever it holds.
ReplacePlaceholder(l, ref, id) ==
    LET body == Body(l, ref)
        idx  == LastContinuationIndex(l, body)
    IN  IF idx > 0 /\ IsPlaceholder(l, body[idx])
        THEN SetBody(SetNext(l, At(l, body[idx].v).of, id), ref, [body EXCEPT ![idx] = NodeRef(id)])
        ELSE IF EndsInExit(l, body) THEN BeforeExit(l, ref, NodeRef(id))
        ELSE SetBody(l, ref, Append(body, NodeRef(id)))

\* The place of the registered node id: an empty placeholder gives its place
\* to the node, a filled one takes it in.
PlaceNode(l, ref, id) ==
    LET body == Body(l, ref)
        idx  == LastContinuationIndex(l, body)
        last == body[idx]
        held == <<last.v, BodyPart>>
    IN  IF idx > 0 /\ IsPlaceholder(l, last)
        THEN IF Body(l, held) = <<>>
             THEN SetBody(SetNext(l, At(l, last.v).of, id), ref,
                          [body EXCEPT ![idx] = NodeRef(id)])
             ELSE SetBody(l, held, Append(Body(l, held), NodeRef(id)))
        ELSE IF EndsInExit(l, body)
        THEN BeforeExit(SetNext(l, At(l, body[Len(body)].v).of, id), ref, NodeRef(id))
        ELSE SetBody(l, ref, Append(body, NodeRef(id)))

AppendStructuredNodeTo(l, ref, n) ==
    IF l.crashed THEN l ELSE PlaceNode(RegisterControlElement(l, n), ref, NewID(l))

AppendStructuredNode(l, n) == AppendStructuredNodeTo(l, Top(l), n)

\* Makes the placeholder that takes the next instruction if there is none.
StructuredDestination(l) ==
    LET ref  == Top(l)
        body == Body(l, ref)
        idx  == LastContinuationIndex(l, body)
    IN  IF idx > 0 /\ IsPlaceholder(l, body[idx]) THEN l
        ELSE IF body = <<>> THEN AppendInstructionBlock(l, ref)
        ELSE AppendContinuationAfter(l, ref, IF EndsInExit(l, body) THEN 0
                                             ELSE body[Len(body)].v)

\* Puts an instruction into the placeholder that is there.
PutItem(l, item) ==
    LET body == Body(l, Top(l))
        ref  == <<body[LastContinuationIndex(l, body)].v, BodyPart>>
    IN  SetBody(l, ref, Append(Body(l, ref), item))

Emit(l, item) == IF l.crashed THEN l ELSE PutItem(StructuredDestination(l), item)

EmitAll(l, items) == FoldLeft(Emit, l, items)

AreaEnds(l) == [i \in 1..Len(l.areas) |-> Instr("areaend", "", Len(l.areas) - i)]
EndAreas(l) == EmitAll(l, AreaEnds(l))
Defers(l)   == [i \in 1..Len(l.defers) |->
                   Instr("do", l.defers[Len(l.defers) + 1 - i], 0)]
RunDefers(l) == EmitAll(l, Defers(l))

\* Terminators close the legacy block: return and panic after the ends of the
\* open areas.  A jump or branch closes that block only, but looks for the
\* place of the next instruction all the same, which may make a placeholder.
Closed(l)        == [l EXCEPT !.term = TRUE]
Terminate(l, op) == Emit(Closed(IF op = "unreachable" THEN l ELSE EndAreas(l)), Instr(op, "", 0))
Jump(l)          == IF l.crashed THEN l ELSE StructuredDestination(Closed(l))

\* To the next legacy block, always or unless the current one is closed.
JumpUnlessClosed(l) == IF l.term THEN l ELSE Jump(l)
NextBlock(l) == SetBlock(Jump(l))
FallTo(l)    == SetBlock(JumpUnlessClosed(l))

---------------------------------------------------------------------------
(* A new function: root block 0 holds the exit placeholder 1.              *)

InitFunctionControl ==
    [nodes |-> << [Node("block", <<"root", 0>>)
                     EXCEPT !.parts = BodyPart :> <<NodeRef(1)>>,
                            !.next = 1, !.brk = 1, !.cnt = -1],
                  [Placeholder(1, 0) EXCEPT !.exit = TRUE] >>,
     stack |-> << <<0, BodyPart>> >>, loops |-> <<>>, areas |-> <<>>,
     defers |-> <<>>, term |-> FALSE, regs |-> 0, crashed |-> FALSE]

NewReg(l) == l.regs + 1

\* Evaluates something into a new register.
Evaluate(l, op, x, dom) ==
    Emit([l EXCEPT !.regs = @ + 1], Item(op, x, 0, NewReg(l), dom))

IfNode(l, reg, vals) ==
    [Node("if", <<"if", NewID(l)>>) EXCEPT !.reg = reg, !.vals = vals]

\* A test of what was evaluated last.
Test(l) == IfNode(l, l.regs, {1})
OpenIf(l, part) == Push(AppendStructuredNode(l, Test(l)), <<NewID(l), part>>)

Br(label, to) == [Node("br", label) EXCEPT !.to = to]

\* A branch to a node, out of it or round it.
BranchTo(l, id) == AppendStructuredNode(l, Br(At(l, id).label, id))
BranchIf(l, condition, id) == IF condition THEN BranchTo(l, id) ELSE l

Branch(label, to, cntLabel, cntTo) ==
    [brkLabel |-> label, brkTo |-> to, cntLabel |-> cntLabel, cntTo |-> cntTo]

---------------------------------------------------------------------------
(* Loops.  A loop is a block that holds a loop node; the break target is   *)
(* the continuation behind the block, the continue target the loop.        *)

\* The labels of these ranges are constants, those of the others unique.
Constants == {"forrange", "iter", "asynciter"}
LoopLabel(kind, end, id) == <<kind \o end, IF kind \in Constants THEN -1 ELSE id>>

\* The loop's block is the next node, the loop the one after it, then comes
\* the continuation.
LoopID(l) == NewID(l) + 1

OpenLoop(l, kind) ==
    LET block == NewID(l)
        loop  == LoopID(l)
        next  == loop + 1
        bl    == LoopLabel(kind, ".end", block)
        ll    == LoopLabel(kind, ".cond", loop)
        l1 == AppendStructuredNode(l, Node("block", bl))
        l2 == AppendStructuredNodeTo(l1, <<block, BodyPart>>, Node("loop", ll))
        l3 == AppendContinuationAfter(Push(l2, <<loop, BodyPart>>), Top(l), block)
        l4 == SetLinks(SetLinks(l3, block, next, next, -1), loop, next, next, loop)
    IN  [l4 EXCEPT !.nodes[loop + 1].cont = next,
                   !.loops = Append(@, Branch(bl, next, ll, loop))]

\* The body goes into the test's Then, its Else leaves the loop.
OpenTest(l, loop) ==
    LET id == NewID(l)
        block == loop - 1
        l1 == AppendStructuredNodeTo(AppendStructuredNode(l, Test(l)),
                                     <<id, ElsePart>>, Br(At(l, block).label, block))
    IN  NextBlock(Push(l1, <<id, ThenPart>>))

OpenPost(l, loop)  == Push(FallTo(l), <<loop, PostPart>>)
ClosePost(l, loop) == NextBlock(Pop(BranchTo(l, loop)))
CloseLoop(l, loop) == [Pop(ClosePost(l, loop)) EXCEPT !.loops = Front(@)]

\* A crashed compiler goes no further.
RECURSIVE LowerStmt(_, _), LowerStmts(_, _)
LowerStmts(l, stmts) ==
    IF l.crashed \/ stmts = <<>> THEN l
    ELSE LowerStmts(LowerStmt(l, Head(stmts)), Tail(stmts))

LowerIn(l, ref, stmts) == Pop(LowerStmts(Push(l, ref), stmts))

---------------------------------------------------------------------------
(* Expressions whose evaluation branches: the result is in the register    *)
(* evaluated last.                                                         *)

CopyTo(l, res)   == Emit(l, Item("copy", "", l.regs, res, {}))
CopyFrom(l, res) == Emit([l EXCEPT !.regs = @ + 1], Item("copy", "", res, NewReg(l), {}))

\* && and || keep their result in a slot and evaluate the right operand in
\* the If's Then or Else, which gets no continuation.
RECURSIVE LowerCond(_, _)
LowerCond(l, c) ==
    IF c.k = "flag" THEN Evaluate(l, c.op, c.x, Bool) ELSE
    LET res   == NewReg(l)
        short == Item("set", "", IF c.k = "and" THEN 0 ELSE 1, res, {})
        left  == LowerCond(Emit([l EXCEPT !.regs = res], short), c.l)
        right == LowerCond(OpenIf(NextBlock(left), IF c.k = "and" THEN ThenPart ELSE ElsePart),
                           c.r)
    IN  CopyFrom(FallTo(Pop(CopyTo(right, res))), res)

\* An assertion's failure traps in the Else; x.(T) has no Then.
LowerTypeAssertExpr(l, s) ==
    LET else == OpenIf(Evaluate(l, "match", s.x, Bool), ElsePart)
        trap == Emit(NextBlock(else), Instr("do", "trap", 0))
    IN  SetBlock(Pop(Terminate(trap, "unreachable")))

LowerGrow(l) ==
    LET id    == NewID(l)
        test  == NextBlock(AppendStructuredNode(l, Test(l)))
        kept  == NextBlock(Pop(Emit(Push(test, <<id, ElsePart>>), Instr("do", "keep", 0))))
        grown == NextBlock(Pop(Emit(Push(kept, <<id, ThenPart>>), Instr("do", "grow", 0))))
    IN  Emit(grown, Instr("do", "store", 0))

LowerAppend(l, s) == LowerGrow(Evaluate(l, "full", s.x, Bool))

---------------------------------------------------------------------------
LowerElse(l, id, s) ==
    IF s.el = <<>> THEN l ELSE FallTo(LowerIn(l, <<id, ElsePart>>, s.el))

LowerBranches(l, s) ==
    LET id   == NewID(l)
        next == id + 1
        l1   == AppendContinuationAfter(AppendStructuredNode(l, Test(l)), Top(l), id)
        l2   == NextBlock(SetLinks(l1, id, next, next, -1))
    IN  LowerElse(FallTo(LowerIn(l2, <<id, ThenPart>>, s.th)), id, s)

LowerIfStmt(l, s) == LowerBranches(LowerCond(l, s.c), s)

LowerForBody(l, s, loop) ==
    IF s.c = Always THEN LowerStmts(NextBlock(l), s.body)
    ELSE Pop(LowerStmts(OpenTest(LowerCond(l, s.c), loop), s.body))

LowerForStmt(l, s) ==
    LET loop == LoopID(l)
        l1 == NextBlock(LowerIn(OpenLoop(l, "for"), <<loop, InitPart>>, s.init))
        l2 == OpenPost(LowerForBody(l1, s, loop), loop)
    IN  CloseLoop(LowerStmts(l2, s.post), loop)

InitRange(l, s) == Emit(l, Instr("init", s.x, 0))

\* From the test of a range to its end.
LowerRangeBody(l, s, loop) ==
    LET l1 == Evaluate(NextBlock(l), "more", s.x, Bool)
        l2 == LowerStmts(Emit(OpenTest(l1, loop), Silent), s.body)
    IN  CloseLoop(Emit(OpenPost(Pop(l2), loop), Instr("next", s.x, 0)), loop)

\* Slices, arrays and strings: the key's and the value's slots are made in
\* the loop's body, before the test.
LowerSlots(l, s) == LowerRangeBody(Emit(OpenLoop(l, "forrange"), Silent), s, LoopID(l))
LowerForRangeStmt(l, s) == LowerSlots(InitRange(l, s), s)

LowerRange(l, s, kind) == LowerRangeBody(OpenLoop(l, kind), s, LoopID(l))

LowerCompactMapRange(l, s) == LowerRange(InitRange(l, s), s, "maprange")
LowerIterableRange(l, s)   == LowerRange(InitRange(l, s), s, "iter")
LowerAsyncRange(l, s)      == LowerRange(InitRange(l, s), s, "asynciter")

\* A loop over the buckets around one over a bucket's entries.  Both break
\* and continue are bound to the outer loop, and the step to the next entry
\* is not in the inner loop's Post.
CloseInnerLoop(l, s, inner) ==
    LET l1 == FallTo(Pop(LowerStmts(l, s.body)))
        l2 == Push(Emit(l1, Instr("next", s.x, 0)), <<inner, PostPart>>)
    IN  NextBlock(Pop(Pop(BranchTo(l2, inner))))

CloseOuterLoop(l, s, outer) ==
    LET l1 == Emit(Push(l, <<outer, PostPart>>), Instr("nextbucket", s.x, 0))
        l2 == Pop(NextBlock(Pop(Pop(BranchTo(l1, outer)))))
    IN  IF l.crashed THEN l ELSE [l2 EXCEPT !.loops = Front(@)]

LowerEntries(l, s) ==
    LET inner == LoopID(l)
        l1 == [OpenLoop(l, "maprange.e") EXCEPT !.loops = l.loops]
        l2 == OpenTest(Evaluate(NextBlock(l1), "more", s.x, Bool), inner)
    IN  CloseInnerLoop(Emit(l2, Silent), s, inner)

LowerBuckets(l, s) ==
    LET outer == LoopID(l)
        l1 == Evaluate(NextBlock(OpenLoop(l, "maprange.b")), "bucket", s.x, Bool)
        l2 == Emit(OpenTest(l1, outer), Instr("head", s.x, 0))
    IN  CloseOuterLoop(LowerEntries(l2, s), s, outer)

LowerBuiltinMapRange(l, s) == LowerBuckets(InitRange(l, s), s)

\* main's copy of its arguments: no continuation, no links, no Post.
CopyArgs(l, s) ==
    LET block == NewID(l)
        loop  == LoopID(l)
        l1 == AppendStructuredNode(l, Node("block", <<"argv.end", block>>))
        l2 == AppendStructuredNodeTo(l1, <<block, BodyPart>>, Node("loop", <<"argv.cond", loop>>))
        l3 == Evaluate(NextBlock(Push(l2, <<loop, BodyPart>>)), "more", s.x, Bool)
        l4 == Emit(OpenTest(l3, loop), Instr("next", s.x, 0))
    IN  Emit(SetBlock(Pop(Pop(Jump(l4)))), Silent)

LowerOSArgs(l, s) == CopyArgs(InitRange(l, s), s)

---------------------------------------------------------------------------
(* Switches.                                                               *)

\* A switch's context: continue has no target of its own.
OpenSwitch(l, name) ==
    LET block == NewID(l)
        next  == block + 1
        label == <<name, block>>
        l1 == AppendContinuationAfter(AppendStructuredNode(l, Node("block", label)), Top(l), block)
        l2 == Push(SetLinks(l1, block, next, next, -1), <<block, BodyPart>>)
    IN  [l2 EXCEPT !.loops = Append(@, Branch(label, next, NoLabel, 0))]

CloseSwitch(l) == SetBlock([Pop(JumpUnlessClosed(l)) EXCEPT !.loops = Front(@)])

Operand(l, s) == Evaluate(l, "operand", s.x, ValuesOf(s))

\* One case of an if/else chain, of the switch whose block is a.block; a.at is
\* the body the chain goes on in.
LowerClause(l, a, i) ==
    LET id == NewID(l)
        l1 == AppendStructuredNode(l, IfNode(l, a.reg, a.sw.cases[i].vals))
        l2 == EmitAll(NextBlock(Push(l1, <<id, ThenPart>>)),
                      IF a.sw.of = "type" THEN <<Silent>> ELSE <<>>)
        l3 == Pop(BranchTo(LowerStmts(l2, a.sw.cases[i].body), a.block))
    IN  [a EXCEPT !.l = FallTo(l3), !.at = <<id, ElsePart>>]

LowerCase(a, i) ==
    LowerClause(Emit(SetTop(a.l, a.at),
                     IF a.sw.of = "expr" THEN Instr("case", a.sw.x, i) ELSE Silent), a, i)

GoOnAt(a) == SetTop(a.l, a.at)

LowerCases(l, s, reg, block) ==
    GoOnAt(FoldLeft(LowerCase,
                    [l |-> l, at |-> Top(l), sw |-> s, reg |-> reg, block |-> block],
                    [i \in 1..Len(s.cases) |-> i]))

LowerTypeDefault(l, s, block) ==
    IF s.def = <<>> THEN l ELSE BranchTo(LowerStmts(Emit(l, Silent), DefaultBody(s)), block)

LowerTypeCases(l, s) ==
    LET block == NewID(l)
        open  == Emit(OpenSwitch(l, "typeswitch.end"), Silent)
    IN  CloseSwitch(LowerTypeDefault(LowerCases(open, s, l.regs, block), s, block))

LowerTypeSwitchStmt(l, s) == LowerTypeCases(Operand(l, s), s)

LowerChainSwitch(l, s) ==
    LET block == NewID(l)
        cases == LowerCases(OpenSwitch(l, "switch.end"), s, l.regs, block)
    IN  CloseSwitch(BranchTo(LowerStmts(cases, DefaultBody(s)), block))

Entries(s) == FoldLeft(LAMBDA n, c : n + Cardinality(c.vals), 0, s.cases)

SwitchTableSize(count) ==
    LET fits == {n \in {17, 31, 61, 127, 251} : count * 5 <= n * 2}
    IN  IF fits = {} THEN 251 ELSE CHOOSE n \in fits : \A m \in fits : n <= m

\* Unique literals close together; at least four string cases.
NumericSwitch(s) ==
    LET vals == UNION {s.cases[i].vals : i \in DOMAIN s.cases}
    IN  /\ s.of = "int" /\ vals # {}
        /\ Cardinality(vals) = Entries(s)
        /\ \A v, w \in vals : v - w <= 4096

StringHashSwitch(s) == s.of = "string" /\ Len(s.cases) >= 4

\* The bucket of a case, brought into range as the compiler does it, and that
\* of the operand, the remainder of the unsigned 64-bit word.
SwitchBucket(v, size) == v % size

UnsignedRem(v, size) ==
    LET w16 == 65536 % size
        w32 == (w16 * w16) % size
        w64 == (w32 * w32) % size
    IN  IF v >= 0 THEN v % size ELSE (w64 + v) % size

Table(l, reg, size, targets) ==
    [Node("table", <<"table", NewID(l)>>) EXCEPT
        !.reg = reg, !.size = size, !.targets = targets]

\* One source case inside a bucket's body.
LowerEntry(l, a, i) ==
    LET case == a.sw.cases[a.here[i]]
        id == NewID(l)
        l1 == NextBlock(AppendStructuredNode(l, IfNode(l, a.reg, case.vals \intersect a.vals)))
        l2 == LowerStmts(Push(l1, <<id, ThenPart>>), case.body)
        l3 == SetTop(FallTo(Pop(BranchTo(l2, a.block))), <<id, ElsePart>>)
    IN  [a EXCEPT !.l = BranchIf(l3, i = Len(a.here) /\ a.sw.def = <<>>, a.block)]

LowerBucketEntry(a, i) == LowerEntry(Emit(a.l, Silent), a, i)

\* A bucket: the cases with a value in it in source order, then a copy of the
\* default clause.
LowerBucket(a, i) ==
    LET vals == {v \in ValuesOf(a.sw) \ a.sw.others : SwitchBucket(v, a.size) = a.buckets[i]}
        here == SelectSeq([c \in 1..Len(a.sw.cases) |-> c],
                          LAMBDA c : a.sw.cases[c].vals \intersect vals # {})
        l1 == SetTop(SetBlock(a.l), <<a.table, CasePart(i)>>)
        b  == FoldLeft(LowerBucketEntry,
                       [l |-> l1, sw |-> a.sw, reg |-> a.reg, block |-> a.block,
                        vals |-> vals, here |-> here],
                       [j \in 1..Len(here) |-> j])
    IN  [a EXCEPT !.l = JumpUnlessClosed(LowerStmts(b.l, DefaultBody(a.sw)))]

Hash(l, reg, size) ==
    Emit([l EXCEPT !.regs = @ + 1], Item("rem", "", reg, NewReg(l), {size}))

\* The table, its buckets in some order, its default.
LowerTable(l, s, reg, size, block) ==
    LET buckets == SetToSeq({SwitchBucket(v, size) : v \in ValuesOf(s) \ s.others})
        table   == NewID(l)
        targets == [n \in 1..size |->
                       IF \E i \in DOMAIN buckets : buckets[i] = n - 1
                       THEN CHOOSE i \in DOMAIN buckets : buckets[i] = n - 1 ELSE -1]
        l1 == AppendStructuredNodeTo(l, <<block, BodyPart>>, Table(l, l.regs, size, targets))
        a  == FoldLeft(LowerBucket,
                       [l |-> l1, sw |-> s, reg |-> reg, block |-> block, table |-> table,
                        size |-> size, buckets |-> buckets],
                       [i \in 1..Len(buckets) |-> i])
        l2 == LowerStmts(SetTop(a.l, <<table, DefaultPart>>), DefaultBody(s))
    IN  CloseSwitch(BranchIf(l2, s.def = <<>>, block))

\* A table indexed by the operand's remainder.
LowerStructuredBucketSwitch(l, s) ==
    LET size == SwitchTableSize(Entries(s))
    IN  LowerTable(Hash(OpenSwitch(l, "switch.end"), l.regs, size), s, l.regs, size, NewID(l))

LowerCasesOf(l, s) ==
    IF NumericSwitch(s) \/ StringHashSwitch(s) THEN LowerStructuredBucketSwitch(l, s)
    ELSE LowerChainSwitch(l, s)

LowerSwitchStmt(l, s) == LowerCasesOf(Operand(l, s), s)

---------------------------------------------------------------------------
(* Leaving: break, continue, return, panic; areas.                         *)

\* break and continue name the innermost context, be it a loop or a switch.
LowerBreakStmt(l) ==
    LET c == l.loops[Len(l.loops)]
    IN  IF l.loops = <<>> THEN l ELSE Jump(AppendStructuredNode(l, Br(c.brkLabel, c.brkTo)))

LowerContinueStmt(l) ==
    LET c == l.loops[Len(l.loops)]
    IN  IF l.loops = <<>> THEN l ELSE Jump(AppendStructuredNode(l, Br(c.cntLabel, c.cntTo)))

\* Before the call of the function itself that a return ends with.
PrepareTailCallCleanup(l) ==
    [EndAreas([RunDefers(l) EXCEPT !.defers = <<>>]) EXCEPT !.areas = <<>>]

LowerReturned(l, s) ==
    IF s.self THEN Emit(PrepareTailCallCleanup(l), Instr("self", "", 0)) ELSE l

LowerReturnStmt(l, s) == Terminate(LowerReturned(RunDefers(l), s), "return")

LowerPanicCall(l) == Terminate(RunDefers(Emit(l, Instr("panicset", "", 0))), "panic")

\* Closing an area that a self-call's cleanup has taken off the stack is an
\* index out of range in the compiler.
CloseArea(l) ==
    IF l.areas = <<>> THEN [l EXCEPT !.crashed = TRUE] ELSE [l EXCEPT !.areas = Front(@)]

LowerAreaStmt(l, s) ==
    LET depth == Len(l.areas)
        l1 == [Emit(l, Instr("area", "", depth)) EXCEPT !.areas = Append(@, depth)]
    IN  CloseArea(Emit(LowerStmts(l1, s.body), Instr("areaend", "", depth)))

LowerLockStmt(l, s) ==
    Emit(LowerStmts(Emit(l, Instr("lock", "", 0)), s.body), Instr("unlock", "", 0))

LowerStmt(l, s) ==
    CASE s.k = "do"       -> Emit(l, Instr("do", s.a, 0))
      [] s.k = "if"       -> LowerIfStmt(l, s)
      [] s.k = "for"      -> LowerForStmt(l, s)
      [] s.k = "range"    -> (CASE s.of = "slice"   -> LowerForRangeStmt(l, s)
                                [] s.of = "map"     -> LowerCompactMapRange(l, s)
                                [] s.of = "iter"    -> LowerIterableRange(l, s)
                                [] s.of = "async"   -> LowerAsyncRange(l, s)
                                [] s.of = "hashmap" -> LowerBuiltinMapRange(l, s))
      [] s.k = "switch"   -> IF s.of = "type" THEN LowerTypeSwitchStmt(l, s)
                             ELSE LowerSwitchStmt(l, s)
      [] s.k = "break"    -> LowerBreakStmt(l)
      [] s.k = "continue" -> LowerContinueStmt(l)
      [] s.k = "return"   -> LowerReturnStmt(l, s)
      [] s.k = "panic"    -> LowerPanicCall(l)
      [] s.k = "defer"    -> [l EXCEPT !.defers = Append(@, s.a)]
      [] s.k = "area"     -> LowerAreaStmt(l, s)
      [] s.k = "lock"     -> LowerLockStmt(l, s)
      [] s.k = "assert"   -> LowerTypeAssertExpr(l, s)
      [] s.k = "grow"     -> LowerAppend(l, s)
      [] s.k = "args"     -> LowerOSArgs(l, s)

\* A function's body; what falls off its end calls the deferred functions.
ReturnAtEnd(l) == IF l.term THEN l ELSE Terminate(RunDefers(l), "return")

LowerFunc(body) == ReturnAtEnd(LowerStmts(InitFunctionControl, body))
=============================================================================
