------------------------------- MODULE HikeWat -------------------------------
(***************************************************************************)
(* How the WebAssembly text backend emits a function (pkg/backend/wabt):   *)
(* straight from the control nodes when every node allows it, else through *)
(* the basic blocks.  A structured WebAssembly block is rendered as the    *)
(* jumps it stands for: a branch to a block's label goes to the block's    *)
(* end, one to a loop's label to its head.  A label that no enclosing      *)
(* construct has is the target 0.                                          *)
(***************************************************************************)
EXTENDS HikeCfg

Terminators == {"return", "panic", "unreachable"}

RECURSIVE HasStructuredTerminator(_, _)
HasStructuredTerminator(nodes, body) ==
    \E i \in DOMAIN body :
        \/ body[i].op \in Terminators
        \/ /\ body[i].op = "node"
           /\ LET n == nodes[body[i].v + 1]
              IN  /\ n.k \in {"block", "loop", "if"}
                  /\ \E p \in DOMAIN n.parts : HasStructuredTerminator(nodes, n.parts[p])

RECURSIVE HasBranchTarget(_, _, _)
HasBranchTarget(nodes, body, target) ==
    \E i \in DOMAIN body :
        /\ body[i].op = "node"
        /\ LET n == nodes[body[i].v + 1]
           IN  \/ n.k = "br" /\ n.to = target
               \/ /\ n.k \in {"block", "loop", "if"}
                  /\ \E p \in DOMAIN n.parts : HasBranchTarget(nodes, n.parts[p], target)

\* Loops with a continue, tables, and tests around a return go through the
\* basic blocks.
RECURSIVE CanEmitStructuredBody(_, _, _)
CanEmitStructuredBody(nodes, body, visible) ==
    \A i \in DOMAIN body :
        body[i].op = "node" =>
            LET id == body[i].v
                n  == nodes[id + 1]
                Can(p, seen) == CanEmitStructuredBody(nodes, Part(n, p), seen)
            IN  CASE n.k = "block" -> Can(BodyPart, visible \union {id})
                  [] n.k = "loop"  ->
                       LET seen == visible \union {id} \union ({n.cont} \ {-1})
                       IN  /\ Can(InitPart, visible) /\ Can(BodyPart, seen) /\ Can(PostPart, seen)
                           /\ ~HasBranchTarget(nodes, Part(n, BodyPart), id)
                  [] n.k = "if"    ->
                       \A p \in {ThenPart, ElsePart} :
                           ~HasStructuredTerminator(nodes, Part(n, p)) /\ Can(p, visible)
                  [] n.k = "table" -> FALSE
                  [] n.k = "br"    -> n.to \in visible

---------------------------------------------------------------------------
(* Direct emission.  labels maps the IDs to the labels in scope.           *)

RECURSIVE WatItem(_, _, _), WatBody(_, _, _)
WatBody(b, body, labels) ==
    IF body = <<>> \/ b.cur = 0 THEN b
    ELSE WatBody(WatItem(b, Head(body), labels), Tail(body), labels)

WatBlock(b, id, n, labels) ==
    LET end == Len(b.blocks) + 1
        b1  == WatBody(NewBlocks(b, 1), Part(n, BodyPart), (id :> end) @@ labels)
    IN  GoOn(JumpIfOpen(b1, end), end)

\* (block exit init (loop head (block post body) post (br head)))
EmitStructuredLoop(b, id, n, labels) ==
    LET exit == Len(b.blocks) + 1
        head == exit + 1
        post == exit + 2
        outer == IF n.cont = -1 THEN labels ELSE (n.cont :> exit) @@ labels
        b1 == WatBody(NewBlocks(b, 3), Part(n, InitPart), labels)
        b2 == WatBody(GoOn(JumpIfOpen(b1, head), head), Part(n, BodyPart), (id :> post) @@ outer)
        b3 == WatBody(GoOn(JumpIfOpen(b2, post), post), Part(n, PostPart), (id :> head) @@ outer)
    IN  GoOn(JumpIfOpen(b3, head), exit)

WatIf(b, n, labels) ==
    LET then == Len(b.blocks) + 1
        else == then + 1
        end  == then + 2
        b1 == GoOn(Put(NewBlocks(b, 3), Term("branch", n.reg, n.vals, <<then, else>>)), then)
        b2 == GoOn(JumpIfOpen(WatBody(b1, Part(n, ThenPart), labels), end), else)
    IN  GoOn(JumpIfOpen(WatBody(b2, Part(n, ElsePart), labels), end), end)

ResolveStructuredLabel(labels, id) == IF id \in DOMAIN labels THEN labels[id] ELSE 0

WatItem(b, item, labels) ==
    LET n == b.nodes[item.v + 1]
    IN  CASE item.op \in Terminators -> PutAndGoOn(b, Term(item.op, 0, {}, <<>>))
          [] item.op = "node" /\ n.k = "block" -> WatBlock(b, item.v, n, labels)
          [] item.op = "node" /\ n.k = "loop"  -> EmitStructuredLoop(b, item.v, n, labels)
          [] item.op = "node" /\ n.k = "if"    -> WatIf(b, n, labels)
          [] item.op = "node" /\ n.k = "br"    ->
               PutAndGoOn(b, Term("jump", 0, {}, <<ResolveStructuredLabel(labels, n.to)>>))
          [] OTHER -> [b EXCEPT !.blocks[b.cur].code = Append(@, item)]

\* A function of the WebAssembly backend.
Direct(nodes) == CanEmitStructuredBody(nodes, <<NodeRef(0)>>, {})

\* The basic blocks become the cases of a loop that dispatches on $pc.  A jump
\* or a test sets $pc and goes round the loop; a table branches straight to the
\* cases, of which only those after its own are around it.
CfgTerminator(i, term) ==
    IF term.op # "table" THEN term
    ELSE [term EXCEPT !.to = [j \in DOMAIN @ |-> IF @[j] > i THEN @[j] ELSE 0]]

EmitCFG(blocks) ==
    [i \in DOMAIN blocks |-> [blocks[i] EXCEPT !.term = CfgTerminator(i, @)]]

WatFunction(nodes) ==
    IF Direct(nodes) THEN EndsByDefault(WatBody(NewBuilder(nodes), <<NodeRef(0)>>, Empty))
    ELSE EmitCFG(LowerStructuredBody(nodes))
=============================================================================
