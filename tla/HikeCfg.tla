------------------------------- MODULE HikeCfg -------------------------------
(***************************************************************************)
(* From structured control nodes to basic blocks: the pass that flattens   *)
(* transparent blocks (pkg/hir), and the lowering both backends use        *)
(* (pkg/backend/structuredcfg and its twin in pkg/backend/llvm).           *)
(*                                                                         *)
(* A builder b holds the node table, the blocks made so far (a block is    *)
(* named by its number), the current one, where each node's ID and each    *)
(* label lead.  The target 0 is a label that no block has.                 *)
(***************************************************************************)
EXTENDS HikeLower

(* Flattening.                                                             *)

IDs == {"next", "brk", "cnt"}

Referenced(nodes) ==
    {nodes[i][f] : i \in DOMAIN nodes, f \in IDs} \union {nodes[i].to : i \in DOMAIN nodes}

InstructionOnly(body) ==
    \A i \in DOMAIN body : body[i].op \notin {"node", "panic"}

RECURSIVE FlattenControlBody(_, _, _)
FlattenControlBody(nodes, referenced, body) ==
    LET id    == body[1].v
        inner == FlattenControlBody(nodes, referenced, Part(nodes[id + 1], BodyPart))
    IN  IF /\ Len(body) = 1 /\ body[1].op = "node"
           /\ nodes[id + 1].placeholder /\ ~nodes[id + 1].exit
           /\ id \notin referenced
           /\ InstructionOnly(inner)
        THEN inner ELSE body

FlattenTransparentBlocks(nodes) ==
    [i \in DOMAIN nodes |->
        [nodes[i] EXCEPT !.parts =
            [p \in DOMAIN @ |-> FlattenControlBody(nodes, Referenced(nodes), @[p])]]]

---------------------------------------------------------------------------
(* The builder.                                                            *)

Term(op, reg, vals, to) == [op |-> op, reg |-> reg, vals |-> vals, to |-> to]
Open == Term("open", 0, {}, <<>>)

NewBlocks(b, n) ==
    [b EXCEPT !.blocks = @ \o [i \in 1..n |-> [code |-> <<>>, term |-> Open]]]

Put(b, term)      == [b EXCEPT !.blocks[b.cur].term = term]
JumpIfOpen(b, to) ==
    IF b.cur # 0 /\ b.blocks[b.cur].term = Open THEN Put(b, Term("jump", 0, {}, <<to>>)) ELSE b
GoOn(b, at)       == [b EXCEPT !.cur = at]
PutAndGoOn(b, term) == GoOn(NewBlocks(Put(b, term), 1), Len(b.blocks) + 1)

\* For a mutation: the label is not recorded.
ResolveIDOnly(b, id, label, to) == [b EXCEPT !.resolved = (id :> to) @@ @]

Resolve(b, id, label, to) ==
    [b EXCEPT !.resolved = (id :> to) @@ @, !.labels = (label :> to) @@ @]

\* The items of a body; visible are the targets of the nodes around it.
\* Where there is no current block (ensure) one is opened.
RECURSIVE CfgItem(_, _, _), CfgBody(_, _, _)
CfgBody(b, body, visible) ==
    CASE b.cur = 0 -> CfgBody(GoOn(NewBlocks(b, 1), Len(b.blocks) + 1), body, visible)
      [] b.cur # 0 /\ body = <<>> -> b
      [] OTHER -> CfgBody(CfgItem(b, Head(body), visible), Tail(body), visible)

CfgBlock(b, id, n, visible) ==
    LET end == Len(b.blocks) + 1
        b1  == Resolve(NewBlocks(b, 1), id, n.label, end)
        b2  == CfgBody(b1, Part(n, BodyPart), (id :> end) @@ visible)
    IN  GoOn(JumpIfOpen(b2, end), end)

\* For a mutation: continue leads to the head, past Post.
CfgLoopSkipsPost(b, id, n, visible) ==
    LET head == Len(b.blocks) + 1
        end  == head + 1
        b1 == Resolve(NewBlocks(b, 3), id, n.label, head)
        b2 == GoOn(JumpIfOpen(CfgBody(b1, Part(n, InitPart), visible), head), head)
        b3 == JumpIfOpen(CfgBody(b2, Part(n, BodyPart), (id :> head) @@ visible), end + 1)
        b4 == CfgBody(GoOn(b3, end + 1), Part(n, PostPart), (id :> head) @@ visible)
    IN  GoOn(JumpIfOpen(b4, head), end)

\* continue leads to Post, and from Post to the head.
CfgLoop(b, id, n, visible) ==
    LET head == Len(b.blocks) + 1
        end  == head + 1
        hasPost == Part(n, PostPart) # <<>>
        post == IF hasPost THEN head + 2 ELSE head
        b1 == Resolve(NewBlocks(b, IF hasPost THEN 3 ELSE 2), id, n.label, post)
        b2 == GoOn(JumpIfOpen(CfgBody(b1, Part(n, InitPart), visible), head), head)
        b3 == CfgBody(b2, Part(n, BodyPart), (id :> post) @@ visible)
        b4 == CfgBody(GoOn(JumpIfOpen(b3, post), post), Part(n, PostPart),
                      (id :> head) @@ visible)
    IN  IF b3.cur > 0 /\ hasPost THEN GoOn(JumpIfOpen(b4, head), end)
        ELSE GoOn(JumpIfOpen(b3, head), end)

CfgIf(b, id, n, visible) ==
    LET then == Len(b.blocks) + 1
        else == then + 1
        end  == then + 2
        inside == (id :> end) @@ visible
        b1 == GoOn(Put(NewBlocks(b, 3), Term("branch", n.reg, n.vals, <<then, else>>)), then)
        b2 == CfgBody(b1, Part(n, ThenPart), inside)
        b3 == CfgBody(GoOn(JumpIfOpen(b2, end), else), Part(n, ElsePart), inside)
    IN  IF b2.cur > 0 THEN GoOn(JumpIfOpen(b3, end), end) ELSE b2

\* A case of a table: they are lowered one after another.
CfgCase(b, c) == JumpIfOpen(CfgBody(GoOn(b, c.at), c.body, c.visible), c.end)

CfgTable(b, id, n, visible) ==
    LET end   == Len(b.blocks) + 1
        cases == Cardinality({p \in DOMAIN n.parts : p[1] = "case"})
        hasDefault == Part(n, DefaultPart) # <<>>
        def   == IF hasDefault THEN end + cases + 1 ELSE end
        to    == [i \in 1..n.size |->
                     IF n.targets[i] \in 1..cases THEN end + n.targets[i] ELSE def]
        Region(p, at) == [at |-> at, body |-> Part(n, p), end |-> end,
                        visible |-> (id :> end) @@ visible]
        b1 == Put(NewBlocks(b, IF hasDefault THEN cases + 2 ELSE cases + 1),
                  Term("table", n.reg, {}, Append(to, def)))
        b2 == FoldLeft(CfgCase, b1, [i \in 1..cases |-> Region(CasePart(i), end + i)])
    IN  GoOn(IF hasDefault THEN CfgCase(b2, Region(DefaultPart, def)) ELSE b2, end)

\* By the ID among the nodes around, by the ID among those seen, by the label.
BranchTarget(b, n, visible) ==
    CASE n.to \in DOMAIN visible    -> visible[n.to]
      [] n.to \notin DOMAIN visible /\ n.to \in DOMAIN b.resolved -> b.resolved[n.to]
      [] n.to \notin DOMAIN visible \union DOMAIN b.resolved ->
           IF n.label \in DOMAIN b.labels THEN b.labels[n.label] ELSE 0

CfgItem(b, item, visible) ==
    LET id == item.v
        n  == b.nodes[id + 1]
    IN  CASE item.op \in {"return", "panic", "unreachable"} ->
               PutAndGoOn(b, Term(item.op, 0, {}, <<>>))
          [] item.op = "node" /\ n.k = "block" -> CfgBlock(b, id, n, visible)
          [] item.op = "node" /\ n.k = "loop"  -> CfgLoop(b, id, n, visible)
          [] item.op = "node" /\ n.k = "if"    -> CfgIf(b, id, n, visible)
          [] item.op = "node" /\ n.k = "table" -> CfgTable(b, id, n, visible)
          [] item.op = "node" /\ n.k = "br"    ->
               PutAndGoOn(b, Term("jump", 0, {}, <<BranchTarget(b, n, visible)>>))
          [] OTHER -> [b EXCEPT !.blocks[b.cur].code = Append(@, item)]

Empty == [p \in {} |-> 0]

\* The root block is the whole function; what falls off its end returns
\* default values.
NewBuilder(nodes) ==
    GoOn(NewBlocks([nodes |-> nodes, blocks |-> <<>>, cur |-> 0,
                    resolved |-> Empty, labels |-> Empty], 1), 1)

EndsByDefault(b) ==
    IF b.blocks[b.cur].term = Open THEN Put(b, Term("default", 0, {}, <<>>)).blocks ELSE b.blocks

LowerStructuredBody(nodes) ==
    EndsByDefault(CfgBody(NewBuilder(nodes), <<NodeRef(0)>>, Empty))

\* The LLVM backend has its own copy of the same pass.
LLVMFunction(nodes) == LowerStructuredBody(nodes)
=============================================================================
