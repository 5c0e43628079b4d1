----------------------------- MODULE HikeCompile -----------------------------
(***************************************************************************)
(* One function through the compiler and onto the machine: its body is     *)
(* lowered to control nodes, the nodes are flattened, a backend turns them *)
(* into blocks, and the blocks run.  A step of the run is one event; the   *)
(* instructions between two events are followed with it.                   *)
(*                                                                         *)
(* The specification of the function, HikeSource, is followed alongside:   *)
(* todo is what the source has left to do.  An event the source does not   *)
(* offer makes it Lost.                                                    *)
(***************************************************************************)
EXTENDS HikeWat

CONSTANTS Programs,   \* the function bodies compiled
          Backends,   \* a subset of {"llvm", "wabt"}
          Fuel        \* how many silent steps are followed between two events

Emission(backend, nodes) ==
    IF backend = "wabt" THEN WatFunction(nodes) ELSE LLVMFunction(nodes)

ASSUME CompileAssumption == Backends \subseteq {"llvm", "wabt"} /\ Fuel \in Nat

VARIABLES phase,      \* "parsed", "lowered", "flat", "run"
          hir,        \* the body, then its control nodes, until they are blocks
          crashed,    \* the compiler has crashed
          code,       \* the function's blocks
          mach,       \* the machine: at block blk, instruction pc, registers
          todo, event

vars == <<phase, hir, crashed, code, mach, todo, event>>

Src == INSTANCE HikeSource
Lost == << [k |-> "lost"] >>

---------------------------------------------------------------------------
(* The machine.                                                            *)

IsSilent(item) == item.op \in {"silent", "set", "copy", "rem"}

Known(m, r) == r \in DOMAIN m.regs
Write(m, r, v) == [m EXCEPT !.regs = (r :> v) @@ @]

Apply(item, m) ==
    CASE item.op = "silent" -> m
      [] item.op = "set"    -> Write(m, item.r, item.v)
      [] item.op = "copy"   -> IF Known(m, item.v) THEN Write(m, item.r, m.regs[item.v])
                               ELSE [m EXCEPT !.at = "unset"]
      [] item.op = "rem"    -> Write(m, item.r, UnsignedRem(m.regs[item.v],
                                                  CHOOSE n \in item.dom : TRUE))

\* The blocks a terminator leads to; a table index out of range takes its last.
Leads(term, m) ==
    CASE term.op = "jump"   -> term.to[1]
      [] term.op = "branch" -> term.to[IF m.regs[term.reg] \in term.vals THEN 1 ELSE 2]
      [] term.op = "table"  -> IF m.regs[term.reg] + 1 < Len(term.to)
                               THEN term.to[m.regs[term.reg] + 1] ELSE term.to[Len(term.to)]

Goes == {"jump", "branch", "table"}
Ends == {"return", "panic", "unreachable", "default"}

\* Follows the machine to its next event: at is "item" or "end" there, else
\* why it never gets to one.
RECURSIVE Follow(_, _, _)
Follow(c, m, fuel) ==
    LET b == c[m.blk]
        item == b.code[m.pc]
    IN  CASE m.at # "moving" -> m
          [] m.at = "moving" /\ m.blk \notin DOMAIN c -> [m EXCEPT !.at = "dangling"]
          [] m.at = "moving" /\ m.blk \in DOMAIN c /\ fuel = 0 -> [m EXCEPT !.at = "diverges"]
          [] OTHER ->
               IF m.pc <= Len(b.code)
               THEN IF IsSilent(item) THEN Follow(c, [Apply(item, m) EXCEPT !.pc = @ + 1], fuel - 1)
                    ELSE [m EXCEPT !.at = "item"]
               ELSE IF b.term.op \in Ends THEN [m EXCEPT !.at = "end"]
               ELSE IF b.term.op # "jump" /\ ~Known(m, b.term.reg) THEN [m EXCEPT !.at = "unset"]
               ELSE Follow(c, [m EXCEPT !.blk = Leads(b.term, m), !.pc = 1], fuel - 1)

Start(c) == Follow(c, [blk |-> 1, pc |-> 1, regs |-> Empty, at |-> "moving"], Fuel)
Halted   == [blk |-> 0, pc |-> 0, regs |-> Empty, at |-> "halted"]

---------------------------------------------------------------------------
Init == /\ phase = "parsed" /\ crashed = FALSE
        /\ hir \in Programs
        /\ code = <<>> /\ mach = Halted
        /\ todo = Src!Begin(hir) /\ event = Src!Silence

\* LowerFunc builds the control nodes ...
Lower == /\ phase = "parsed"
         /\ \E l \in {LowerFunc(hir)} : hir' = l.nodes /\ crashed' = l.crashed
         /\ phase' = IF crashed' THEN "run" ELSE "lowered"
         /\ UNCHANGED <<code, mach, todo, event>>

\* ... and flattens them before it returns.
Flatten == /\ phase = "lowered"
           /\ hir' = FlattenTransparentBlocks(hir)
           /\ phase' = "flat"
           /\ UNCHANGED <<crashed, code, mach, todo, event>>

EmitFunction == /\ phase = "flat"
                /\ \E backend \in Backends : code' = Emission(backend, hir)
                /\ mach' = Start(code')
                /\ hir' = <<>> /\ phase' = "run"
                /\ UNCHANGED <<crashed, todo, event>>

Show(e) == /\ event' = e
           /\ todo' = IF todo # Lost /\ e \in Src!Offered(todo) THEN Src!After(todo, e) ELSE Lost

\* An instruction that can be observed; one that finds something out puts it
\* into its register.
Execute == /\ mach.at = "item"
           /\ LET item == code[mach.blk].code[mach.pc]
                  next == [mach EXCEPT !.pc = @ + 1, !.at = "moving"]
              IN  \E v \in IF item.dom = {} THEN {item.v} ELSE item.dom :
                      /\ Show(Src!Shown(item.op, item.x, v))
                      /\ mach' = Follow(code, IF item.dom = {} THEN next
                                              ELSE Write(next, item.r, v), Fuel)
           /\ UNCHANGED <<phase, hir, crashed, code>>

Leaves == /\ mach.at = "end"
          /\ Show(Src!Shown(code[mach.blk].term.op, "", 0))
          /\ mach' = Halted
          /\ UNCHANGED <<phase, hir, crashed, code>>

\* The function has returned, panicked or trapped.
Done == phase = "run" /\ mach = Halted /\ ~crashed /\ UNCHANGED vars

Next == Lower \/ Flatten \/ EmitFunction \/ Execute \/ Leaves \/ Done

Spec == Init /\ [][Next]_vars

---------------------------------------------------------------------------
(* Properties.                                                             *)

\* The machine is at a block of the code, its branches lead to blocks (or, 0,
\* to a label that no block has), its registers hold numbers (the operands of
\* the code CfgBody and WatBody emit).
TypeOK == /\ phase \in {"parsed", "lowered", "flat", "run"}
          /\ crashed \in BOOLEAN
          /\ mach.blk \in 0..Len(code)
          /\ \A r \in DOMAIN mach.regs : mach.regs[r] \in Int
          /\ \A i \in DOMAIN code : \A j \in DOMAIN code[i].term.to :
                 code[i].term.to[j] \in 0..Len(code)

\* Where a node is in the bodies of the others.
Places(nodes, id) ==
    UNION {{<<i, p, j>> : j \in {j \in DOMAIN nodes[i].parts[p] :
                                    /\ nodes[i].parts[p][j].op = "node"
                                    /\ nodes[i].parts[p][j].v = id}}
           : <<i, p>> \in UNION {{i} \X DOMAIN nodes[i].parts : i \in DOMAIN nodes}}

\* The lowered nodes are a tree: each is in one body, at one place, so that no
\* statement is lost and none is compiled twice.  Only the placeholder of a
\* continuation may be nowhere: an empty one whose place the next node took
\* (appendStructuredNodeTo).
OneTree ==
    phase = "lowered" =>
        \A i \in 2..Len(hir) :
            \/ Cardinality(Places(hir, i - 1)) = 1
            \/ Places(hir, i - 1) = {} /\ hir[i].placeholder /\ Part(hir[i], BodyPart) = <<>>

\* What the compiler makes of the bodies it is given is well formed (TypeOK) and
\* can be run: the compiler does not
\* crash, no branch leads to a label that no block has or that is out of a
\* WebAssembly instruction's scope, no test reads a register that was not
\* written on the way to it, no loop runs silently (LowerStructuredBody,
\* emitStructuredBody, emitCFG).
Executable == TypeOK /\ ~crashed /\ mach.at \in {"item", "end", "halted"}

\* The function does what its source says, on both backends: every event of
\* the compiled code is one the source goes on with, and the code ends only
\* where the source does (LowerFunc and everything after it).
Implements == Src!Source

\* The same as a state predicate: the code never shows an event that the
\* source does not offer at that point.
FollowsSource == todo # Lost
=============================================================================
