----------------------------- MODULE HikeSource -----------------------------
(***************************************************************************)
(* What a function of a Hike program does, statement by statement: the     *)
(* specification the compiler is held to.  A program is a sequence of      *)
(* statements; running it produces events, and the only state is what is   *)
(* left to do.  A value a run cannot know at compile time (a condition,    *)
(* the operand of a switch, whether a range has another element) is an     *)
(* event that may show any value of its domain.                            *)
(***************************************************************************)
EXTENDS HikeSyntax

CONSTANT Programs    \* the function bodies considered

VARIABLES todo,      \* the tasks left, the next one first
          event      \* the last event

sourceVars == <<todo, event>>

---------------------------------------------------------------------------
(* Tasks that are not statements: an event, a test with its two ways on,   *)
(* the marks that a loop body or a switch ends with, and the function's    *)
(* end, behind which the deferred calls are kept, last deferred first.     *)

Event(op, x, v)  == [k |-> "event", op |-> op, x |-> x, v |-> v]
Test(c, yes, no) == [k |-> "test", c |-> c, yes |-> yes, no |-> no]
Mark(brk, cnt, again) ==
    [k |-> "mark", brk |-> brk, cnt |-> cnt, again |-> again]
TryCase(sw, v, i) == [k |-> "trycase", sw |-> sw, v |-> v, i |-> i]
End              == [k |-> "end"]
Deferred(a)      == [k |-> "deferred", a |-> a]

IsDeferred(t) == t.k = "deferred"
IsEnding(t)   == t.k = "event" /\ t.op \in {"areaend", "unlock"}

\* One round of a loop: break leaves past the mark, continue goes on at it.
Loop(c, body, post, brk, cnt) ==
    [k |-> "loop", c |-> c, body |-> body, post |-> post, brk |-> brk, cnt |-> cnt]
Round(l) == Test(l.c, l.body \o <<Mark(l.brk, l.cnt, l.post \o <<l>>)>>, <<>>)

\* The loop a range statement is; a hash map is chains of entries in buckets.
RangeLoop(t) ==
    IF t.of # "hashmap"
    THEN Loop(Flag("more", t.x), t.body, <<Event("next", t.x, 0)>>, TRUE, TRUE)
    ELSE Loop(Flag("bucket", t.x),
              <<Event("head", t.x, 0),
                Loop(Flag("more", t.x), t.body, <<Event("next", t.x, 0)>>, FALSE, TRUE)>>,
              <<Event("nextbucket", t.x, 0)>>, TRUE, FALSE)

Depth(tasks) == Len(SelectSeq(tasks, LAMBDA t : t.k = "event" /\ t.op = "areaend"))

\* Control leaves the tasks before the first one that Stop holds of: what is
\* left of them is the ends of the areas and lock blocks that are left.
LeaveTo(tasks, Stop(_)) ==
    LET n == CHOOSE i \in DOMAIN tasks :
                 Stop(tasks[i]) /\ \A j \in 1..(i - 1) : ~Stop(tasks[j])
    IN  SelectSeq(SubSeq(tasks, 1, n - 1), IsEnding) \o SubSeq(tasks, n, Len(tasks))

\* break goes on behind the mark that it stops at.
DropMark(tasks) ==
    LET n == CHOOSE i \in DOMAIN tasks :
                 ~IsEnding(tasks[i]) /\ \A j \in 1..(i - 1) : IsEnding(tasks[j])
    IN  SubSeq(tasks, 1, n - 1) \o SubSeq(tasks, n + 1, Len(tasks))

\* Leaving the function: the deferred calls, the call of the returned value,
\* the ends of the areas.
Finish(call, last, tasks) ==
    LET calls == SelectSeq(tasks, IsDeferred)
    IN  [i \in DOMAIN calls |-> Event("do", calls[i].a, 0)] \o call
          \o SelectSeq(tasks, IsEnding) \o <<Event(last, "", 0)>>

---------------------------------------------------------------------------
(* Tasks that produce no event are replaced by what they stand for until   *)
(* one that does is at the head.                                           *)

RECURSIVE Settle(_)
Settle(tasks) ==
    IF tasks = <<>> THEN <<>> ELSE
    LET t == Head(tasks)
        rest == Tail(tasks)
    IN
    CASE t.k = "do" -> <<Event("do", t.a, 0)>> \o rest
      [] t.k = "if" -> Settle(<<Test(t.c, t.th, t.el)>> \o rest)
      [] t.k = "for" ->
           Settle(t.init \o <<Loop(t.c, t.body, t.post, TRUE, TRUE)>> \o rest)
      [] t.k = "range" -> <<Event("init", t.x, 0), RangeLoop(t)>> \o rest
      [] t.k = "loop" -> Settle(<<Round(t)>> \o rest)
      [] t.k = "mark" -> Settle(t.again \o rest)
      [] t.k = "test" ->
           (CASE t.c.k = "and" ->
                   Settle(<<Test(t.c.l, <<Test(t.c.r, t.yes, t.no)>>, t.no)>> \o rest)
              [] t.c.k = "or" ->
                   Settle(<<Test(t.c.l, t.yes, <<Test(t.c.r, t.yes, t.no)>>)>> \o rest)
              [] t.c.k = "always" -> Settle(t.yes \o rest)
              [] OTHER -> tasks)
      [] t.k = "trycase" ->
           IF t.i > Len(t.sw.cases) THEN Settle(DefaultBody(t.sw) \o rest) ELSE tasks
      [] t.k = "break" ->
           Settle(DropMark(LeaveTo(rest, LAMBDA u : u.k = "mark" /\ u.brk)))
      [] t.k = "continue" -> Settle(LeaveTo(rest, LAMBDA u : u.k = "mark" /\ u.cnt))
      [] t.k = "return" ->
           Finish(IF t.self THEN <<Event("self", "", 0)>> ELSE <<>>, "return", rest)
      [] t.k = "end" -> Finish(<<>>, "return", rest)
      [] t.k = "panic" -> <<Event("panicset", "", 0)>> \o Finish(<<>>, "panic", rest)
      [] t.k = "defer" ->
           Settle(SelectSeq(rest, LAMBDA u : ~IsDeferred(u)) \o <<Deferred(t.a)>>
                    \o SelectSeq(rest, IsDeferred))
      [] t.k = "area" ->
           <<Event("area", "", Depth(rest))>> \o t.body
             \o <<Event("areaend", "", Depth(rest))>> \o rest
      [] t.k = "lock" ->
           <<Event("lock", "", 0)>> \o t.body \o <<Event("unlock", "", 0)>> \o rest
      [] t.k = "assert" ->
           <<Test(Flag("match", t.x), <<>>,
                  <<Event("do", "trap", 0), Event("unreachable", "", 0)>>)>> \o rest
      [] t.k = "grow" ->
           <<Test(Flag("full", t.x), <<Do("grow")>>, <<Do("keep")>>), Do("store")>> \o rest
      [] t.k = "args" ->
           <<Event("init", t.x, 0),
             Loop(Flag("more", t.x), <<Event("next", t.x, 0)>>, <<>>, TRUE, TRUE)>> \o rest
      [] OTHER -> tasks                           \* an event, a switch

---------------------------------------------------------------------------
(* The events a list of tasks may go on with, and what each leaves to do.  *)

Final == {"return", "panic", "unreachable"}     \* nothing follows these

Shown(op, x, v) == [op |-> op, x |-> x, v |-> v]

Offered(tasks) ==
    IF tasks = <<>> THEN {} ELSE
    LET t == Head(tasks)
    IN  CASE t.k = "event"   -> {Shown(t.op, t.x, t.v)}
          [] t.k = "test"    -> {Shown(t.c.op, t.c.x, v) : v \in {0, 1}}
          [] t.k = "switch"  -> {Shown("operand", t.x, v) : v \in ValuesOf(t)}
          [] t.k = "trycase" -> {Shown("case", t.sw.x, t.i)}

FirstMatch(sw, v) ==
    LET hits == {i \in DOMAIN sw.cases : v \in sw.cases[i].vals}
    IN  IF hits = {} THEN DefaultBody(sw)
        ELSE sw.cases[CHOOSE i \in hits : \A j \in hits : i <= j].body

After(tasks, e) ==
    LET t == Head(tasks)
        rest == Tail(tasks)
    IN  Settle(
        CASE t.k = "event"   -> IF t.op \in Final THEN <<>> ELSE rest
          [] t.k = "test"    -> (IF e.v = 1 THEN t.yes ELSE t.no) \o rest
          [] t.k = "switch"  ->
               (IF t.of = "expr" THEN <<TryCase(t, e.v, 1)>> ELSE FirstMatch(t, e.v))
                 \o <<Mark(TRUE, FALSE, <<>>)>> \o rest
          [] t.k = "trycase" ->
               IF t.v \in t.sw.cases[t.i].vals
               THEN t.sw.cases[t.i].body \o rest
               ELSE <<TryCase(t.sw, t.v, t.i + 1)>> \o rest)

Begin(program) == Settle(program \o <<End>>)

Silence == Shown("none", "", 0)

SourceInit == /\ \E p \in Programs : todo = Begin(p)
              /\ event = Silence

SourceNext == \E e \in Offered(todo) :
                  /\ event' = e
                  /\ todo' = After(todo, e)

Source == SourceInit /\ [][SourceNext]_sourceVars
=============================================================================
