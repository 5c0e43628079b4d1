----------------------------- MODULE HikeSyntax -----------------------------
(***************************************************************************)
(* The statements of a function body as the compiler's passes see them     *)
(* (pkg/ast): records by their kind k.  Expressions are reduced to the     *)
(* order in which their parts are evaluated, calls to their names.         *)
(***************************************************************************)
EXTENDS Integers, Sequences

Do(a)          == [k |-> "do", a |-> a]
Flag(op, x)    == [k |-> "flag", op |-> op, x |-> x]
And(l, r)      == [k |-> "and", l |-> l, r |-> r]
Or(l, r)       == [k |-> "or", l |-> l, r |-> r]
Always         == [k |-> "always"]
If(c, th, el)  == [k |-> "if", c |-> c, th |-> th, el |-> el]
For(init, c, post, body) ==
    [k |-> "for", init |-> init, c |-> c, post |-> post, body |-> body]
ForRange(of, x, body) == [k |-> "range", of |-> of, x |-> x, body |-> body]
\* of is "int", "string", "expr" or "type"; others are values of the operand
\* that no case names; def is <<>> or <<statements of the default clause>>.
Switch(of, x, cases, def, others) ==
    [k |-> "switch", of |-> of, x |-> x, cases |-> cases, def |-> def,
     others |-> others]
Case(vals, body) == [vals |-> vals, body |-> body]
Break          == [k |-> "break"]
Continue       == [k |-> "continue"]
Return         == [k |-> "return", self |-> FALSE]
ReturnSelf     == [k |-> "return", self |-> TRUE]
Panic          == [k |-> "panic"]
Defer(a)       == [k |-> "defer", a |-> a]
Area(body)     == [k |-> "area", body |-> body]
Lock(body)     == [k |-> "lock", body |-> body]
AssertType(x)  == [k |-> "assert", x |-> x]
Grow(x)        == [k |-> "grow", x |-> x]        \* append to a slice
Args(x)        == [k |-> "args", x |-> x]        \* main's copy of the arguments

ValuesOf(sw) ==
    UNION {sw.cases[i].vals : i \in DOMAIN sw.cases} \union sw.others

DefaultBody(sw) == IF sw.def = <<>> THEN <<>> ELSE sw.def[1]

=============================================================================
