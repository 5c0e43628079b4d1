--------------------------- MODULE MCHikeCompile ---------------------------
(***************************************************************************)
(* Function bodies up to three nested statements deep for HikeCompile,     *)
(* from parts that meet every way out of every kind of statement.  The     *)
(* README names the few combinations that are left out and why.            *)
(***************************************************************************)
EXTENDS HikeCompile

A == Do("a")
B == Do("b")
Z == Do("z")
C1 == Flag("cond", "c")
C2 == Flag("cond", "d")

Conds == {C1, And(C1, C2), Or(C1, C2), And(Or(C1, C2), C1)}

Plain == {<<A>>, <<Lock(<<A>>), Grow("g")>>, <<AssertType("t"), B>>,
          <<If(C1, <<Return>>, <<>>), B>>, <<If(C1, <<A>>, <<Panic>>)>>,
          <<Area(<<A, If(C1, <<Return>>, <<>>)>>), If(Or(C1, C2), <<B>>, <<A>>)>>}

Breaks  == <<If(C1, <<Break>>, <<>>), A>>
Leaving == {Breaks, <<If(And(C1, C2), <<A>>, <<Break>>)>>}
Repeats == <<If(C1, <<Continue>>, <<>>), B>>
Again   == {Repeats, <<A, If(C1, <<A, Continue>>, <<Break>>)>>}

Constant == {"slice", "iter", "async"}   \* the ranges whose labels are constants
Ranges   == Constant \union {"map"}

For1(body) == For(<<Do("i")>>, C2, <<Do("p")>>, body)

LoopsOver(x, body) == {For1(body)} \union {ForRange(of, x, body) : of \in Ranges}

\* A table with a shared and with an adjusted bucket, chains, string hashes.
SwitchesOver(x, body) ==
    {Switch("int", x, <<Case({1, 18}, body), Case({35}, <<B>>)>>, <<>>, {-1, 2}),
     Switch("int", x, <<Case({1}, <<A>>), Case({5, 18}, body)>>, <<<<B>>>>, {6, 0}),
     Switch("int", x, <<Case({1}, body), Case({1, 2}, <<B>>)>>, <<>>, {0}),
     Switch("expr", x, <<Case({1}, <<A>>), Case({2}, body)>>, << <<B>> >>, {3}),
     Switch("type", x, <<Case({1, 2}, body)>>, <<>>, {3}),
     Switch("string", x, <<Case({1}, body), Case({35}, <<B>>), Case({2}, <<A>>),
                           Case({3}, <<A>>)>>, << <<B>> >>, {69, 4})}

Loops(x)    == UNION {LoopsOver(x, b) : b \in Plain \union Leaving \union Again}
Switches(x) == UNION {SwitchesOver(x, b) : b \in Plain \union Leaving}

Ones == Loops("r") \union Switches("s")
        \union {If(c, <<A>>, e) : c \in Conds, e \in {<<>>, <<B>>}}
        \union {For(<<>>, c, <<>>, <<A>>) : c \in Conds}
        \union {For(<<>>, Always, <<>>, b) : b \in {<<A>>} \union Leaving \union Again}
        \union {ForRange("hashmap", "r", b) : b \in Plain \union Leaving}

\* Statements in loops, switches, areas and tests, with a way out behind them.
Inner == UNION {LoopsOver("q", b) : b \in {<<A>>, Breaks, Repeats}}
         \union UNION {SwitchesOver("t", b) : b \in {<<If(C1, <<Return>>, <<>>), B>>, Breaks}}

IsRange(s, kinds) == s.k = "range" /\ s.of \in kinds

Twos == UNION {LoopsOver("r", <<s>> \o tail) : s \in Inner, tail \in {<<>>, Repeats}}
        \union {l \in UNION {LoopsOver("r", <<s>> \o Breaks) : s \in Inner} :
                   ~(IsRange(l, Constant) /\ IsRange(l.body[1], {l.of}))}
        \union UNION {SwitchesOver("s", <<s>> \o Breaks) : s \in Inner}
        \union {ForRange("hashmap", "r", <<s>> \o Breaks) : s \in Inner}
        \union {Area(<<s>>) : s \in Inner}
        \union {Lock(<<s, A>>) : s \in {For1(Repeats), ForRange("map", "q", Breaks)}}
        \union {If(c, <<s>>, <<A>>) : s \in Inner, c \in {C1, And(C1, C2)}}

\* A loop around a switch around a loop, and the other way round.
Threes == LET in == <<For1(Repeats), B>>
              sw == <<ForRange("map", "q", Breaks), A>>
          IN  UNION {LoopsOver("u", <<s>> \o Repeats) : s \in SwitchesOver("s", in \o Breaks)}
              \union UNION {SwitchesOver("u", <<l>> \o Breaks) :
                               l \in LoopsOver("r", <<Switch("int", "s", <<Case({1}, sw)>>, <<>>, {2})>>)}
              \union {Area(<<Area(<<l>>), l>>) : l \in LoopsOver("r", <<If(C1, <<Return>>, <<>>), B>>)}

\* Deferred calls, calls of the function itself, main's arguments.
Endings == {<<Defer("d"), Defer("e"), s, Z>> :
               s \in {If(C1, <<Return>>, <<Panic>>), Area(<<If(C1, <<Return>>, <<>>)>>)}
                     \union LoopsOver("r", <<If(C1, <<Return>>, <<Break>>)>>)}
           \union {<<If(C1, <<ReturnSelf>>, <<>>), Z>>, <<Args("args"), A>>}
           \union {<<l, Z>> : l \in LoopsOver("r", <<If(C1, <<ReturnSelf>>, <<A>>)>>)}
           \union {<<Args("args"), l>> : l \in LoopsOver("r", Breaks)}

FunctionBodies == {<<s, Z>> : s \in Ones \union Twos \union Threes} \union Endings

\* Loops whose bodies are switches that continue.
ContinuingSwitches ==
    {<<l, Z>> : l \in UNION {LoopsOver("r", <<s>>) : s \in SwitchesOver("s", Repeats)}}
=============================================================================
