----------------------------- MODULE MCBackends -----------------------------
EXTENDS Backends

\* names the emitter must respell; inner bindings reuse them
X == <<"x">>
I == <<"i", "-">>
P == <<"p", "*">>
Q == <<"q", "?">>
Fn(body) == [params |-> <<<<P, "i32">>, <<Q, "i1">>>>, type |-> "i32", body |-> body]

Tests == {Sym(Q), <<"<", Sym(X), Num(2)>>, <<"and", Sym(Q), <<"not", <<"=", Num(1), Sym(X)>>>>>>}
Bump  == <<"set!", X, <<"+", Sym(X), Num(1)>>>>
Leaves == {Num(1), Sym(X), Sym(P)}
Simple == Leaves \cup {<<"-", Num(1), Sym(X)>>, <<"/", Num(3), Sym(P)>>, <<"mod", Sym(X), Sym(P)>>,
                       <<"-", Sym(X)>>, <<"+", Sym(X), Sym(P), Sym(X)>>,
                       <<"load32", Num(0)>>, <<"call", Sym(X), Sym(P)>>}
Effects == {Bump, <<"inc!", X>>, <<"store32!", Num(0), Sym(X)>>,
            <<"when", <<"<", Sym(X), Num(2)>>, <<"call", Sym(X)>>, Bump>>,
            <<"unless", Sym(Q), <<"store32!", Num(1), Sym(P)>>>>,
            <<"if", Sym(Q), Bump>>,
            <<"dotimes", I, <<"+", Sym(X), Num(1)>>, <<"call", Sym(I)>>, Bump>>}
Stepped == {<<"do", s, e>> : s \in Effects, e \in {Num(1), Sym(X), <<"-", Num(1), Sym(X)>>}}
Valued == Simple \cup Stepped
InLet(body) == <<"let", <<<<X, Num(1)>>>>, body>>

\* both kinds of if, as a value and as an operand
Few == {Sym(X), <<"mod", Sym(X), Sym(P)>>, <<"do", Bump, Sym(X)>>}
Arms == (Valued \X Few) \cup (Few \X Valued)
Chosen == {<<"if", t>> \o arms : t \in Tests, arms \in Arms}
Operands == {<<"-", a, <<"if", Sym(Q), <<"do", s, Sym(X)>>, Sym(X)>>>> : a \in Valued, s \in Effects}
            \cup {<<"call", a, b, Sym(X)>> : a \in Stepped, b \in Simple}
\* cond and case with an effect in a test or a subject, and a shadowed name
Conds == {<<"cond", t, a, <<"=", <<"call", Sym(P)>>, Num(1)>>, b, <<"else">>, Sym(X)>> :
              t \in Tests, a \in Leaves, b \in Stepped}
           \cup {<<"case", s, Num(0), a, Num(1), b, <<"call", Sym(X)>>>> :
                   s \in {Sym(P), <<"call", Sym(P), Sym(X)>>, <<"do", Bump, Sym(X)>>},
                   a \in Leaves, b \in Stepped}
           \cup {<<"let", <<<<I, a>>, <<X, <<"+", Sym(I), Num(1)>>>>>>, e, <<"+", Sym(X), Sym(I)>>>> :
                   a \in Simple, e \in Effects}
\* loops over two variables, the second counting up; a body before the exit
\* test, an exit inside a let, a loop inside a loop
Looping(init, pre, next, exit) ==
  <<"loop", <<<<X, init>>, <<I, Num(0)>>>>, pre,
    <<"if", <<"<", Sym(I), Num(2)>>, <<"recur", next, <<"+", Sym(I), Num(1)>>>>, exit>>>>
Swapping(init, exit) ==
  <<"loop", <<<<X, init>>, <<I, Num(0)>>>>,
    <<"cond", <<"<", Sym(X), Num(2)>>, <<"let", <<<<X, <<"+", Sym(X), Num(1)>>>>>>, <<"call", Sym(X), Sym(I)>>,
                                          <<"recur", <<"+", Sym(I), Num(1)>>, Sym(X)>>>>,
             <<"else">>, exit>>>>
Loops == {Looping(a, s, n, e) : a \in Leaves, s \in Effects, n \in {Sym(I), <<"-", Num(1), Sym(X)>>}, e \in Simple}
         \cup {Swapping(a, e) : a \in Leaves, e \in Valued}
         \cup {Looping(Num(0), Num(1), Looping(Sym(X), s, Sym(I), Sym(X)), e) : s \in Effects, e \in Leaves}
         \cup {<<"do", <<"loop", <<<<I, Sym(P)>>>>, <<"when", <<"<", Sym(I), Num(1)>>, s,
                          <<"recur", <<"+", Sym(I), Num(1)>>>>>>>>, Sym(X)>> : s \in Effects}
MCPrograms == {Fn(InLet(e)) : e \in Chosen \cup Operands \cup Conds \cup Loops}
MCInputs == -1..1

(***************************************************************************)
(* Programs of the C and TypeScript back ends.  No name is bound twice; an *)
(* effect is a call, a match or a set! (TypeScript: of a local too).       *)
(***************************************************************************)
G == <<"!", "g">>
R == <<"p", "-", "x">>
Y == <<"a", "-", "n">>
Z == <<"a", "n", "?">>
J == <<"j">>
M == <<"m">>
W == <<"w", "/">>
N == <<"n", "!">>
HostFn(body) == [params |-> <<<<R, "i32">>>>, type |-> "i32", body |-> body]
MCGlobals == <<G>>

Small == <<"<", Sym(X), Num(1)>>
Both == <<"and", <<"<", Sym(R), Num(1)>>, <<"not", <<"=", Num(1), Sym(X)>>>>>>
Find(a) == <<"find", a>>
Got(x) == <<"deref", Sym(x)>>
Next1(x) == <<"+", Sym(x), Num(1)>>
\* values that are one expression
Ints == {Sym(X), <<"-", Num(1), Sym(R)>>, <<"/", Num(3), Sym(R)>>, <<"mod", Sym(X), Sym(R)>>, <<"-", Sym(X)>>,
         <<"+", Sym(X), Sym(R), Sym(G)>>, <<"call", Sym(X), Sym(R)>>,
         <<"cond", Small, Sym(R), Both, <<"call", Sym(G)>>, <<"else">>, Num(2)>>}
\* statements
Done1 == {<<"call", Sym(X)>>, <<"set!", G, Sym(X)>>, <<"inc!", G>>, <<"set!", X, Sym(R)>>,
          <<"if", <<"or", Small, <<"=", <<"call", Sym(R)>>, Num(0)>>>>, <<"set!", G, Sym(R)>>, <<"unit">>>>,
          <<"when", Both, <<"call", Sym(X), Sym(G)>>>>,
          <<"unless", Small, <<"set!", G, Num(1)>>>>,
          <<"let", <<<<Y, <<"call", Sym(R)>>>>>>, <<"set!", G, Sym(Y)>>>>,
          <<"dotimes", J, Next1(X), <<"call", Sym(J)>>, <<"add!", G, Sym(J)>>>>,
          <<"match", Find(Sym(R)), M, <<"call", Got(M)>>, <<"set!", G, Num(2)>>>>,
          <<"match", Find(Sym(X)), M, <<"return", Got(M)>>, <<"call", Sym(R)>>>>,
          <<"cond", Small, <<"set!", G, Num(1)>>, <<"else">>, <<"do", <<"call", Sym(R)>>, <<"set!", G, Num(2)>>>>>>}
Sequenced == {<<"do", s, v>> : s \in Done1, v \in {Sym(X), <<"+", Sym(X), Sym(R), Sym(G)>>}}
\* values that are statements in C
Staged == {<<"let", <<<<Z, v>>>>, <<"-", Sym(Z), Sym(R)>>>> : v \in Ints}
          \cup {<<"if", t, <<"do", <<"set!", G, Num(1)>>, Sym(R)>>, v>> : t \in {Small, Both}, v \in Ints}
          \cup {<<"case", <<"call", Sym(R)>>, Num(0), v, <<"do", <<"inc!", G>>, Sym(G)>>>> : v \in Ints}
MatchOf(a, some, none) == <<"match", Find(a), N, some, none>>
Matches == {MatchOf(Sym(R), some, none) : some \in {Got(N), <<"-", Got(N), Sym(X)>>, <<"return", Num(2)>>}
                                                   \cup {<<"let", <<<<Z, <<"+", Got(N), Num(1)>>>>>>, <<"call", Sym(Z)>>>>,
                                                         <<"if", Small, Got(N), <<"do", <<"inc!", G>>, Sym(X)>>>>},
                                          none \in Ints \cup Sequenced}
           \cup {MatchOf(Sym(R), <<"match", Find(<<"call", Sym(X)>>), M, <<"+", Got(N), Got(M)>>, v>>, Sym(X)) : v \in Ints}
\* matches for their effects, one inside a clause of the other; the clauses of
\* one have values, those of the other have none or only the first has one
Dropped == {<<"do", MatchOf(Sym(R), some, <<"match", Find(<<"call", Sym(X)>>), M, a, b>>), Sym(G)>> :
              some \in {Got(N), <<"set!", G, Got(N)>>}, a \in {Got(M), <<"inc!", G>>},
              b \in {<<"call", Sym(X)>>, <<"set!", G, Num(2)>>}}
           \cup {<<"do", MatchOf(Sym(R), <<"match", Find(<<"call", Sym(X)>>), M, a, b>>, none), Sym(G)>> :
              none \in {Sym(X), <<"set!", G, Sym(X)>>}, a \in {Got(M), <<"inc!", G>>}, b \in {<<"call", Got(N)>>}}
\* loops: two variables, exchanged or summed; the ways to end and to go on
Counting(pre, more, exit) ==
  <<"loop", <<<<I, Num(0)>>, <<Z, Sym(R)>>>>, pre, <<"if", <<"<", Sym(I), Num(2)>>, more, exit>>>>
Again == {<<"recur", Next1(I), Sym(I)>>, <<"do", <<"call", Sym(Z)>>, <<"recur", Next1(I), <<"-", Sym(I), Sym(Z)>>>>>>,
          <<"match", Find(Sym(Z)), N, <<"recur", Next1(I), Num(0)>>, <<"recur", Num(2), Sym(I)>>>>,
          <<"match", Find(Sym(Z)), N, <<"recur", Next1(I), <<"-", Got(N), Num(1)>>>>, <<"recur", Num(3), Num(2)>>>>,
          <<"let", <<<<<<"i", "n">>, Next1(I)>>>>, <<"recur", Sym(<<"i", "n">>), Sym(I)>>>>,
          <<"cond", <<"=", Sym(I), Sym(Z)>>, <<"recur", Num(2), Sym(I)>>, <<"else">>, <<"recur", Next1(I), Num(0)>>>>}
Exits == {Sym(Z), <<"-", Sym(I), Sym(Z)>>, <<"/", Sym(I), Sym(Z)>>, <<"do", <<"set!", G, Sym(Z)>>, <<"call", Sym(I)>>>>,
          <<"if", Small, Sym(Z), <<"let", <<<<<<"x", "i">>, Sym(I)>>>>, <<"call", Sym(<<"x", "i">>)>>>>>>}
Rounds == {Counting(p, a, e) : p \in {Num(0), <<"set!", G, Sym(I)>>}, a \in Again, e \in Exits}
          \cup {Counting(s, <<"recur", Next1(I), Sym(I)>>, Sym(Z)) : s \in Done1}
          \cup {<<"loop", <<<<I, Num(0)>>>>, <<"cond", <<"=", Sym(I), Num(2)>>, <<"-", Sym(I), Sym(R)>>, Small, Num(3),
                                               <<"else">>, <<"recur", Next1(I)>>>>>>}
Nested == {<<"loop", <<<<J, Num(0)>>>>,
              <<"let", <<<<Y, value>>>>, <<"if", <<"<", Sym(J), Num(1)>>, <<"recur", Next1(J)>>, <<"+", Sym(Y), Sym(J)>>>>>>>>
             : value \in {<<"call", Sym(J)>>, Counting(Num(0), <<"recur", Next1(I), Sym(I)>>, Sym(Z)), MatchOf(Sym(R), Got(N), Sym(X))}}
Valuing == Matches \cup Rounds \cup Nested
Twice == {<<"do", <<"dotimes", J, Next1(X), <<"call", Sym(J)>>>>,
                <<"dotimes", M, <<"-", Num(1), Sym(R)>>, <<"call", Sym(M)>>>>, Sym(G)>>}
HostBodies ==
  Twice \cup Dropped \cup Ints \cup Staged \cup Sequenced \cup Valuing
  \cup {<<"let", <<<<W, v>>>>, <<"call", Sym(W), Sym(X)>>>> : v \in Valuing}
  \cup {<<"do", <<"inc!", G>>, v>> : v \in Matches}
  \cup {<<"do", v, Sym(G)>> : v \in Rounds}
  \cup {<<"if", <<"let", <<<<W, v>>>>, <<"<", Sym(W), Sym(X)>>>>, Sym(G), Sym(X)>> : v \in Valuing \cup Ints}
  \cup {<<"loop", <<<<J, Num(0)>>>>, <<"match", Find(Sym(J)), M, v, <<"recur", Next1(J)>>>>>> : v \in Valuing}
MCHostPrograms == {HostFn(<<"let", <<<<X, Num(1)>>>>, b>>) : b \in HostBodies}
=============================================================================
