------------------------------ MODULE PrnSugar ------------------------------
(***************************************************************************)
(* Forms of the language as the back ends see them, and the rewrites       *)
(* (src/ast_sugar.h) that reduce them to the core forms they know.         *)
(* A form is a tuple, its head first:                                      *)
(*   <<"num", n>>  <<"sym", name>>  <<"true">>  <<"false">>  <<"unit">>    *)
(*   <<op, e, ...>>                            operators, if, do, when ... *)
(*   <<"let" or "loop", <<<<name, e>>, ...>>, e, ...>>   <<"set!", name, e>> *)
(*   <<"match", option, name, e (Some name), e (None)>>  <<"deref", e>>    *)
(* and a name is a sequence of characters.                                 *)
(***************************************************************************)
EXTENDS Integers, Sequences, SequencesExt

Num(n) == <<"num", n>>
Sym(x) == <<"sym", x>>
Head1(e) == e[1]
Args(e) == Tail(e)
Atoms == {"num", "sym", "true", "false", "unit", "else"}
FoldOps == {"+", "-", "*", "and", "or", "bit-and"}
Statements(e) == SubSeq(e, 3, Len(e))
Subforms(e) ==
  CASE e[1] \in Atoms -> <<>>
    [] e[1] \in {"let", "loop"} -> [b \in DOMAIN e[2] |-> e[2][b][2]] \o Statements(e)
    [] e[1] \in {"set!", "inc!", "dec!", "add!", "dotimes"} -> Statements(e)
    [] e[1] = "match" -> <<e[2], e[4], e[5]>>
    [] OTHER -> Args(e)

\* What lowering a form yields is a record whose type is "err" when the form
\* is refused; a refusal anywhere refuses the program.
With(r, F(_)) == IF r.type = "err" THEN r ELSE F(r)

\* F of each of es, computed once (TLC computes [i \in S |-> e] at each use)
Each(F(_), es) == SubSeq([i \in DOMAIN es |-> F(es[i])], 1, Len(es))

\* Names the rewrites make up (__dn0, __case0); no source name is one of them.
\* The text is written to a local buffer of ast_sugar and read after that has
\* returned: it may still be there, each name's own, or have been overwritten,
\* by the next such name or by anything else, and all names read alike.
NamesApart == <<1>>
NamesAlike == <<0>>
Deeper(k, i) == IF k[1] = 0 THEN k ELSE k \o i
LimitName(k) == <<"__dn", ToString(k)>>
CaseName(k)  == <<"__case", ToString(k)>>
IsFresh(e) == e[1] \notin {"sym", "num"}

\* (op a b c ...) folds to the left
Folded(op, es) == FoldLeft(LAMBDA acc, e : <<op, acc, e>>, es[1], Tail(es))

\* nested ifs out of <<test, result>> pairs, last one first; `rest` is what
\* comes after them (<<>>: nothing, and the innermost if has one arm)
Ifs(pairs, rest) ==
  FoldRight(LAMBDA p, acc : IF p[1][1] = "else" THEN p[2]
                            ELSE IF acc = <<>> THEN <<"if", p[1], p[2]>>
                            ELSE <<"if", p[1], p[2], acc>>, pairs, rest)
PairsFrom(e, first) ==
  [i \in 1..(Len(e) - first + 1) \div 2 |-> <<e[first + 2 * i - 2], e[first + 2 * i - 1]>>]
Leftover(e, first) == IF (Len(e) - first + 1) % 2 = 1 THEN Last(e) ELSE <<>>
OrUnit(e) == IF e = <<>> THEN <<"unit">> ELSE e
Bound(x, e, body) == <<"let", <<<<x, e>>>>, body>>

CondForm(e) == OrUnit(Ifs(PairsFrom(e, 2), Leftover(e, 2)))

\* (case x v e ... [default]): x is computed once, into a name of its own
\* unless it is one already
CaseForm(e, k) ==
  LET x == IF IsFresh(e[2]) THEN Sym(CaseName(k)) ELSE e[2]
      pairs == [i \in DOMAIN PairsFrom(e, 3) |->
                  <<<<"=", x, PairsFrom(e, 3)[i][1]>>, PairsFrom(e, 3)[i][2]>>]
      ifs == OrUnit(Ifs(pairs, Leftover(e, 3)))
  IN IF IsFresh(e[2]) THEN Bound(CaseName(k), e[2], ifs) ELSE ifs

\* (dotimes i n body ...): n likewise
DotimesForm(e, k) ==
  LET n == IF IsFresh(e[3]) THEN Sym(LimitName(k)) ELSE e[3]
      loop == <<"loop", <<<<e[2], Num(0)>>>>,
                <<"when", <<"<", Sym(e[2]), n>>>> \o SubSeq(e, 4, Len(e))
                  \o <<<<"recur", <<"+", Sym(e[2]), Num(1)>>>>>>>>
  IN IF IsFresh(e[3]) THEN Bound(LimitName(k), e[3], loop) ELSE loop

\* one form whose parts are rewritten already; k makes names differ, and
\* `kept` are the forms a back end lowers by itself (the C one: cond)
Rewritten(e, k, kept) ==
  CASE e[1] \in FoldOps /\ Len(e) > 3 -> Folded(e[1], Tail(e))
    [] e[1] = "unless" -> <<"when", <<"not", e[2]>>>> \o Statements(e)
    [] e[1] = "inc!"  -> <<"set!", e[2], <<"+", Sym(e[2]), Num(1)>>>>
    [] e[1] = "dec!"  -> <<"set!", e[2], <<"-", Sym(e[2]), Num(1)>>>>
    [] e[1] = "add!"  -> <<"set!", e[2], <<"+", Sym(e[2]), e[3]>>>>
    [] e[1] = "cond" /\ e[1] \notin kept -> CondForm(e)
    [] e[1] = "case"  -> CaseForm(e, k)
    [] e[1] = "dotimes" -> DotimesForm(e, k)
    [] OTHER -> e

\* ast_sugar: bottom up, with the place of the form as its suffix (the code
\* counts); k is NamesApart or NamesAlike at first
RECURSIVE Desugar(_, _, _)
Desugar(e, k, kept) ==
  LET part(i) ==
        CASE e[1] \in Atoms \/ i = 1 -> e[i]
          [] e[1] \in {"let", "loop"} /\ i = 2 ->
               Each(LAMBDA b : <<e[2][b][1], Desugar(e[2][b][2], Deeper(k, <<2, b>>), kept)>>,
                    [b \in DOMAIN e[2] |-> b])
          [] e[1] \in {"set!", "inc!", "dec!", "add!", "dotimes"} /\ i = 2 -> e[2]
          [] e[1] = "match" /\ i = 3 -> e[3]
          [] OTHER -> Desugar(e[i], Deeper(k, <<i>>), kept)
  IN Rewritten(Each(part, [i \in DOMAIN e |-> i]), k, kept)
=============================================================================
