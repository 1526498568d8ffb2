------------------------------- MODULE CLower -------------------------------
(***************************************************************************)
(* The C emitter (src/emit.c): a function body lowered to C statements.    *)
(* Forms that are statements in C (let, loop, match, do, when, an if over  *)
(* them) are composed by four functions, one per place: a function body or *)
(* a statement of one (emit_body), a loop's tail (emit_loop_tail), a match *)
(* clause (emit_match_clause_body) and a condition (emit_if_condition);    *)
(* everything else is one C expression (emit_expr).  The types kept apart  *)
(* are int, double, Option, "void", "void *" (of unit) and "none" where    *)
(* the code has NULL; "err" is every refusal, of the emitter or, where it  *)
(* emits text that is no C, of the C compiler.  Left out: arenas, strings, *)
(* structs, closures, inline C, Result and user enums (they take Option's  *)
(* path), pointers (a payload is read where it is bound).                  *)
(***************************************************************************)
EXTENDS HostLang

CONSTANT Globals   \* the names of top-level (def ...)s, all I32

\* mangle; names are looked up by what they are without a leading bang
Unbang(x) == IF x[1] = "!" THEN Tail(x) ELSE x
CName(x) == [i \in DOMAIN Unbang(x) |-> IF Unbang(x)[i] \in {"-", "/", "!", "?"} THEN "_" ELSE Unbang(x)[i]]
\* ... one name for every temporary of a kind
TempUnnumbered(prefix, n) == <<prefix>>

\* the emitter's own names
Temp(prefix, n) == <<prefix, ToString(n)>>

(***************************************************************************)
(* Scopes are sequences of [x, c, type], newest last.  A statement emitter *)
(* takes and returns st: the statements so far and the function's static   *)
(* counters (let_val_counter exists three times); res.type is the type of  *)
(* the value, "none" for no value.                                         *)
(***************************************************************************)
Local(x, type) == [x |-> Unbang(x), c |-> CName(x), type |-> type]
scopeLookup(scope, x) ==
  LET at == {i \in DOMAIN scope : scope[i].x = Unbang(x)}
  IN IF at = {} THEN [type |-> "err", c |-> <<>>] ELSE scope[Max(at)]
GlobalScope == [i \in DOMAIN Globals |-> Local(Globals[i], "int")]

CStart == [out |-> <<>>, let |-> 0, tail |-> 0, clause |-> 0, loop |-> 0, match |-> 0, tmp |-> 0, cond |-> 0]
Res(st, type) == [st |-> st, type |-> type]
Refused(st) == Res(st, "err")
Say(st, stmts) == [st EXCEPT !.out = @ \o stmts]
Inner(st) == [st EXCEPT !.out = <<>>]
Outer(st, old) == [st EXCEPT !.out = old.out]
First(a, b) == IF a = "none" THEN b ELSE a
Declared(type) == CASE type = "void" -> "int" [] type = "none" -> "void *" [] OTHER -> type

(***************************************************************************)
(* emit_expr                                                               *)
(***************************************************************************)
C(type, c) == [type |-> type, c |-> c]
RECURSIVE CExpr(_, _), CTernaries(_, _), NeedsStatement(_)

\* emit_cond in an expression: the last test is never looked at
CTernaries(scope, es) ==
  With(CExpr(scope, es[2]), LAMBDA v :
    IF Len(es) = 2 THEN v
    ELSE With(CExpr(scope, es[1]), LAMBDA t :
           With(CTernaries(scope, SubSeq(es, 3, Len(es))), LAMBDA rest :
             C(rest.type, <<"pick", t.c, v.c, rest.c>>))))
\* emit_if
CTernary(scope, e) ==
  IF Len(e) # 4 THEN C("err", <<>>)
  ELSE With(CExpr(scope, e[2]), LAMBDA t :
         With(CExpr(scope, e[3]), LAMBDA a :
           With(CExpr(scope, e[4]), LAMBDA b : C(a.type, <<"pick", t.c, a.c, b.c>>))))
\* emit_binop; a % of doubles is no C
CBinop(scope, e) ==
  With(CExpr(scope, e[2]), LAMBDA a :
    With(CExpr(scope, e[3]), LAMBDA b :
      IF e[1] = "mod" /\ "double" \in {a.type, b.type} THEN C("err", <<>>)
      ELSE C(IF e[1] \in Comparison \cup Connective THEN "int" ELSE a.type, <<"op", e[1], a.c, b.c>>)))
\* the set! of emit_expr: of a global
CAssign(scope, e) ==
  LET global == scopeLookup(GlobalScope, e[2])
  IN IF global.type = "err" THEN C("err", <<>>)
     ELSE With(CExpr(scope, e[3]), LAMBDA v : C("void", <<"assign", global.c, v.c>>))
CCall(scope, e) ==
  LET args == Each(LAMBDA f : CExpr(scope, f), Args(e))
  IN IF \E i \in DOMAIN args : args[i].type = "err" THEN C("err", <<>>)
     ELSE C(IF e[1] = "find" THEN "Option" ELSE "int", <<e[1]>> \o [i \in DOMAIN args |-> args[i].c])
CExpr(scope, e) ==
  CASE e[1] = "num" -> C("int", e)
    [] e[1] \in {"true", "else", "false"} -> C("int", Num(IF e[1] = "false" THEN 0 ELSE 1))
    [] e[1] = "unit" -> C("void *", <<"nothing">>)
    [] e[1] = "sym" -> C(scopeLookup(scope, e[2]).type, HVar(scopeLookup(scope, e[2]).c))
    [] e[1] = "if" -> CTernary(scope, e)
    [] e[1] = "cond" -> CTernaries(scope, Args(e))
    [] e[1] = "not" -> With(CExpr(scope, e[2]), LAMBDA a : C("int", <<"not", a.c>>))
    [] e[1] = "-" /\ Len(e) = 2 -> With(CExpr(scope, e[2]), LAMBDA a : C(a.type, <<"op", "-", Num(0), a.c>>))
    [] e[1] \in Arithmetic \cup Comparison \cup Connective /\ Len(e) = 3 -> CBinop(scope, e)
    [] e[1] = "deref" -> With(CExpr(scope, e[2]), LAMBDA a :
                           IF a.type = "int *" THEN C("int", <<"deref", a.c>>) ELSE C("err", <<>>))
    [] e[1] = "set!" -> CAssign(scope, e)
    [] e[1] \in {"call", "find"} -> CCall(scope, e)
    [] OTHER -> C("err", <<>>)   \* let, loop, match; a call of a function named do, when, recur, return

\* needs_statement_form
NeedsStatement(e) ==
  \/ e[1] \in {"unit", "set!", "do", "let", "loop", "match", "when"}
  \/ e[1] = "if" /\ \E i \in 2..Len(e) : NeedsStatement(e[i])
  \/ e[1] = "cond" /\ \E i \in 1..(Len(e) - 1) \div 2 : NeedsStatement(e[2 * i + 1])

(***************************************************************************)
(* The type of a loop variable                                             *)
(***************************************************************************)
\* value_node_is_int_safe, loop_recur_binding_is_int_safe: every recur gives
\* variable k a value that is an int as far as the emitter can tell
RECURSIVE IntSafe(_, _, _), LetScope(_, _)
LetScope(scope, binds) ==
  IF binds = <<>> THEN C("ok", scope)
  ELSE With(CExpr(scope, binds[1][2]), LAMBDA v :
         LetScope(Append(scope, Local(binds[1][1], v.type)), Tail(binds)))
IntSafe(scope, e, k) ==
  LET all(es) == \A i \in DOMAIN es : IntSafe(scope, es[i], k)
  IN CASE e[1] = "recur" -> k + 1 <= Len(e) => CExpr(scope, e[k + 1]).type = "int"
       [] e[1] = "if" /\ Len(e) = 4 -> all(<<e[3], e[4]>>)
       [] e[1] = "cond" -> all([i \in 1..(Len(e) - 1) \div 2 |-> e[2 * i + 1]])
       [] e[1] = "when" -> all(Statements(e))
       [] e[1] = "do" -> all(Args(e))
       [] e[1] = "let" -> LET child == LetScope(scope, e[2])
                          IN child.type # "err" /\ \A i \in 3..Len(e) : IntSafe(child.c, e[i], k)
       [] e[1] = "match" -> all(<<e[4], e[5]>>)
       [] OTHER -> TRUE

(***************************************************************************)
(* Statements.  A place tells what becomes of a form's value: in a body it *)
(* is returned or dropped, in a loop's tail it ends the loop, in a match   *)
(* clause it is stored and, if the match is a loop's tail, ends the loop.  *)
(***************************************************************************)
BodyAt(ret) == [at |-> "body", ret |-> ret]
TailAt(vars, result) == [at |-> "tail", looping |-> TRUE, vars |-> vars, result |-> result]
\* "hint" is the type of the match's first clause, for the clauses after it; a
\* match inside a clause starts without one.
ClauseAt(result, place, hint) ==
  [at |-> "clause", looping |-> place.looping, vars |-> place.vars, result |-> result, hint |-> hint]
Do(es) == <<"do">> \o es
NoLoopAt(result) == [at |-> "clause", looping |-> FALSE, vars |-> <<>>, result |-> result]

RECURSIVE CIn(_, _, _, _), CChain(_, _, _, _), CBody(_, _, _, _), CBinds(_, _, _, _), CEvals(_, _, _),
          CLoopBody(_, _, _, _)

Plain(st, e, scope) == LET v == CExpr(scope, e) IN [st |-> st, type |-> v.type, c |-> v.c]
CEval(st, e, scope) == With(Plain(st, e, scope), LAMBDA v : Res(Say(st, <<<<"eval", v.c>>>>), v.type))
\* forms for their effects only, each one expression
CEvals(st, es, scope) ==
  IF es = <<>> THEN Res(st, "none")
  ELSE With(CEval(st, es[1], scope), LAMBDA r : CEvals(r.st, Tail(es), scope))

\* emit_if_condition: statements come before the if, through a variable
CCondition(st, e, scope) ==
  IF e[1] \notin {"let", "match", "loop"} THEN Plain(st, e, scope)
  ELSE LET temp == Temp("__if_cond_", st.cond)
       IN With(CIn([Inner(st) EXCEPT !.cond = @ + 1], e, scope, ClauseAt(temp, NoLoopAt(temp), "none")),
            LAMBDA r : [st |-> Say(Outer(r.st, st),
                                   <<Decl(IF r.type = "none" THEN "int" ELSE Declared(r.type), temp, <<>>)>>
                                     \o r.st.out),
                        type |-> "int", c |-> HVar(temp)])

\* the if of all three places
CIfElse(st, e, scope, place) ==
  IF Len(e) # 4 THEN Refused(st)
  ELSE With(CCondition(st, e[2], scope), LAMBDA c :
         With(CIn(Inner(c.st), e[3], scope, place), LAMBDA t :
           With(CIn(Inner(t.st), e[4], scope, place), LAMBDA f :
             Res(Say(Outer(f.st, c.st), <<<<"if", c.c, t.st.out, f.st.out>>>>), First(t.type, f.type)))))
\* the cond of a body and of a loop's tail: nested ifs, the last test ignored
CChain(st, es, scope, place) ==
  IF Len(es) = 2 THEN CIn(st, es[2], scope, place)
  ELSE With(IF place.at = "tail" THEN Plain(st, es[1], scope) ELSE CCondition(st, es[1], scope), LAMBDA c :
         With(CIn(Inner(c.st), es[2], scope, place), LAMBDA t :
           With(CChain(Inner(t.st), SubSeq(es, 3, Len(es)), scope, place), LAMBDA f :
             Res(Say(Outer(f.st, c.st), <<<<"if", c.c, t.st.out, f.st.out>>>>), First(t.type, f.type)))))

\* the binding loop of emit_let (counter "let"), of emit_loop_tail ("tail")
\* and of emit_match_clause_body ("clause"): a loop or a match is lowered into
\* a temporary of its own first
CBinds(st, binds, scope, counter) ==
  IF binds = <<>> THEN [st |-> st, type |-> "ok", scope |-> scope]
  ELSE LET x == binds[1][1]
           e == binds[1][2]
           temp == Temp("__let_val_", st[counter])
           start == [Inner(st) EXCEPT ![counter] = @ + 1]
           bound(st1, type, c) == CBinds(Say(st1, <<Decl(type, CName(x), c)>>), Tail(binds),
                                         Append(scope, Local(x, type)), counter)
       IN IF e[1] \in {"match", "loop"}
          THEN With(CIn(start, e, scope, NoLoopAt(temp)), LAMBDA r :
                 bound(Say(Outer(r.st, st), <<Decl(Declared(r.type), temp, Num(0))>> \o r.st.out),
                       Declared(r.type), HVar(temp)))
          ELSE With(CExpr(scope, e), LAMBDA v :
                 IF v.type = "void" THEN Refused(st) ELSE bound(st, v.type, v.c))

\* recur: all new values into temporaries, then the variables
CRecur(st, e, scope, vars) ==
  LET vals == Each(LAMBDA f : CExpr(scope, f), Args(e))
      temp(i) == Temp("__recur_tmp_", i)
  IN IF Len(vals) # Len(vars) \/ \E i \in DOMAIN vals : vals[i].type \in {"err", "void"} THEN Refused(st)
     ELSE Res(Say(st, [i \in DOMAIN vals |-> Decl(vars[i].type, temp(i), vals[i].c)]
                      \o [i \in DOMAIN vals |-> <<"set", vars[i].c, HVar(temp(i))>>]
                      \o <<<<"continue">>>>), "none")

\* emit_match_core, of an Option
CMatch(st, e, scope, place) ==
  LET subject == CExpr(scope, e[2])
      tmp == Temp("__match_tmp_", st.match)
      isSome == <<"some?", HVar(tmp)>>
      start == Say([st EXCEPT !.match = @ + 1], <<Decl("Option", tmp, subject.c)>>)
  IN IF subject.type # "Option" THEN Refused(st)
     ELSE With(CIn(Say(Inner(start), <<Decl("void *", CName(e[3]), <<"payload", HVar(tmp)>>)>>), e[4],
                   Append(scope, Local(e[3], "int *")), ClauseAt(place.result, place, "none")), LAMBDA a :
            With(CIn(Inner(a.st), e[5], scope, ClauseAt(place.result, place, a.type)), LAMBDA b :
              Res(Say(Outer(b.st, start),
                      <<<<"if", isSome, a.st.out, <<OnlyIf(<<"not", isSome>>, b.st.out)>>>>>>),
                  First(a.type, b.type))))

\* emit_loop_core
CLoopCore(st, e, scope, result) ==
  LET inits == Each(LAMBDA b : CExpr(scope, b[2]), e[2])
      typed == Each(LAMBDA i : Local(e[2][i][1], inits[i].type), [i \in DOMAIN e[2] |-> i])
      widened(vars, k) ==
        IF vars[k].type = "int" /\ \E i \in 3..Len(e) : ~IntSafe(scope \o vars, e[i], k)
        THEN [vars EXCEPT ![k].type = "double"] ELSE vars
      vars == FoldLeft(widened, typed, [i \in DOMAIN typed |-> i])
  IN IF \E i \in DOMAIN inits : inits[i].type \in {"err", "void"} THEN Refused(st)
     ELSE With(CLoopBody(Inner(st), Statements(e), scope \o vars, TailAt(vars, result)), LAMBDA r :
            Res(Say(Outer(r.st, st), [i \in DOMAIN vars |-> Decl(vars[i].type, vars[i].c, inits[i].c)]
                                     \o <<<<"forever", r.st.out>>>>), r.type))
CLet(st, e, scope, ret) ==
  With(CBinds(st, e[2], scope, "let"), LAMBDA b : CIn(b.st, Do(Statements(e)), b.scope, BodyAt(ret)))
CLoopBody(st, es, scope, place) ==
  IF Len(es) = 1 THEN CIn(st, es[1], scope, place)
  ELSE With(IF es[1][1] = "let" THEN CIn(st, es[1], scope, BodyAt(FALSE)) ELSE CEval(st, es[1], scope),
            LAMBDA r : CLoopBody(r.st, Tail(es), scope, place))

\* emit_loop
CLoop(st, e, scope, ret) ==
  LET result == Temp("__loop_result_", st.loop)
  IN With(CIn([Inner(st) EXCEPT !.loop = @ + 1], e, scope, NoLoopAt(result)), LAMBDA r :
       IF r.type = "void" THEN Refused(st)
       ELSE Res(Say(Outer(r.st, st), <<Decl(Declared(r.type), result, <<>>)>> \o r.st.out
                                     \o IF ret /\ r.type # "none" THEN <<<<"return", HVar(result)>>>> ELSE <<>>),
                CASE ~ret -> "none" [] r.type = "none" -> "void" [] OTHER -> r.type))
\* emit_match
CMatchForm(st, e, scope, ret) ==
  LET result == Temp("__match_result_", st.tmp)
  IN With(CIn([Inner(st) EXCEPT !.tmp = @ + 1], e, scope, NoLoopAt(result)), LAMBDA r :
       Res(Say(Outer(r.st, st), <<Decl(Declared(r.type), result, Num(0))>> \o r.st.out
                                \o IF ret /\ r.type \notin {"none", "void"}
                                   THEN <<<<"return", HVar(result)>>>> ELSE <<>>),
           IF ret THEN r.type ELSE "none"))
\* the when of emit_body: one form
CWhen(st, e, scope, ret) ==
  IF Len(e) # 3 THEN Refused(st)
  ELSE With(CExpr(scope, e[2]), LAMBDA c : With(CExpr(scope, e[3]), LAMBDA v :
         Res(Say(st, <<OnlyIf(c.c, <<<<"eval", v.c>>>>)>>), IF ret THEN "void" ELSE "none")))
\* the when of emit_loop_tail: the loop ends where the condition fails
CTailWhen(st, e, scope, place) ==
  With(CExpr(scope, e[2]), LAMBDA c :
    With(CIn(Inner(st), Do(Front(Statements(e))), scope, BodyAt(FALSE)), LAMBDA r :
      With(CIn(r.st, Last(e), scope, place), LAMBDA v :
        Res(Say(Outer(v.st, st), <<<<"if", c.c, v.st.out, <<<<"break">>>>>>>>), v.type))))

CReturn(st, e, scope) == With(Plain(st, e[2], scope), LAMBDA v : Res(Say(st, <<<<"return", v.c>>>>), "none"))
\* emit_body before its last form; its last form is CInBody's
CStatement(st, e, scope) ==
  CASE e[1] = "return" -> CReturn(st, e, scope)
    [] e[1] \in {"if", "cond"} /\ ~NeedsStatement(e) -> CEval(st, e, scope)
    [] OTHER -> CIn(st, e, scope, BodyAt(FALSE))
CBody(st, es, scope, place) ==
  IF es = <<>> THEN Res(st, "none")
  ELSE IF Len(es) = 1 THEN CIn(st, es[1], scope, place)
  ELSE With(CStatement(st, es[1], scope), LAMBDA r : CBody(r.st, Tail(es), scope, place))

CInBody(st, e, scope, place) ==
  CASE e[1] = "when" -> CWhen(st, e, scope, place.ret)
    [] e[1] = "let" -> CLet(st, e, scope, place.ret)
    [] e[1] = "loop" -> CLoop(st, e, scope, place.ret)
    [] e[1] = "match" -> CMatchForm(st, e, scope, place.ret)
    [] e[1] = "do" -> CBody(st, Args(e), scope, place)
    [] e[1] = "cond" /\ NeedsStatement(e) -> CChain(st, Args(e), scope, place)
    [] e[1] = "if" -> CIfElse(st, e, scope, place)
    [] OTHER -> With(Plain(st, e, scope), LAMBDA v :
         IF ~place.ret THEN Res(Say(st, <<<<"eval", v.c>>>>), "none")
         ELSE IF e = <<"unit">> \/ v.type = "void" THEN Res(Say(st, <<<<"eval", v.c>>>>), "void")
         ELSE Res(Say(st, <<<<"return", v.c>>>>), v.type))

\* emit_loop_tail; inside its let and do only expressions go before the last form
CInTail(st, e, scope, place) ==
  CASE e[1] = "if" -> CIfElse(st, e, scope, place)
    [] e[1] = "cond" -> CChain(st, Args(e), scope, place)
    [] e[1] = "when" -> CTailWhen(st, e, scope, place)
    [] e[1] = "let" ->
         With(CBinds(st, e[2], scope, "tail"), LAMBDA b :
           With(CEvals(b.st, Front(Statements(e)), b.scope), LAMBDA r : CIn(r.st, Last(e), b.scope, place)))
    [] e[1] = "do" -> With(CEvals(st, Front(Args(e)), scope), LAMBDA r : CIn(r.st, Last(e), scope, place))
    [] e[1] = "recur" -> CRecur(st, e, scope, place.vars)
    [] e[1] = "match" -> CMatch(st, e, scope, place)
    [] OTHER -> With(Plain(st, e, scope), LAMBDA v :
         Res(Say(st, <<<<"set", place.result, v.c>>, <<"break">>>>), IF e = <<"unit">> THEN "none" ELSE v.type))

\* emit_match_clause_body; a loop in it does not end the loop around it
CInClause(st, e, scope, place) ==
  CASE e[1] = "recur" -> IF place.looping THEN CRecur(st, e, scope, place.vars) ELSE Refused(st)
    [] e[1] = "return" -> CReturn(st, e, scope)
    [] e[1] = "if" -> CIfElse(st, e, scope, place)
    [] e[1] = "let" ->
         With(CBinds(st, e[2], scope, "clause"), LAMBDA b :
           With(CIn(b.st, Do(Front(Statements(e))), b.scope, BodyAt(FALSE)), LAMBDA r :
             CIn(r.st, Last(e), b.scope, place)))
    [] e[1] = "do" ->
         With(CIn(st, Do(Front(Args(e))), scope, BodyAt(FALSE)), LAMBDA r : CIn(r.st, Last(e), scope, place))
    [] e[1] = "match" -> CMatch(st, e, scope, place)
    [] e[1] = "loop" -> CLoopCore(st, e, scope, place.result)
    [] OTHER -> With(Plain(st, e, scope), LAMBDA v :
         Res(Say(st, <<IF "void" \in {v.type, place.hint} THEN <<"eval", v.c>> ELSE <<"set", place.result, v.c>>>>
                     \o IF place.looping THEN <<<<"break">>>> ELSE <<>>), v.type))

CIn(st, e, scope, place) ==
  CASE place.at = "body" -> CInBody(st, e, scope, place)
    [] place.at = "tail" -> CInTail(st, e, scope, place)
    [] place.at = "clause" -> CInClause(st, e, scope, place)

\* emit_defn, of a function that returns an I32
CLower(params, body, names) ==
  LET r == CIn(CStart, Desugar(body, names, {"cond"}),
               GlobalScope \o [i \in DOMAIN params |-> Local(params[i][1], "int")], BodyAt(TRUE))
  IN IF r.type = "err" THEN [ok |-> FALSE, code |-> <<>>] ELSE [ok |-> TRUE, code |-> r.st.out]
=============================================================================
