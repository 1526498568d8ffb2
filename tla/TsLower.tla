------------------------------ MODULE TsLower -------------------------------
(***************************************************************************)
(* The TypeScript emitter (src/emit_ts.c).  Every statement is emitted for *)
(* a destination: its value is dropped, returned, or ends the loop and     *)
(* goes where the loop's own value goes.  Left out: strings, F64 and the   *)
(* JavaScript bridge; match and return are no forms of this back end.      *)
(***************************************************************************)
EXTENDS HostLang

CONSTANT ModuleVars   \* the names of top-level (def ...)s

\* camel_case
Upper == [c \in {"a", "i", "n", "x"} |->
            CASE c = "a" -> "A" [] c = "i" -> "I" [] c = "n" -> "N" [] c = "x" -> "X"]
Raised(c) == IF c \in DOMAIN Upper THEN Upper[c] ELSE c
TsIdent(x) ==
  FlattenSeq([i \in DOMAIN x |->
    CASE x[i] = "-" -> <<>>
      [] x[i] = "!" -> <<"B", "a", "n", "g">>
      [] x[i] = "?" -> <<"P">>
      [] i > 1 /\ x[i - 1] = "-" -> <<Raised(x[i])>>
      [] OTHER -> <<x[i]>>])

T(type, c) == [type |-> type, c |-> c]
StatementHeads == {"let", "do", "when", "loop", "recur", "set!"}
RECURSIVE NeedsStmt(_), TsExpr(_, _)
\* needs_stmt, of any part of the form
NeedsStmt(e) == e[1] \in StatementHeads \/ \E f \in Range(Subforms(e)) : NeedsStmt(f)

\* emit_ts_expr; vars are the names in scope
TsExpr(vars, e) ==
  LET parts == IF e[1] \in Atoms \cup StatementHeads THEN <<>> ELSE Each(LAMBDA f : TsExpr(vars, f), Args(e))
      refused == \E i \in DOMAIN parts : parts[i].type = "err"
      c(i) == parts[i].c
      ints == parts[1].type = "I32" /\ parts[2].type = "I32"
  IN CASE e[1] = "num" -> T("I32", e)
       [] e[1] \in {"true", "false"} -> T("boolean", <<"op", "=", Num(0), Num(IF e[1] = "true" THEN 0 ELSE 1)>>)
       [] e[1] = "unit" -> T("Unit", <<"nothing">>)
       [] e[1] = "sym" -> IF e[2] \in vars \cup Range(ModuleVars) THEN T("I32", HVar(TsIdent(e[2]))) ELSE T("err", <<>>)
       [] e[1] \in StatementHeads \cup {"match", "return", "find"} -> T("err", <<>>)
       [] refused -> T("err", <<>>)
       [] e[1] = "if" -> IF Len(e) # 4 THEN T("err", <<>>)
                         ELSE T(IF parts[2].type = "Unit" THEN parts[3].type ELSE parts[2].type,
                                <<"pick", c(1), c(2), c(3)>>)
       [] e[1] = "not" -> T("boolean", <<"not", c(1)>>)
       [] e[1] = "-" /\ Len(e) = 2 -> T(parts[1].type, <<"op", "-", Num(0), c(1)>>)
       [] e[1] \in Comparison \cup Connective /\ Len(e) = 3 -> T("boolean", <<"op", e[1], c(1), c(2)>>)
       [] e[1] \in Arithmetic /\ Len(e) = 3 ->
            T(IF ints THEN "I32" ELSE "F64", <<"op", IF e[1] = "/" /\ ints THEN "trunc" ELSE e[1], c(1), c(2)>>)
       [] e[1] = "call" -> T("I32", <<"call">> \o [i \in DOMAIN parts |-> c(i)])
       [] OTHER -> T("err", <<>>)

(***************************************************************************)
(* Statements: st is [out, vars, tmp]                                      *)
(***************************************************************************)
ToNothing == [kind |-> "discard"]
ToReturn == [kind |-> "return"]
ToLoop(vars, outer) == [kind |-> "loop", vars |-> vars, outer |-> outer]
TsSay(st, stmts) == [st |-> [st EXCEPT !.out = @ \o stmts], type |-> "ok"]
TsBad(st) == [st |-> st, type |-> "err"]
\* the statements of r become a part of st; names bound inside are forgotten
TsIn(st, r, stmts(_)) == TsSay([r.st EXCEPT !.out = st.out, !.vars = st.vars], stmts(r.st.out))
TsEmpty(st) == [st EXCEPT !.out = <<>>]

RECURSIVE Finish(_, _, _)
\* a loop's value that only ends its own loop
FinishHere(c, type, d) ==
  IF d.kind = "return" /\ type # "Unit" THEN <<<<"return", c>>>>
  ELSE <<<<"eval", c>>>> \o IF d.kind = "loop" THEN <<<<"break">>>> ELSE <<>>

\* finish_value
Finish(c, type, d) ==
  CASE d.kind = "discard" -> <<<<"eval", c>>>>
    [] d.kind = "return" -> <<<<IF type = "Unit" THEN "eval" ELSE "return", c>>>>
    [] d.kind = "loop" -> Finish(c, type, d.outer) \o IF d.outer = ToReturn THEN <<>> ELSE <<<<"break">>>>

RECURSIVE TsStmt(_, _, _), TsSeq(_, _, _), TsBindings(_, _)
\* emit_bindings
TsBindings(st, binds) ==
  IF binds = <<>> THEN TsSay(st, <<>>)
  ELSE With(TsExpr(st.vars, binds[1][2]), LAMBDA v :
         TsBindings([TsSay(st, <<Decl("number", TsIdent(binds[1][1]), v.c)>>).st EXCEPT !.vars = @ \cup {binds[1][1]}],
                    Tail(binds)))
\* ts_seq: a bare number before the last form is skipped
TsSeq(st, es, d) ==
  IF es = <<>> THEN TsSay(st, <<>>)
  ELSE IF Len(es) = 1 THEN TsStmt(st, es[1], d)
  ELSE IF es[1][1] = "num" THEN TsSeq(st, Tail(es), d)
  ELSE With(TsStmt(st, es[1], ToNothing), LAMBDA r : TsSeq(r.st, Tail(es), d))

TsLet(st, e, d) ==
  With(TsBindings(TsEmpty(st), e[2]), LAMBDA b :
    With(TsSeq(b.st, Statements(e), d), LAMBDA r : TsIn(st, r, LAMBDA S : <<<<"block", S>>>>)))
TsWhen(st, e, d) ==
  With(TsExpr(st.vars, e[2]), LAMBDA c :
    With(TsSeq(TsEmpty(st), Statements(e), IF d.kind = "loop" THEN d ELSE ToNothing), LAMBDA r :
      TsIn(st, r, LAMBDA S : <<OnlyIf(c.c, S)>>)))
TsIf(st, e, d) ==
  With(TsExpr(st.vars, e[2]), LAMBDA c :
    With(TsStmt(TsEmpty(st), e[3], d), LAMBDA a :
      IF Len(e) = 3 THEN TsIn(st, a, LAMBDA S : <<OnlyIf(c.c, S)>>)
      ELSE With(TsStmt([TsEmpty(a.st) EXCEPT !.vars = st.vars], e[4], d), LAMBDA b :
             TsIn(st, b, LAMBDA S : <<<<"if", c.c, a.st.out, S>>>>))))
TsSet(st, e) ==
  IF e[2] \notin st.vars \cup Range(ModuleVars) THEN TsBad(st)
  ELSE With(TsExpr(st.vars, e[3]), LAMBDA v : TsSay(st, <<<<"set", TsIdent(e[2]), v.c>>>>))
TsLoop(st, e, d) ==
  LET vars == [i \in DOMAIN e[2] |-> TsIdent(e[2][i][1])]
  IN With(TsBindings(TsEmpty(st), e[2]), LAMBDA b :
       With(TsSeq(TsEmpty(b.st), Statements(e), ToLoop(vars, d)), LAMBDA r :
         TsIn(st, r, LAMBDA S : <<<<"block", Append(b.st.out, <<"forever", Append(S, <<"break">>)>>)>>>>)))
\* one variable is assigned at once, more go through constants _t0, _t1 ...
TsRecur(st, e, d) ==
  LET vals == Each(LAMBDA f : TsExpr(st.vars, f), Args(e))
      n == Len(vals)
      temp(i) == <<"_t", ToString(st.tmp + i - 1)>>
  IN IF d.kind # "loop" \/ \E i \in 1..n : vals[i].type = "err" THEN TsBad(st)
     ELSE IF n # Len(d.vars) THEN TsBad(st)
     ELSE IF n = 1 THEN TsSay(st, <<<<"set", d.vars[1], vals[1].c>>, <<"continue">>>>)
     ELSE TsSay([st EXCEPT !.tmp = @ + n],
                [i \in 1..n |-> Decl("number", temp(i), vals[i].c)]
                  \o [i \in 1..n |-> <<"set", d.vars[i], HVar(temp(i))>>] \o <<<<"continue">>>>)

\* ts_stmt
TsStmt(st, e, d) ==
  CASE e[1] = "do" -> TsSeq(st, Args(e), d)
    [] e[1] = "let" -> TsLet(st, e, d)
    [] e[1] = "when" -> TsWhen(st, e, d)
    [] e[1] = "set!" -> TsSet(st, e)
    [] e[1] = "loop" -> TsLoop(st, e, d)
    [] e[1] = "recur" -> TsRecur(st, e, d)
    [] e[1] = "if" /\ (Len(e) = 3 \/ NeedsStmt(e) \/ d.kind \in {"loop", "discard"}) -> TsIf(st, e, d)
    [] e[1] = "unit" \/ (e[1] = "num" /\ d = ToNothing) -> TsSay(st, <<>>)
    [] OTHER -> With(TsExpr(st.vars, e), LAMBDA v : TsSay(st, Finish(v.c, v.type, d)))

\* emit_ts_defn
TsLower(params, body, names) ==
  LET r == TsStmt([out |-> <<>>, vars |-> {params[i][1] : i \in DOMAIN params}, tmp |-> 0],
                  Desugar(body, names, {}), ToReturn)
  IN IF r.type = "err" THEN [ok |-> FALSE, code |-> <<>>] ELSE [ok |-> TRUE, code |-> r.st.out]
=============================================================================
