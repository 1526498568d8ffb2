----------------------------- MODULE PrnMeaning -----------------------------
(***************************************************************************)
(* What a function body means: the reference the emitted code is held to.  *)
(* Operands are evaluated from left to right, only the chosen arm of an if *)
(* runs, `and' and `or' stop at the operand that decides (src/emit_llvm.h  *)
(* names evaluating both for the LLVM back end: `short' tells), recur      *)
(* computes all its values before it rebinds, a dotimes limit and a case   *)
(* subject are evaluated once, return leaves the function.  Stores and     *)
(* calls are what an observer sees, in order.                              *)
(***************************************************************************)
EXTENDS PrnSugar

CONSTANTS
  Width,   \* bits of an I32 (the code: 32)
  Fuel     \* loop iterations after which a program counts as endless

Low == -(2^(Width - 1))
Wrap(n) == ((n - Low) % 2^Width) + Low
Abs(n) == IF n < 0 THEN -n ELSE n
Trunc(a, b) == LET q == Abs(a) \div Abs(b) IN IF (a < 0) = (b < 0) THEN q ELSE -q

Trapping == {"/", "mod"}
Traps(f, a, b) == f \in Trapping /\ (b = 0 \/ (a = Low /\ b = -1))
Operate(f, a, b) ==
  CASE f = "+" -> Wrap(a + b)   [] f = "-" -> Wrap(a - b)   [] f = "*" -> Wrap(a * b)
    [] f = "/" -> Trunc(a, b)   [] f = "mod" -> a - b * Trunc(a, b)
    [] f = "=" -> a = b         [] f = "<" -> a < b         [] f = "<=" -> a <= b
    [] f = "and" -> a /\ b      [] f = "or" -> a \/ b       [] f = "xor" -> a # b
Arithmetic == {"+", "-", "*", "/", "mod"}
Comparison == {"=", "<", "<="}
Connective == {"and", "or"}

\* a call of another function: it is seen with its arguments, and returns the
\* first one
Returned(args) == args[1]
\* ... and one that returns an Option: Some of its argument if that is positive
Found(a) == IF a > 0 THEN <<a>> ELSE <<>>

(***************************************************************************)
(* An evaluation goes from a state [env, mem, log, fuel, over, short] to   *)
(* the same with an outcome: "value", "trap", "recur" (and the new values),*)
(* "return" or "endless".  env is a stack of <<name, value>>, the          *)
(* innermost binding last; over tells that an I32 overflowed on the way.   *)
(***************************************************************************)
Done(s, v) == [out |-> "value", v |-> v, s |-> s]
Stop(s, why) == [out |-> why, v |-> "unit", s |-> s]
After(r, F(_)) == IF r.out = "value" THEN F(r) ELSE r
Binding(env, x) == CHOOSE i \in DOMAIN env : env[i][1] = x /\ \A j \in i + 1..Len(env) : env[j][1] # x
Seen(s, event) == [s EXCEPT !.log = Append(@, event)]
Overflows(f, a, b) == LET exact == CASE f = "+" -> a + b [] f = "-" -> a - b [] f = "*" -> a * b
                                     [] OTHER -> 0
                      IN Wrap(exact) # exact
Depth(s, n) == [s EXCEPT !.env = SubSeq(@, 1, n)]

RECURSIVE Eval(_, _), EvalAll(_, _), EvalSeq(_, _), EvalLet(_, _, _), EvalCond(_, _), Iterate(_, _, _)

\* the values of es, in order
EvalAll(s, es) ==
  IF es = <<>> THEN Done(s, <<>>)
  ELSE After(Eval(s, es[1]), LAMBDA r :
         After(EvalAll(r.s, Tail(es)), LAMBDA q : Done(q.s, <<r.v>> \o q.v)))
EvalSeq(s, es) ==
  IF es = <<>> THEN Done(s, "unit")
  ELSE IF Len(es) = 1 THEN Eval(s, es[1])
  ELSE After(Eval(s, es[1]), LAMBDA r : EvalSeq(r.s, Tail(es)))
EvalLet(s, binds, body) ==
  IF binds = <<>> THEN EvalSeq(s, body)
  ELSE After(Eval(s, binds[1][2]), LAMBDA r :
         EvalLet([r.s EXCEPT !.env = Append(@, <<binds[1][1], r.v>>)], Tail(binds), body))

\* the body of a loop whose n variables start at env position base + 1
Iterate(s, base, e) ==
  IF s.fuel = 0 THEN Stop(s, "endless")
  ELSE LET r == EvalSeq([s EXCEPT !.fuel = @ - 1], Statements(e))
       IN IF r.out = "recur"
          THEN Iterate([Depth(r.s, base + Len(e[2])) EXCEPT !.env =
                          [i \in DOMAIN @ |-> IF i > base THEN <<@[i][1], r.v[i - base]>> ELSE @[i]]],
                       base, e)
          ELSE r
EvalLoop(s, e) ==
  After(EvalLet(s, e[2], <<>>), LAMBDA r : Iterate(r.s, Len(s.env), e))

\* (dotimes i n body ...): a loop whose limit is a value
EvalTimes(s, e) ==
  After(Eval(s, e[3]), LAMBDA r :
    EvalLoop(r.s, <<"loop", <<<<e[2], Num(0)>>>>,
                    <<"when", <<"<", Sym(e[2]), Num(r.v)>>>> \o SubSeq(e, 4, Len(e))
                       \o <<<<"recur", <<"+", Sym(e[2]), Num(1)>>>>>>>>))
EvalCase(s, e) ==
  After(Eval(s, e[2]), LAMBDA r :
    LET pairs == PairsFrom(e, 3)
        hits == {i \in DOMAIN pairs : pairs[i][1][2] = r.v}
    IN IF hits # {} THEN Eval(r.s, pairs[CHOOSE i \in hits : \A j \in hits : i <= j][2])
       ELSE IF Leftover(e, 3) # <<>> THEN Eval(r.s, Last(e)) ELSE Done(r.s, "unit"))

EvalCond(s, es) ==
  IF es = <<>> THEN Done(s, "unit")
  ELSE IF Len(es) = 1 THEN Eval(s, es[1])
  ELSE After(Eval(s, es[1]), LAMBDA r : IF r.v THEN Eval(r.s, es[2]) ELSE EvalCond(r.s, SubSeq(es, 3, Len(es))))

Eval(s, e) ==
  CASE e[1] = "num" -> Done(s, Wrap(e[2]))
    [] e[1] \in {"true", "else"} -> Done(s, TRUE)
    [] e[1] = "false" -> Done(s, FALSE)
    [] e[1] = "unit" -> Done(s, "unit")
    [] e[1] = "sym" -> Done(s, s.env[Binding(s.env, e[2])][2])
    [] e[1] \in Connective /\ Len(e) = 3 /\ s.short ->
         After(Eval(s, e[2]), LAMBDA r : IF r.v = (e[1] = "or") THEN r ELSE Eval(r.s, e[3]))
    [] e[1] \in Arithmetic \cup Comparison \cup Connective /\ Len(e) = 3 ->
         After(EvalAll(s, Args(e)), LAMBDA r :
           IF Traps(e[1], r.v[1], r.v[2]) THEN Stop(r.s, "trap")
           ELSE Done([r.s EXCEPT !.over = @ \/ Overflows(e[1], r.v[1], r.v[2])],
                     Operate(e[1], r.v[1], r.v[2])))
    [] e[1] \in FoldOps /\ Len(e) > 3 ->   \* the operators are binary: to the left
         Eval(s, <<e[1], SubSeq(e, 1, Len(e) - 1), Last(e)>>)
    [] e[1] = "-" /\ Len(e) = 2 -> Eval(s, <<"-", Num(0), e[2]>>)
    [] e[1] = "not" -> After(Eval(s, e[2]), LAMBDA r : Done(r.s, ~r.v))
    [] e[1] = "if" ->
         After(Eval(s, e[2]), LAMBDA r :
           IF r.v THEN Eval(r.s, e[3]) ELSE IF Len(e) = 4 THEN Eval(r.s, e[4]) ELSE Done(r.s, "unit"))
    [] e[1] \in {"when", "unless"} ->
         After(Eval(s, e[2]), LAMBDA r :
           IF r.v # (e[1] = "when") THEN Done(r.s, "unit")
           ELSE After(EvalSeq(r.s, Statements(e)), LAMBDA q : Done(q.s, "unit")))
    [] e[1] = "do" -> EvalSeq(s, Args(e))
    [] e[1] = "let" ->
         LET r == EvalLet(s, e[2], Statements(e))
         IN [r EXCEPT !.s = Depth(@, Len(s.env))]
    [] e[1] = "loop" -> LET r == EvalLoop(s, e) IN [r EXCEPT !.s = Depth(@, Len(s.env))]
    [] e[1] = "dotimes" -> LET r == EvalTimes(s, e) IN [r EXCEPT !.s = Depth(@, Len(s.env))]
    [] e[1] = "recur" -> After(EvalAll(s, Args(e)), LAMBDA r : [r EXCEPT !.out = "recur"])
    [] e[1] = "set!" ->
         After(Eval(s, e[3]), LAMBDA r :
           Done([r.s EXCEPT !.env[Binding(r.s.env, e[2])][2] = r.v], "unit"))
    [] e[1] \in {"inc!", "dec!"} ->
         Eval(s, <<"set!", e[2], <<IF e[1] = "inc!" THEN "+" ELSE "-", Sym(e[2]), Num(1)>>>>)
    [] e[1] = "add!" -> Eval(s, <<"set!", e[2], <<"+", Sym(e[2]), e[3]>>>>)
    [] e[1] = "load32" -> After(Eval(s, e[2]), LAMBDA r : Done(r.s, r.s.mem[r.v]))
    [] e[1] = "store32!" ->
         After(EvalAll(s, Args(e)), LAMBDA r :
           Done(Seen([r.s EXCEPT !.mem[r.v[1]] = r.v[2]], <<"store", r.v[1], r.v[2]>>), "unit"))
    [] e[1] = "call" ->
         After(EvalAll(s, Args(e)), LAMBDA r : Done(Seen(r.s, <<"call">> \o r.v), Returned(r.v)))
    [] e[1] = "find" -> After(Eval(s, e[2]), LAMBDA r : Done(Seen(r.s, <<"find", r.v>>), Found(r.v)))
    [] e[1] = "match" ->
         After(Eval(s, e[2]), LAMBDA r :
           IF r.v = <<>> THEN Eval(r.s, e[5])
           ELSE LET q == Eval([r.s EXCEPT !.env = Append(@, <<e[3], r.v[1]>>)], e[4])
                IN [q EXCEPT !.s = Depth(@, Len(s.env))])
    [] e[1] = "deref" -> Eval(s, e[2])   \* of what a match binds
    [] e[1] = "return" -> After(Eval(s, e[2]), LAMBDA r : [r EXCEPT !.out = "return"])
    [] e[1] = "cond" -> EvalCond(s, Args(e))
    [] e[1] = "case" -> EvalCase(s, e)

Meaning(e, env, mem, short) ==
  LET r == Eval([env |-> env, mem |-> mem, log |-> <<>>, fuel |-> Fuel, over |-> FALSE, short |-> short], e)
  IN IF r.out = "return" THEN [r EXCEPT !.out = "value"] ELSE r
=============================================================================
