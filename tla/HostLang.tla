------------------------------ MODULE HostLang ------------------------------
(***************************************************************************)
(* The block-structured languages the C and TypeScript back ends emit:     *)
(* what a program may say (Valid) and what it does when run (Execute).     *)
(* Both are modelled from what the emitters rely on.  A declaration is in  *)
(* scope from its own initialiser to the end of its block and hides outer  *)
(* ones; a value that was never stored may not be read; C leaves the order *)
(* of operands open, TypeScript goes from left to right; an overflowing    *)
(* int is undefined in C, a TypeScript number is a double.                 *)
(*                                                                         *)
(* Expressions  <<"num", n>> <<"var", x>> <<"op", f, a, b>> <<"not", a>>   *)
(*   <<"pick", c, a, b>> <<"call", a, ...>> <<"find", a>> <<"some?", a>>   *)
(*   <<"payload", a>> <<"deref", a>> <<"assign", x, a>> <<"nothing">>      *)
(* Statements  <<"decl", type, x, a>> (a = <<>>: no initialiser)           *)
(*   <<"eval", a>> <<"set", x, a>> <<"if", c, S, S>> <<"forever", S>>      *)
(*   <<"block", S>> <<"break">> <<"continue">> <<"return", a>>             *)
(***************************************************************************)
EXTENDS PrnMeaning

HVar(x) == <<"var", x>>
Decl(type, x, e) == <<"decl", type, x, e>>
OnlyIf(c, then) == <<"if", c, then, <<>>>>

\* ---- what the language's own compiler accepts -----------------------------
RECURSIVE NamesIn(_), Valid(_, _, _, _)
NamesIn(e) ==
  CASE e = <<>> -> {}
    [] e[1] \in {"num", "nothing"} -> {}
    [] e[1] = "var" -> {e[2]}
    [] e[1] = "assign" -> {e[2]} \cup NamesIn(e[3])
    [] OTHER -> UNION {NamesIn(e[i]) : i \in (IF e[1] = "op" THEN 3 ELSE 2)..Len(e)}
\* `here' are the names of the block so far, `outer' those around it
Valid(S, here, outer, looping) ==
  IF S = <<>> THEN TRUE
  ELSE LET st == S[1]
           visible == here \cup outer
           sees(e) == NamesIn(e) \subseteq visible
           inside(T, loop) == Valid(T, {}, visible, loop)
       IN CASE st[1] = "decl" ->
                 /\ st[3] \notin here /\ NamesIn(st[4]) \subseteq visible \cup {st[3]}
                 /\ Valid(Tail(S), here \cup {st[3]}, outer, looping)
            [] OTHER ->
                 /\ CASE st[1] \in {"eval", "return"} -> sees(st[2])
                      [] st[1] = "set" -> st[2] \in visible /\ sees(st[3])
                      [] st[1] = "if" -> sees(st[2]) /\ inside(st[3], looping) /\ inside(st[4], looping)
                      [] st[1] = "forever" -> inside(st[2], TRUE)
                      [] st[1] = "block" -> inside(st[2], looping)
                      [] st[1] \in {"break", "continue"} -> looping
                 /\ Valid(Tail(S), here, outer, looping)

(***************************************************************************)
(* Running: values are <<n, kind>>, the kind "int", "double", "option",    *)
(* "pointer" or "unset"; a state is [env, log, fuel, rules] with env a     *)
(* stack of <<name, type, value>> and rules [right, ints]: whether         *)
(* operands go from right to left, and whether int arithmetic stays within *)
(* the width.                                                              *)
(***************************************************************************)
Unset == <<0, "unset">>
IntOf(n) == <<n, "int">>
Truth(b) == IntOf(IF b THEN 1 ELSE 0)
Kept(v, type) == IF type \in {"int", "double"} /\ v[2] \in {"int", "double"} THEN <<v[1], type>> ELSE v
Bind(s, type, x, v) == [s EXCEPT !.env = Append(@, <<x, type, v>>)]
Rebind(s, x, v) == LET i == Binding(s.env, x) IN [s EXCEPT !.env[i] = <<x, @[2], Kept(v, @[2])>>]

\* an operator on two numbers, in state s
Apply(s, f, a, b) ==
  LET kind == IF a[2] = "int" /\ b[2] = "int" THEN "int" ELSE "double"
      exact == CASE f = "+" -> a[1] + b[1] [] f = "-" -> a[1] - b[1] [] f = "*" -> a[1] * b[1]
                 [] OTHER -> 0
  IN CASE f \in Comparison -> Done(s, Truth(Operate(f, a[1], b[1])))
       [] f \in {"/", "trunc", "mod"} /\ b[1] = 0 -> Stop(s, "trap")
       [] f = "trunc" -> Done(s, <<Trunc(a[1], b[1]), kind>>)
       [] f = "/" /\ kind = "double" -> IF a[1] % Abs(b[1]) = 0 THEN Done(s, <<Trunc(a[1], b[1]), kind>>)
                                        ELSE Stop(s, "fraction")
       [] f \in Trapping -> Done(s, <<Operate(f, a[1], b[1]), kind>>)
       [] OTHER -> IF s.rules.ints /\ kind = "int" /\ Wrap(exact) # exact THEN Stop(s, "overflow")
                   ELSE Done(s, <<exact, kind>>)

RECURSIVE HEval(_, _), HArgs(_, _), Exec(_, _), Repeat(_, _)
\* operands, in the order of the rules
HArgs(s, es) ==
  IF es = <<>> THEN Done(s, <<>>)
  ELSE IF s.rules.right
  THEN After(HEval(s, Last(es)), LAMBDA r :
         After(HArgs(r.s, Front(es)), LAMBDA q : Done(q.s, Append(q.v, r.v))))
  ELSE After(HEval(s, es[1]), LAMBDA r :
         After(HArgs(r.s, Tail(es)), LAMBDA q : Done(q.s, <<r.v>> \o q.v)))
HEval(s, e) ==
  CASE e[1] = "num" -> Done(s, <<e[2], IF s.rules.ints THEN "int" ELSE "double">>)
    [] e[1] = "nothing" -> Done(s, IntOf(0))
    [] e[1] = "var" -> LET v == s.env[Binding(s.env, e[2])][3]
                       IN IF v[2] = "unset" THEN Stop(s, "unset") ELSE Done(s, v)
    [] e[1] = "op" /\ e[2] \in Connective ->
         After(HEval(s, e[3]), LAMBDA r :
           IF (r.v[1] # 0) = (e[2] = "or") THEN Done(r.s, Truth(r.v[1] # 0))
           ELSE After(HEval(r.s, e[4]), LAMBDA q : Done(q.s, Truth(q.v[1] # 0))))
    [] e[1] = "op" -> After(HArgs(s, <<e[3], e[4]>>), LAMBDA r : Apply(r.s, e[2], r.v[1], r.v[2]))
    [] e[1] = "not" -> After(HEval(s, e[2]), LAMBDA r : Done(r.s, Truth(r.v[1] = 0)))
    [] e[1] = "pick" -> After(HEval(s, e[2]), LAMBDA r : HEval(r.s, IF r.v[1] # 0 THEN e[3] ELSE e[4]))
    [] e[1] = "assign" -> After(HEval(s, e[3]), LAMBDA r : Done(Rebind(r.s, e[2], r.v), IntOf(0)))
    [] e[1] = "call" ->
         After(HArgs(s, Args(e)), LAMBDA r :
           LET passed == [i \in DOMAIN r.v |-> r.v[i][1]]
           IN Done(Seen(r.s, <<"call">> \o passed), <<Returned(passed), r.v[1][2]>>))
    [] e[1] = "find" ->
         After(HEval(s, e[2]), LAMBDA r : Done(Seen(r.s, <<"find", r.v[1]>>), <<Found(r.v[1]), "option">>))
    [] e[1] = "some?" -> After(HEval(s, e[2]), LAMBDA r : Done(r.s, Truth(r.v[1] # <<>>)))
    [] e[1] = "payload" -> After(HEval(s, e[2]), LAMBDA r : Done(r.s, <<r.v[1][1], "pointer">>))
    [] e[1] = "deref" -> After(HEval(s, e[2]), LAMBDA r : Done(r.s, IntOf(r.v[1])))

\* statements, to the end of their block or to a jump out of it
Closed(r, s) == [r EXCEPT !.s = Depth(@, Len(s.env))]
Repeat(s, S) ==
  IF s.fuel = 0 THEN Stop(s, "endless")
  ELSE LET r == Closed(Exec([s EXCEPT !.fuel = @ - 1], S), s)
       IN CASE r.out \in {"value", "continue"} -> Repeat(r.s, S)
            [] r.out = "break" -> Done(r.s, IntOf(0))
            [] OTHER -> r
Exec(s, S) ==
  IF S = <<>> THEN Done(s, IntOf(0))
  ELSE LET st == S[1]
           then(t) == Exec(t, Tail(S))
           value(r) == IF r.out = "value" THEN then(r.s) ELSE r
       IN CASE st[1] = "decl" /\ st[4] = <<>> -> then(Bind(s, st[2], st[3], Unset))
            [] st[1] = "decl" ->
                 After(HEval(Bind(s, st[2], st[3], Unset), st[4]), LAMBDA r :
                   then([r.s EXCEPT !.env[Len(s.env) + 1][3] = Kept(r.v, st[2])]))
            [] st[1] = "eval" -> After(HEval(s, st[2]), LAMBDA r : then(r.s))
            [] st[1] = "set" -> After(HEval(s, st[3]), LAMBDA r : then(Rebind(r.s, st[2], r.v)))
            [] st[1] = "return" -> After(HEval(s, st[2]), LAMBDA r : [r EXCEPT !.out = "return"])
            [] st[1] = "if" -> After(HEval(s, st[2]), LAMBDA r :
                                 value(Closed(Exec(r.s, IF r.v[1] # 0 THEN st[3] ELSE st[4]), s)))
            [] st[1] = "forever" -> value(Repeat(s, st[2]))
            [] st[1] = "block" -> value(Closed(Exec(s, st[2]), s))
            [] st[1] \in {"break", "continue"} -> Stop(s, st[1])

Execute(S, env, rules) ==
  Exec([env |-> env, log |-> <<>>, fuel |-> Fuel, rules |-> rules, over |-> FALSE], S)
=============================================================================
