----------------------------- MODULE LlvmLower ------------------------------
(***************************************************************************)
(* The LLVM emitter (src/emit_llvm.c): a function body lowered to a list   *)
(* of instructions.  An expression yields a type and a reference (a        *)
(* constant, a parameter, a register); let and loop variables live in      *)
(* stack slots, which set! and recur store into; branches and loops are    *)
(* labelled blocks.  Types are i32, i1 and void (unit); "err" stands for   *)
(* every compile error.  Floats, strings and their conversions are left    *)
(* out, and a call is of one other function.                               *)
(***************************************************************************)
EXTENDS PrnMeaning

CONSTANT MaxLocals    \* LLVM_MAX_LOCALS

\* mangle_name
CharCode == [c \in {"-", "?", "!", "*"} |->
  CASE c = "-" -> <<"_">> [] c = "?" -> <<"_", "p">> [] c = "!" -> <<"_", "b", "a", "n", "g">>
    [] c = "*" -> <<"_", "s", "t", "a", "r">>]
Mangle(name) == FlattenSeq([i \in DOMAIN name |->
                  IF name[i] \in DOMAIN CharCode THEN CharCode[name[i]] ELSE <<name[i]>>])

(***************************************************************************)
(* Emission state: the code so far, the next register, label and slot, the *)
(* locals in scope and the innermost loop.                                 *)
(***************************************************************************)
NoLoop == [head |-> 0, exit |-> 0, vars |-> <<>>, slot |-> 0, type |-> "none"]
Start(params) ==
  [code |-> <<>>, reg |-> 0, label |-> 1, slot |-> 1, loop |-> NoLoop,
   locals |-> [i \in DOMAIN params |-> [name |-> Mangle(params[i][1]), type |-> params[i][2], slot |-> 0]]]

Const(v) == [k |-> "const", v |-> v]
Reg(n)   == [k |-> "reg", v |-> n]
Param(x) == [k |-> "param", v |-> x]
Val(st, type, ref) == [st |-> st, type |-> type, ref |-> ref]
Unit(st) == Val(st, "void", Const("unit"))
Bad(st)  == Val(st, "err", Const("unit"))
Typed(r, type) == IF r.type \in {type, "err"} THEN r ELSE Bad(r.st)

Emit(st, ins) == [st EXCEPT !.code = @ \o ins]
\* an instruction into a fresh register
Into(st, type, Ins(_)) ==
  Val([Emit(st, <<Ins(st.reg)>>) EXCEPT !.reg = @ + 1], type, Reg(st.reg))
Fresh(st, labels) == [st EXCEPT !.label = @ + labels]
FreshSlot(st) == [st EXCEPT !.slot = @ + 1]

Label(l)     == [i |-> "label", l |-> l]
Br(l)        == [i |-> "br", l |-> l]
Cbr(c, t, f) == [i |-> "cbr", c |-> c, t |-> t, f |-> f]
Store(v, s)  == [i |-> "store", v |-> v, s |-> s]
Load(r, s)   == [i |-> "load", r |-> r, s |-> s]
Op(r, f, a, b) == [i |-> "op", r |-> r, f |-> f, a |-> a, b |-> b]
Select(r, c, a, b) == [i |-> "select", r |-> r, c |-> c, a |-> a, b |-> b]
LoadMem(r, a) == [i |-> "loadmem", r |-> r, a |-> a]
StoreMem(a, v) == [i |-> "storemem", a |-> a, v |-> v]
Call(r, args) == [i |-> "call", r |-> r, args |-> args]
Ret(v) == [i |-> "ret", v |-> v]
Terminators == {"br", "cbr", "ret"}

RECURSIVE Hint(_), Speculable(_)
\* literal_hint
Hint(e) == IF e[1] = "num" THEN "i32"
           ELSE IF e[1] = "if" /\ Hint(e[3]) # "none" THEN Hint(e[3])
           ELSE IF e[1] = "if" /\ Len(e) = 4 THEN Hint(e[4]) ELSE "none"
SpeculableIfPure(e) ==
  \/ e[1] \in Atoms
  \/ /\ e[1] \in Arithmetic \cup Comparison \cup Connective \cup {"not", "if"}
     /\ \A i \in 2..Len(e) : Speculable(e[i])   \* a division counted as pure
\* expr_is_speculable: evaluating it for nothing cannot be noticed
Speculable(e) ==
  \/ e[1] \in Atoms
  \/ /\ e[1] \in (Arithmetic \cup Comparison \cup Connective \cup {"not", "if"}) \ Trapping
     /\ \A i \in 2..Len(e) : Speculable(e[i])

\* lookup_local: the newest binding of the mangled name
Symbol(st, x) ==
  LET at == {i \in DOMAIN st.locals : st.locals[i].name = Mangle(x)}
      local == st.locals[Max(at)]
  IN IF at = {} THEN Bad(st)
     ELSE IF local.slot = 0 THEN Val(st, local.type, Param(local.name))
     ELSE Into(st, local.type, LAMBDA r : Load(r, local.slot))

RECURSIVE Expr(_, _, _), Seqn(_, _, _), TailForm(_, _), TailSeq(_, _), Binds(_, _), Values(_, _, _)

\* emit_seq: the value is the last one's; a bare number before it is skipped
Seqn(st, es, hint) ==
  IF es = <<>> THEN Unit(st)
  ELSE IF Len(es) = 1 THEN Expr(st, es[1], IF hint = "none" THEN Hint(es[1]) ELSE hint)
  ELSE IF es[1][1] = "num" THEN Seqn(st, Tail(es), hint)
  ELSE With(Expr(st, es[1], Hint(es[1])), LAMBDA r : Seqn(r.st, Tail(es), hint))

\* bind_local, over a binding vector: each value into a slot of its own
Binds(st, binds) ==
  IF binds = <<>> THEN Unit(st)
  ELSE With(Expr(st, binds[1][2], Hint(binds[1][2])), LAMBDA r :
         IF r.type = "void" \/ Len(r.st.locals) >= MaxLocals THEN Bad(r.st)
         ELSE LET s == r.st.slot
              IN Binds([Emit(FreshSlot(r.st), <<Store(r.ref, s)>>) EXCEPT !.locals =
                          Append(@, [name |-> Mangle(binds[1][1]), type |-> r.type, slot |-> s])],
                       Tail(binds)))
Leave(st, outer) == [st EXCEPT !.locals = outer.locals]

\* operands of the types wanted, in order: ref is the sequence of them
Values(st, es, types) ==
  IF es = <<>> THEN Val(st, "all", <<>>)
  ELSE With(Typed(Expr(st, es[1], types[1]), types[1]), LAMBDA r :
         With(Values(r.st, Tail(es), Tail(types)), LAMBDA q : Val(q.st, "all", <<r.ref>> \o q.ref)))

\* emit_llvm_operand_pair: a bare number on the left takes the type of the
\* right operand, so that one goes first
OperandPair(st, e, hint) ==
  IF e[2][1] = "num" /\ e[3][1] # "num"
  THEN With(Expr(st, e[3], hint), LAMBDA r :
         With(Expr(r.st, e[2], r.type), LAMBDA q :
           IF q.type # r.type THEN Bad(q.st) ELSE Val(q.st, q.type, <<q.ref, r.ref>>)))
  ELSE With(Expr(st, e[2], hint), LAMBDA r :
         With(Expr(r.st, e[3], r.type), LAMBDA q :
           IF q.type # r.type THEN Bad(q.st) ELSE Val(q.st, q.type, <<r.ref, q.ref>>)))
Binary(st, e, type, hint) ==
  With(OperandPair(st, e, hint), LAMBDA r :
    Into(r.st, IF type = "same" THEN r.type ELSE type, LAMBDA n : Op(n, e[1], r.ref[1], r.ref[2])))

\* emit_let, emit_set
Let(st, e, hint) ==
  With(Binds(st, e[2]), LAMBDA r :
    With(Seqn(r.st, Statements(e), hint), LAMBDA q : [q EXCEPT !.st = Leave(@, st)]))
Set(st, e) ==
  LET at == {i \in DOMAIN st.locals : st.locals[i].name = Mangle(e[2])}
      local == st.locals[Max(at)]
  IN IF at = {} \/ local.slot = 0 THEN Bad(st)
     ELSE With(Typed(Expr(st, e[3], local.type), local.type), LAMBDA r :
            Unit(Emit(r.st, <<Store(r.ref, local.slot)>>)))

\* emit_cond
Condition(st, e) == Typed(Expr(st, e, "i1"), "i1")

\* emit_when
When(st, e) ==
  With(Condition(st, e[2]), LAMBDA c :
    LET yes == c.st.label
        end == yes + 1
    IN With(Seqn(Emit(Fresh(c.st, 2), <<Cbr(c.ref, yes, end), Label(yes)>>), Statements(e), "none"),
            LAMBDA r : Unit(Emit(r.st, <<Br(end), Label(end)>>))))

\* emit_llvm_expr, an if whose arms may both be computed
SelectIf(st, e, hint) ==
  With(Condition(st, e[2]), LAMBDA c :
    With(Expr(c.st, e[3], hint), LAMBDA t :
      With(Typed(Expr(t.st, e[4], t.type), t.type), LAMBDA f :
        Into(f.st, t.type, LAMBDA r : Select(r, c.ref, t.ref, f.ref)))))

\* emit_if_branch: the value goes through a slot when there is one
BranchIf(st, e, hint) ==
  With(Condition(st, e[2]), LAMBDA c :
    LET yes == c.st.label
        no == yes + 1
        end == yes + 2
        both == Len(e) = 4
        valued(r) == both /\ r.type # "void"
        kept(r, s) == IF valued(r) THEN <<Store(r.ref, s)>> ELSE <<>>
        then == Expr(Emit(Fresh(c.st, 3), <<Cbr(c.ref, yes, IF both THEN no ELSE end), Label(yes)>>),
                     e[3], IF both THEN hint ELSE "none")
    IN With(then, LAMBDA t :
         LET s == t.st.slot
             after == Emit(IF valued(t) THEN FreshSlot(t.st) ELSE t.st, kept(t, s) \o <<Br(end)>>)
             result(st1) == IF valued(t) THEN Into(st1, t.type, LAMBDA r : Load(r, s)) ELSE Unit(st1)
         IN IF ~both THEN result(Emit(after, <<Label(end)>>))
            ELSE With(Typed(Expr(Emit(after, <<Label(no)>>), e[4],
                                 IF t.type = "void" THEN "none" ELSE t.type), t.type), LAMBDA f :
                   result(Emit(f.st, kept([f EXCEPT !.type = t.type], s) \o <<Br(end), Label(end)>>)))))

(***************************************************************************)
(* Loops                                                                   *)
(***************************************************************************)
\* ... a loop without a value goes round again
ExitToHead(r) ==
  LET lp == r.st.loop
      s == IF lp.slot = 0 THEN r.st.slot ELSE lp.slot
      open == IF lp.slot = 0 /\ r.type # "void" THEN FreshSlot(r.st) ELSE r.st
  IN IF lp.type \notin {"none", r.type} THEN Bad(r.st)
     ELSE IF r.type = "void"
     THEN Unit(Emit([r.st EXCEPT !.loop.type = "void"], <<Br(lp.head)>>))
     ELSE Unit(Emit([open EXCEPT !.loop.slot = s, !.loop.type = r.type], <<Store(r.ref, s), Br(lp.exit)>>))

\* loop_exit: all exits yield a value of one type, or none does
Exit(r) ==
  LET lp == r.st.loop
      s == IF lp.slot = 0 THEN r.st.slot ELSE lp.slot
      open == IF lp.slot = 0 /\ r.type # "void" THEN FreshSlot(r.st) ELSE r.st
  IN IF lp.type \notin {"none", r.type} THEN Bad(r.st)
     ELSE IF r.type = "void"
     THEN Unit(Emit([r.st EXCEPT !.loop.type = "void"], <<Br(lp.exit)>>))
     ELSE Unit(Emit([open EXCEPT !.loop.slot = s, !.loop.type = r.type], <<Store(r.ref, s), Br(lp.exit)>>))

RecurFallsThrough(st, e) ==
  LET vars == st.loop.vars
  IN IF Len(e) - 1 # Len(vars) THEN Bad(st)
     ELSE With(Values(st, Args(e), [i \in DOMAIN vars |-> vars[i].type]), LAMBDA r :
            Unit(Emit(r.st, [i \in DOMAIN vars |-> Store(r.ref[i], vars[i].slot)])))
\* the recur of emit_tail: all new values first, then all stores
Recur(st, e) ==
  LET vars == st.loop.vars
  IN IF Len(e) - 1 # Len(vars) THEN Bad(st)
     ELSE With(Values(st, Args(e), [i \in DOMAIN vars |-> vars[i].type]), LAMBDA r :
            Unit(Emit(r.st, [i \in DOMAIN vars |-> Store(r.ref[i], vars[i].slot)] \o <<Br(st.loop.head)>>)))

\* emit_tail: a form the block ends with.  An if or a when splits it.
TailForm(st, e) ==
  LET split(c, yes) == Emit(Fresh(c.st, 2), <<Cbr(c.ref, yes, yes + 1), Label(yes)>>)
      otherwise(r, yes) == Emit(r.st, <<Label(yes + 1)>>)
  IN CASE e[1] = "recur" -> Recur(st, e)
       [] e[1] = "if" ->
            With(Condition(st, e[2]), LAMBDA c :
              With(TailForm(split(c, c.st.label), e[3]), LAMBDA t :
                IF Len(e) = 4 THEN TailForm(otherwise(t, c.st.label), e[4])
                ELSE Exit(Unit(otherwise(t, c.st.label)))))
       [] e[1] = "when" ->
            With(Condition(st, e[2]), LAMBDA c :
              With(TailSeq(split(c, c.st.label), Statements(e)), LAMBDA t :
                Exit(Unit(otherwise(t, c.st.label)))))
       [] e[1] = "do" -> TailSeq(st, Args(e))
       [] e[1] = "let" ->
            With(Binds(st, e[2]), LAMBDA r :
              With(TailSeq(r.st, Statements(e)), LAMBDA q : [q EXCEPT !.st = Leave(@, st)]))
       [] OTHER ->
            With(Expr(st, e, IF st.loop.slot # 0 THEN st.loop.type ELSE Hint(e)), Exit)

\* emit_tail_seq
TailSeq(st, es) ==
  IF es = <<>> THEN Exit(Unit(st))
  ELSE IF Len(es) = 1 THEN TailForm(st, es[1])
  ELSE IF es[1][1] = "num" THEN TailSeq(st, Tail(es))
  ELSE With(Expr(st, es[1], Hint(es[1])), LAMBDA r : TailSeq(r.st, Tail(es)))

\* emit_loop
Loop(st, e) ==
  With(Binds(st, e[2]), LAMBDA r :
    LET head == r.st.label
        vars == SubSeq(r.st.locals, Len(st.locals) + 1, Len(r.st.locals))
        inside == [Emit(Fresh(r.st, 2), <<Br(head), Label(head)>>) EXCEPT !.loop =
                     [head |-> head, exit |-> head + 1, vars |-> vars, slot |-> 0, type |-> "none"]]
    IN With(TailSeq(inside, Statements(e)), LAMBDA q :
         LET lp == q.st.loop
             out == Emit([Leave(q.st, st) EXCEPT !.loop = st.loop], <<Label(head + 1)>>)
         IN IF lp.slot = 0 THEN Unit(out) ELSE Into(out, lp.type, LAMBDA n : Load(n, lp.slot))))

(***************************************************************************)
(* emit_llvm_expr                                                          *)
(***************************************************************************)
Expr(st, e, hint) ==
  CASE e[1] = "num" -> IF hint = "i32" THEN Val(st, "i32", Const(Wrap(e[2]))) ELSE Bad(st)
    [] e[1] \in {"true", "false"} -> Val(st, "i1", Const(e[1] = "true"))
    [] e[1] = "unit" -> Unit(st)
    [] e[1] = "sym" -> Symbol(st, e[2])
    [] e[1] = "let" -> Let(st, e, hint)
    [] e[1] = "set!" -> Set(st, e)
    [] e[1] = "do" -> Seqn(st, Args(e), hint)
    [] e[1] = "when" -> When(st, e)
    [] e[1] = "loop" -> Loop(st, e)
    [] e[1] = "load32" ->
         With(Typed(Expr(st, e[2], "i32"), "i32"), LAMBDA a : Into(a.st, "i32", LAMBDA r : LoadMem(r, a.ref)))
    [] e[1] = "store32!" ->
         With(Values(st, Args(e), <<"i32", "i32">>), LAMBDA r :
           Unit(Emit(r.st, <<StoreMem(r.ref[1], r.ref[2])>>)))
    [] e[1] = "if" -> IF Len(e) = 4 /\ Speculable(e[3]) /\ Speculable(e[4])
                      THEN SelectIf(st, e, hint) ELSE BranchIf(st, e, hint)
    [] e[1] = "not" ->
         With(Condition(st, e[2]), LAMBDA a : Into(a.st, "i1", LAMBDA r : Op(r, "xor", a.ref, Const(TRUE))))
    [] e[1] \in Comparison /\ Len(e) = 3 -> Binary(st, e, "i1", "i32")
    [] e[1] = "-" /\ Len(e) = 2 ->
         With(Typed(Expr(st, e[2], hint), "i32"), LAMBDA a : Into(a.st, "i32", LAMBDA r : Op(r, "-", Const(0), a.ref)))
    [] e[1] \in Arithmetic /\ Len(e) = 3 -> Binary(st, e, "same", "i32")
    [] e[1] \in Connective /\ Len(e) = 3 ->
         With(Values(st, Args(e), <<"i1", "i1">>), LAMBDA v :
           Into(v.st, "i1", LAMBDA r : Op(r, e[1], v.ref[1], v.ref[2])))
    [] e[1] = "call" ->
         With(Values(st, Args(e), [i \in 1..Len(e) - 1 |-> "i32"]), LAMBDA v :
           Into(v.st, "i32", LAMBDA r : Call(r, v.ref)))
    [] OTHER -> Bad(st)   \* recur out of tail position, an unknown form

\* emit_llvm_defn: the body's type is the declared one
Lower(params, type, body, names) ==
  LET r == Typed(Expr(Start(params), Desugar(body, names, {}), type), type)
  IN [ok |-> r.type # "err", code |-> Emit(r.st, <<Ret(r.ref)>>).code]
=============================================================================
