------------------------------ MODULE Backends ------------------------------
(***************************************************************************)
(* The three back ends held to one meaning.  A function is compiled either *)
(* to LLVM IR, which LlvmRun steps through, or to C or TypeScript, whose   *)
(* programs are run from start to end (HostLang), the C ones with     *)
(* operands evaluated in both orders.                                      *)
(***************************************************************************)
EXTENDS LlvmRun, CLower, TsLower

CONSTANTS
  HostPrograms,  \* functions of I32 parameters: [params, type, body]
  Claiming       \* which of the Defects below the properties claim are absent

VARIABLE host    \* the C or TypeScript program and what its function means
bvars == <<vars, host>>

Langs == {"c", "ts"}
\* whether the right operand is computed first
Orders(lang) == IF lang = "c" THEN BOOLEAN ELSE {FALSE}
Lowered(lang, p, names) ==
  IF lang = "c" THEN CLower(p.params, p.body, names) ELSE TsLower(p.params, p.body, names)
HostName(lang, x) == IF lang = "c" THEN CName(x) ELSE TsIdent(x)

\* what a program starts from: globals at 0, then its parameters
StartsWith(p, n) == [i \in DOMAIN Globals |-> <<Globals[i], 0>>] \o Given(p, n)
HostEnv(lang, env) == [i \in DOMAIN env |->
  <<HostName(lang, env[i][1]), IF lang = "c" THEN "int" ELSE "number",
    <<env[i][2], IF lang = "c" THEN "int" ELSE "double">>>>]

(***************************************************************************)
(* The programs the back ends are held to                                  *)
(***************************************************************************)
RECURSIVE Forms(_), BoundIn(_)
Forms(e) == {e} \cup UNION {Forms(f) : f \in Range(Subforms(e))}
BoundIn(e) ==
  (CASE e[1] \in {"let", "loop"} -> [b \in DOMAIN e[2] |-> e[2][b][1]]
     [] e[1] = "dotimes" -> <<e[2]>>
     [] e[1] = "match" -> <<e[3]>>
     [] OTHER -> <<>>)
  \o FlattenSeq(Each(BoundIn, Subforms(e)))
Heads(e) == {f[1] : f \in Forms(e)}

\* no name is bound twice (emit_let: no shadowing), before or after spelling
DistinctNames(lang, p) ==
  IsInjective(Each(LAMBDA x : HostName(lang, x), Globals \o Each(Head1, p.params) \o BoundIn(p.body)))
\* at most one operand has an effect: C leaves their order open
CalmOperands(e) ==
  \A f \in Forms(e) : f[1] \in Arithmetic \cup Comparison \cup {"call"} =>
    Cardinality({i \in DOMAIN Args(f) : Heads(Args(f)[i]) \cap {"call", "find", "set!"} # {}}) <= 1
\* a cond whose last test is else (emit_cond)
TotalConds(e) == \A f \in Forms(e) : f[1] = "cond" => f[Len(f) - 1] = <<"else">>

\* A loop variable given a matched value is a double; what its quotients have
\* after the point is not modelled.
WidenedQuotient(e) ==
  /\ Heads(e) \cap Trapping # {}
  /\ \E f \in Forms(e) : f[1] = "loop" /\ \E g \in Forms(f) \ {f} : g[1] \in {"match", "loop", "dotimes"}

Defects == {"let value", "clause loop", "made-up names"}
\* Made-up names that read alike are one name declared twice.  And emit.c:
\* a loop or match bound by a let inside another one that a let binds: two
\* counters make the same __let_val_ name.
LetValues(e) == UNION {{f[2][b][2] : b \in DOMAIN f[2]} : f \in {g \in Forms(e) : g[1] = "let"}}
NestedLetValue(e) ==
  \E v \in LetValues(e) : v[1] \in {"loop", "match"} /\ \E w \in LetValues(v) : w[1] \in {"loop", "match"}
\* A loop that is the value of a match that ends a loop does not end it.
LoopInClause(e) ==
  \E f \in Forms(e) : f[1] = "loop" /\ \E g \in Forms(f) :
    g[1] = "match" /\ \E i \in 4..5 : "loop" \in Heads(g[i])
ASSUME ClaimingAssumption == Claiming \subseteq Defects

Claimed(lang, p, names) ==
  /\ DistinctNames(lang, p)
  /\ names = NamesAlike => "made-up names" \in Claiming
  /\ lang = "c" =>
       /\ CalmOperands(p.body) /\ TotalConds(p.body)
       /\ NestedLetValue(p.body) => "let value" \in Claiming
       /\ LoopInClause(p.body) => "clause loop" \in Claiming
       /\ ~WidenedQuotient(p.body)

(***************************************************************************)
(* The specification                                                       *)
(***************************************************************************)
\* one program in one target language, and one input for it
InitHost ==
  /\ \E p \in HostPrograms, lang \in Langs, names \in {NamesApart, NamesAlike} :
       \E out \in {Lowered(lang, p, names)}, claimed \in {Claimed(lang, p, names)}, n \in Inputs :
         \E m \in {Meaning(p.body, StartsWith(p, n), Zeroes, TRUE)}, right \in Orders(lang) :
           host = [lang |-> lang, right |-> right, ok |-> out.ok, code |-> out.code, claimed |-> claimed,
                   env |-> HostEnv(lang, StartsWith(p, n)),
                   meaning |-> [out |-> m.out, over |-> m.s.over, v |-> m.v, log |-> m.s.log,
                                globals |-> [i \in DOMAIN Globals |-> m.s.env[i][2]]]]
  /\ state = "elsewhere" /\ pc = 1 /\ mem = Zeroes /\ expected = [out |-> "endless"]
  /\ code = <<>> /\ args = <<>> /\ regs = <<>> /\ slots = <<>> /\ log = <<>> /\ result = <<>>

BInit == (Init /\ host = [ok |-> FALSE]) \/ InitHost
BNext == Next /\ UNCHANGED host
BSpec == BInit /\ [][BNext]_bvars /\ WF_bvars(BNext)

\* what running the program shows
HostRun ==
  LET r == Execute(host.code, host.env, [right |-> host.right, ints |-> host.lang = "c"])
  IN [out |-> r.out, v |-> r.v, log |-> r.s.log, globals |-> [i \in DOMAIN Globals |-> r.s.env[i][3][1]]]

(***************************************************************************)
(* Properties                                                              *)
(***************************************************************************)
\* The C and the TypeScript program do what the function says: it returns
\* its value, leaves its globals, makes its calls in its order and ends when
\* it ends -- wherever a value had to travel through temporaries because a
\* loop, a match or a let is a statement there (emit_loop_core,
\* emit_match_core, emit_let; ts_stmt, finish_value).  Where the function
\* divides by zero or overflows the targets differ, and nothing is claimed.
HostSameEffects ==
  host.ok /\ host.claimed =>
    LET seen == HostRun
    IN /\ host.meaning.out = "value" /\ ~host.meaning.over =>
            /\ seen.out = "return" /\ seen.v[1] = host.meaning.v
            /\ seen.log = host.meaning.log /\ seen.globals = host.meaning.globals
       /\ seen.out = "endless" => host.meaning.out = "endless" \/ host.meaning.over

\* What the emitters write their targets' compilers accept: every name is
\* declared where it is used and once in its block, and jumps are in loops
\* (emit_let, emit_loop_tail, emit_match_clause_body, emit_bindings).
HostValid ==
  host.ok /\ host.claimed =>
    Valid(host.code, {host.env[i][1] : i \in Len(Globals) + 1..Len(host.env)},
          {host.env[i][1] : i \in DOMAIN Globals}, FALSE)
=============================================================================
