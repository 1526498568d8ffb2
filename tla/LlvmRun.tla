------------------------------- MODULE LlvmRun ------------------------------
(***************************************************************************)
(* Emitted code running: one instruction at a time, next to what the       *)
(* function means (PrnMeaning).  The machine is LLVM's and is modelled     *)
(* from what the emitter relies on: a register keeps the value of the      *)
(* instruction that names it, a slot the last value stored, a block ends   *)
(* in a branch, a zero divisor and the one overflowing quotient trap.      *)
(***************************************************************************)
EXTENDS LlvmLower

CONSTANTS
  Programs,   \* functions: [params, type, body]
  Inputs,     \* what an i32 parameter may be
  Addresses   \* the memory words

VARIABLES
  code,      \* the instructions, and whether the program was accepted
  expected,  \* its meaning
  args,      \* the parameters' values, by their mangled names
  pc, regs, slots, mem, log,
  state,     \* "running", "returned", "trapped"; "rejected" by the compiler
  result
vars == <<state, pc, code, expected, args, regs, slots, mem, log, result>>

Zeroes == [a \in Addresses |-> 0]
\* every parameter is given the same input, a Bool whether it is positive
Given(p, n) == [i \in DOMAIN p.params |->
                  <<p.params[i][1], IF p.params[i][2] = "i1" THEN n > 0 ELSE n>>]

Init ==
  \E p \in Programs, names \in {NamesApart, NamesAlike} :
    \E ir \in {Lower(p.params, p.type, p.body, names)}, n \in Inputs :
      \E m \in {Meaning(p.body, Given(p, n), Zeroes, FALSE)} :
        /\ code = ir.code
        /\ expected = [out |-> m.out, v |-> m.v, log |-> m.s.log]
        /\ pc = 1 /\ mem = Zeroes /\ log = <<>> /\ result = <<>>
        /\ regs = <<>>
        /\ args = [x \in {Mangle(q[1]) : q \in Range(p.params)} |->
                     LET q == SelectSeq(Given(p, n), LAMBDA g : Mangle(g[1]) = x) IN Last(q)[2]]
        /\ slots = <<>>
        /\ state = IF ir.ok THEN "running" ELSE "rejected"

Ins == code[pc]
Holds(ref) == ref.k = "reg" => ref.v \in DOMAIN regs
Value(ref) == CASE ref.k = "const" -> ref.v [] ref.k = "param" -> args[ref.v] [] ref.k = "reg" -> regs[ref.v]
Write(r, v) == regs' = [x \in DOMAIN regs \cup {r} |-> IF x = r THEN v ELSE regs[x]]
At(l) == CHOOSE i \in DOMAIN code : code[i].i = "label" /\ code[i].l = l
Running(kinds) == state = "running" /\ Ins.i \in kinds
Goto(i) == pc' = i /\ UNCHANGED <<code, expected, args, state, result>>

Enter == Running({"label"}) /\ Goto(pc + 1) /\ UNCHANGED <<regs, slots, mem, log>>
Jump == Running({"br"}) /\ Goto(At(Ins.l)) /\ UNCHANGED <<regs, slots, mem, log>>
Branch ==
  /\ Running({"cbr"}) /\ Goto(At(IF Value(Ins.c) THEN Ins.t ELSE Ins.f))
  /\ UNCHANGED <<regs, slots, mem, log>>
StoreSlot ==
  /\ Running({"store"}) /\ Goto(pc + 1)
  /\ slots' = [s \in DOMAIN slots \cup {Ins.s} |-> IF s = Ins.s THEN Value(Ins.v) ELSE slots[s]]
  /\ UNCHANGED <<regs, mem, log>>
LoadSlot ==
  /\ Running({"load"}) /\ Goto(pc + 1) /\ Write(Ins.r, slots[Ins.s])
  /\ UNCHANGED <<slots, mem, log>>
Compute ==
  /\ Running({"op", "select"}) /\ Goto(pc + 1)
  /\ IF Ins.i = "select" THEN Write(Ins.r, IF Value(Ins.c) THEN Value(Ins.a) ELSE Value(Ins.b))
     ELSE /\ ~Traps(Ins.f, Value(Ins.a), Value(Ins.b))
          /\ Write(Ins.r, Operate(Ins.f, Value(Ins.a), Value(Ins.b)))
  /\ UNCHANGED <<slots, mem, log>>
Trap ==
  /\ Running({"op"}) /\ Traps(Ins.f, Value(Ins.a), Value(Ins.b))
  /\ state' = "trapped"
  /\ UNCHANGED <<code, expected, args, pc, regs, slots, mem, log, result>>
ReadMemory ==
  /\ Running({"loadmem"}) /\ Goto(pc + 1) /\ Write(Ins.r, mem[Value(Ins.a)])
  /\ UNCHANGED <<slots, mem, log>>
WriteMemory ==
  /\ Running({"storemem"}) /\ Goto(pc + 1)
  /\ mem' = [mem EXCEPT ![Value(Ins.a)] = Value(Ins.v)]
  /\ log' = Append(log, <<"store", Value(Ins.a), Value(Ins.v)>>)
  /\ UNCHANGED <<regs, slots>>
CallOther ==
  /\ Running({"call"}) /\ Goto(pc + 1)
  /\ LET passed == [i \in DOMAIN Ins.args |-> Value(Ins.args[i])]
     IN Write(Ins.r, Returned(passed)) /\ log' = Append(log, <<"call">> \o passed)
  /\ UNCHANGED <<slots, mem>>
Return ==
  /\ Running({"ret"}) /\ state' = "returned" /\ result' = <<Value(Ins.v)>>
  /\ UNCHANGED <<code, expected, args, pc, regs, slots, mem, log>>

Next == \/ Enter \/ Jump \/ Branch \/ StoreSlot \/ LoadSlot \/ Compute \/ Trap
        \/ ReadMemory \/ WriteMemory \/ CallOther \/ Return
Spec == Init /\ [][Next]_vars /\ WF_vars(Next)

(***************************************************************************)
(* Properties                                                              *)
(***************************************************************************)
\* The emitted code does what the function says: its stores and calls come
\* in the source's order with the source's values, it returns the source's
\* value, and it traps only where the source divides by zero -- whatever was
\* hoisted into a select, reordered for a literal's type or carried through
\* a slot (emit_llvm_expr, emit_if_branch, emit_tail, ast_sugar).
SameEffects ==
  /\ expected.out # "endless" => IsPrefix(log, expected.log)
  /\ state = "returned" => expected.out = "value" /\ log = expected.log /\ result = <<expected.v>>
  /\ state = "trapped" => expected.out = "trap" /\ log = expected.log

\* The code is code LLVM accepts: labels are distinct and every target is
\* one, blocks end in a terminator and only there, unnamed registers are
\* numbered in order; and no path reads a register or a slot that it has not
\* written.
Reads ==
  CASE Ins.i = "cbr" -> <<Ins.c>> [] Ins.i \in {"store", "ret"} -> <<Ins.v>>
    [] Ins.i = "op" -> <<Ins.a, Ins.b>> [] Ins.i = "select" -> <<Ins.c, Ins.a, Ins.b>>
    [] Ins.i = "loadmem" -> <<Ins.a>> [] Ins.i = "storemem" -> <<Ins.a, Ins.v>>
    [] Ins.i = "call" -> Ins.args [] OTHER -> <<>>
Labels == [i \in {j \in DOMAIN code : code[j].i = "label"} |-> code[i].l]
Uses(kind) == {i \in DOMAIN code : code[i].i = kind}
Targets == {code[i].l : i \in Uses("br")} \cup UNION {{code[i].t, code[i].f} : i \in Uses("cbr")}
Defined == SelectSeq(code, LAMBDA c : "r" \in DOMAIN c)
ValidIr ==
  state = "running" =>
    /\ \A i \in DOMAIN Reads : Holds(Reads[i])
    /\ Ins.i = "load" => Ins.s \in DOMAIN slots
    /\ pc = 1 =>
         /\ IsInjective(Labels) /\ Targets \subseteq Range(Labels)
         /\ \A i \in DOMAIN code : code[i].i \in Terminators
                                     <=> (i = Len(code) \/ code[i + 1].i = "label")
         /\ \A i \in DOMAIN Defined : Defined[i].r = i - 1

\* A function that ends in the source ends when compiled.
Terminates == (state = "running" /\ expected.out # "endless") ~> (state # "running")
=============================================================================
