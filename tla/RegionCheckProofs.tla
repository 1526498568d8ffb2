------------------------- MODULE RegionCheckProofs -------------------------
(* For programs that write every name as it was bound, use no name of a let *)
(* before its body or after its end, start no loop from an alloc and fit    *)
(* the analyzer's tables, what the region analyzer accepts does not escape; *)
(* if besides no clause or loop hides a name the analyzer knows, and no     *)
(* other form is taken for a call, its verdict on every call is what the    *)
(* emitted program does: for all names and any nesting.  For all programs   *)
(* the port agrees with it until a table is full.                           *)
EXTENDS RegionCheck, DataLemmas

(* The programs the theorems are about. *)
Straight == Spellings \subseteq {"plain"} /\ Liberties \subseteq {"hidden", "uncalled"}
Exact == Spellings \subseteq {"plain"} /\ Liberties = {}

(* The analyzer's types need neither. *)
WellFormed(stack) ==
    /\ stack \in Seq(Scope) /\ Len(stack) > 0
    /\ \A k \in 1..Len(stack) : stack[k].size <= MaxBindings
    /\ stack[1].open => Len(stack) = 1

ScopesInv == WellFormed(scopes)

TypeInv ==
    /\ ScopesInv
    /\ forms \in 0..MaxForms
    /\ verdict \in Verdicts /\ portVerdict \in Verdicts /\ truth \in Verdicts

-----------------------------------------------------------------------------
(* The innermost of some scopes is one of them, and so is the first of some
   sources. *)
LEMMA Extremes ==
  ASSUME NEW n \in Nat, NEW C \in SUBSET (1..n), C # {}
  PROVE  Max(C) \in C /\ Min(C) \in C /\ \A k \in C : k <= Max(C)
<1>1. C \in SUBSET (0..n) /\ C \in SUBSET Nat
  OBVIOUS
<1> QED
  BY <1>1, MinIsLeast, MaxIsGreatest

LEMMA StackTypes ==
  ASSUME NEW stack, WellFormed(stack), NEW k \in 1..Len(stack)
  PROVE  stack[k] \in Scope /\ DOMAIN stack = 1..Len(stack) /\ Len(stack) \in Nat
BY DEF WellFormed

LEMMA ScopeTypes ==
  ASSUME ScopesInv, NEW k \in 1..Len(scopes)
  PROVE  scopes[k] \in Scope /\ DOMAIN scopes = 1..Len(scopes) /\ Len(scopes) \in Nat
BY DEF ScopesInv, WellFormed

(* Every reading of a name is a region. *)
LEMMA LookupTypes ==
  ASSUME ScopesInv
  PROVE  Lookup \in [Symbol -> Regions]
<1>1. ASSUME NEW s \in Symbol PROVE Lookup[s] \in Regions
  <2> DEFINE B == {k \in Walked : scopes[k].bound[s] # "unbound"}
  <2>1. CASE B = {}
    BY <2>1 DEF Lookup, Regions
  <2>2. CASE B # {}
    <3>1. Len(scopes) \in Nat /\ B \in SUBSET (1..Len(scopes))
      BY DEF ScopesInv, WellFormed, Walked
    <3>2. Max(B) \in B
      BY <2>2, <3>1, Extremes
    <3>3. scopes[Max(B)] \in Scope
      BY <3>1, <3>2, ScopeTypes
    <3>4. scopes[Max(B)].bound[s] \in Regions
      BY <3>2, <3>3 DEF Scope
    <3> QED
      BY <2>2, <3>4 DEF Lookup
  <2> QED
    BY <2>1, <2>2
<1>2. Lookup = [s \in Symbol |-> Lookup[s]]
  BY DEF Lookup
<1> QED
  BY <1>1, <1>2

(* The innermost declaration of a name is one. *)
LEMMA Innermost ==
  ASSUME ScopesInv, NEW n \in Names, Declaring(n) # {}
  PROVE  /\ Max(Declaring(n)) \in 1..Len(scopes)
         /\ scopes[Max(Declaring(n))].local[n] \in Regions
         /\ \A k \in Declaring(n) : k <= Max(Declaring(n))
<1> DEFINE D == Declaring(n)
<1>1. Len(scopes) \in Nat /\ D \in SUBSET (1..Len(scopes))
  BY DEF ScopesInv, WellFormed, Declaring
<1>2. \A k \in D : scopes[k].local[n] # "unbound"
  BY DEF Declaring
<1> HIDE DEF D
<1>3. Max(D) \in D /\ \A k \in D : k <= Max(D)
  BY <1>1, Extremes DEF D
<1>4. scopes[Max(D)] \in Scope
  BY <1>1, <1>3, ScopeTypes
<1>5. scopes[Max(D)].local[n] \in Regions
  BY <1>2, <1>3, <1>4 DEF Scope
<1> QED
  BY <1>1, <1>3, <1>5 DEF D

LEMMA DenotesTypes ==
  ASSUME ScopesInv, NEW own
  PROVE  Denotes(own) \in [Symbol -> Regions]
<1>1. ASSUME NEW s \in Symbol PROVE Denotes(own)[s] \in Regions
  <2>1. s.name \in Names
    BY DEF Symbol
  <2>2. CASE Declaring(s.name) = {} \/ s.name \in own
    BY <2>2 DEF Denotes, Regions
  <2>3. CASE ~(Declaring(s.name) = {} \/ s.name \in own)
    BY <2>1, <2>3, Innermost DEF Denotes
  <2> QED
    BY <2>2, <2>3
<1>2. Denotes(own) = [s \in Symbol |-> Denotes(own)[s]]
  BY DEF Denotes
<1> QED
  BY <1>1, <1>2

(* Once the parameters are over there is a scope to look names up in. *)
LEMMA OuterTypes ==
  ASSUME ScopesInv, ~InParams
  PROVE  /\ Outer \in Scope
         /\ PortLookup \in [Symbol -> Regions]
<1>1. Len(scopes) \in Nat /\ Walked \in SUBSET (1..Len(scopes))
  BY DEF ScopesInv, WellFormed, Walked
<1>2. 1 \in Walked
  BY DEF ScopesInv, WellFormed, Walked, InParams, Depth, Top
<1>3. Max(Walked) \in Walked
  BY <1>1, <1>2, Extremes
<1>4. Outer \in Scope
  BY <1>1, <1>3, ScopeTypes DEF Outer
<1>5. \A s \in Symbol : Outer.flat[s] \in Regions \cup {"unbound"}
  BY <1>4 DEF Scope
<1> QED
  BY <1>4, <1>5 DEF PortLookup, Regions

(* What check_call_escape says is a verdict. *)
LEMMA EscapeTypes ==
  ASSUME NEW region \in [Symbol -> Regions], NEW dest \in Symbol,
         NEW n \in Nat, NEW sources \in [1..n -> Symbol]
  PROVE  Escape(dest, sources, region) \in Verdicts
<1> DEFINE bad == {i \in DOMAIN sources :
                     /\ Rank(region[sources[i]]) >= 0
                     /\ Rank(region[sources[i]]) < Rank(region[dest])}
<1>1. CASE bad = {}
  BY <1>1 DEF Escape, Accepted, Verdicts, Regions
<1>2. CASE bad # {}
  <2>1. bad \in SUBSET (1..n)
    OBVIOUS
  <2>2. Min(bad) \in bad
    BY <1>2, <2>1, Extremes
  <2>3. sources[Min(bad)] \in Symbol
    BY <2>1, <2>2
  <2>4. Escape(dest, sources, region) = [from |-> region[sources[Min(bad)]], to |-> region[dest]]
    BY <1>2 DEF Escape
  <2> QED
    BY <2>3, <2>4 DEF Verdicts
<1> QED
  BY <1>1, <1>2

(* scope_bind keeps a scope well formed and within its table. *)
LEMMA BindTypes ==
  ASSUME NEW scope \in Scope, scope.size <= MaxBindings, NEW s \in Symbol,
         NEW r \in Regions, NEW p \in Regions, NEW d \in Regions
  PROVE  /\ Bind(scope, s, r, p, d) \in Scope
         /\ Bind(scope, s, r, p, d).size <= MaxBindings
         /\ Bind(scope, s, r, p, d).open = scope.open
<1> DEFINE nb == IF Full(scope) THEN scope.bound ELSE [scope.bound EXCEPT ![s] = r]
           nz == IF Full(scope) THEN scope.size ELSE scope.size + 1
           nl == [scope.local EXCEPT ![s.name] = d]
           nf == [scope.flat EXCEPT ![s] = p]
<1>1. s.name \in Names /\ MaxBindings \in Nat
  BY RegionAssumption DEF Symbol
<1>2. /\ nb \in [Symbol -> Regions \cup {"unbound"}]
      /\ nl \in [Names -> Regions \cup {"unbound"}]
      /\ nf \in [Symbol -> Regions \cup {"unbound"}]
  BY <1>1 DEF Scope
<1>3. nz \in Nat /\ nz <= MaxBindings
  BY <1>1 DEF Full, Scope
<1>4. Bind(scope, s, r, p, d) =
        [scope EXCEPT !.bound = nb, !.size = nz, !.flat = nf, !.local = nl]
  BY DEF Bind
<1> HIDE DEF nb, nz, nl, nf
<1>5. Bind(scope, s, r, p, d) =
        [bound |-> nb, size |-> nz, flat |-> nf, open |-> scope.open,
         kind |-> scope.kind, local |-> nl, ended |-> scope.ended]
  BY <1>4 DEF Scope
<1> QED
  BY <1>2, <1>3, <1>5 DEF Scope

(* A fresh function scope is well formed, and so is what a form begins with:
   nothing bound yet, and the port's copy of what is visible outside. *)
Blank(scope) ==
    /\ scope \in Scope /\ scope.size <= MaxBindings /\ scope.ended = {}
    /\ \A s \in Symbol : scope.bound[s] = "unbound"

Locals == [Names -> Regions \cup {"unbound"}]

LEMMA NewTypes ==
  ASSUME NEW kind \in {"block", "let", "loop"}, NEW open \in BOOLEAN, NEW local \in Locals,
         NEW flat \in [Symbol -> Regions \cup {"unbound"}]
  PROVE  Blank(NewScope(kind, open, local, flat))
BY RegionAssumption DEF NewScope, Blank, Scope, Locals

LEMMA EmptyTypes ==
  /\ NoneDeclared \in Locals /\ \A n \in Names : NoneDeclared[n] = "unbound"
  /\ Blank(EmptyScope) /\ EmptyScope.open = TRUE /\ EmptyScope.local = NoneDeclared
<1>1. NoneDeclared \in Locals /\ \A n \in Names : NoneDeclared[n] = "unbound"
  BY DEF NoneDeclared, Locals
<1>2. [s \in Symbol |-> "unbound"] \in [Symbol -> Regions \cup {"unbound"}]
  OBVIOUS
<1>3. Blank(EmptyScope)
  BY <1>1, <1>2, NewTypes DEF EmptyScope
<1> QED
  BY <1>1, <1>3 DEF EmptyScope, NewScope

LEMMA ChildTypes ==
  ASSUME ScopesInv, ~InParams,
         NEW kind \in {"block", "let", "loop"}, NEW open \in BOOLEAN, NEW local \in Locals
  PROVE  LET new == ChildScope(kind, open, local)
         IN  /\ Blank(new) /\ new.flat = Outer.flat
             /\ new.open = open /\ new.kind = kind /\ new.local = local
<1>1. Outer.flat \in [Symbol -> Regions \cup {"unbound"}]
  BY OuterTypes DEF Scope
<1>2. Blank(ChildScope(kind, open, local))
  BY <1>1, NewTypes DEF ChildScope
<1> QED
  BY <1>2 DEF ChildScope, NewScope

LEMMA BlockTypes ==
  ASSUME ScopesInv, ~InParams
  PROVE  LET block == ChildScope("block", FALSE, NoneDeclared)
         IN  /\ Blank(block) /\ block.flat = Outer.flat
             /\ block.kind = "block" /\ block.local = NoneDeclared
<1>1. NoneDeclared \in Locals
  BY EmptyTypes
<1> QED
  BY <1>1, ChildTypes

(* Replacing the innermost scope and adding one. *)
LEMMA ReplaceTypes ==
  ASSUME NEW stack, WellFormed(stack), NEW n \in Nat, n = Len(stack),
         NEW new \in Scope, new.size <= MaxBindings, new.open => stack[n].open
  PROVE  WellFormed([stack EXCEPT ![n] = new])
<1> DEFINE after == [stack EXCEPT ![n] = new]
<1>1. n > 0 /\ stack \in Seq(Scope)
  BY DEF WellFormed
<1>2. /\ after \in Seq(Scope) /\ Len(after) = n
      /\ \A k \in 1..n : after[k] = IF k = n THEN new ELSE stack[k]
  BY <1>1
<1> HIDE DEF after
<1>3. \A k \in 1..n : after[k].size <= MaxBindings
  BY <1>2 DEF WellFormed
<1>4. after[1].open => n = 1
  BY <1>1, <1>2 DEF WellFormed
<1> QED
  BY <1>1, <1>2, <1>3, <1>4 DEF WellFormed, after

LEMMA PushTypes ==
  ASSUME NEW stack, WellFormed(stack), ~stack[1].open,
         NEW new \in Scope, new.size <= MaxBindings
  PROVE  /\ WellFormed(Append(stack, new)) /\ ~Append(stack, new)[1].open
         /\ Len(Append(stack, new)) = Len(stack) + 1
         /\ Append(stack, new)[Len(stack) + 1] = new
         /\ \A k \in 1..Len(stack) : Append(stack, new)[k] = stack[k]
<1> DEFINE after == Append(stack, new)
<1>1. Len(stack) \in Nat /\ Len(stack) > 0 /\ stack \in Seq(Scope)
  BY DEF WellFormed
<1>2. /\ after \in Seq(Scope) /\ Len(after) = Len(stack) + 1
      /\ \A k \in 1..Len(stack) : after[k] = stack[k]
      /\ after[Len(stack) + 1] = new
  BY <1>1
<1> HIDE DEF after
<1>3. WellFormed(after) /\ ~after[1].open
  BY <1>1, <1>2 DEF WellFormed
<1> QED
  BY <1>2, <1>3 DEF after

(* What is left of the stack when the innermost form is over. *)
Merged(outer, inner) ==
    [n \in Names |-> IF inner[n] = "unbound" THEN outer[n] ELSE inner[n]]

LEMMA MergeTypes ==
  ASSUME NEW scope \in Scope, NEW local, NEW over
  PROVE  [scope EXCEPT !.local = local, !.ended = over] =
           [bound |-> scope.bound, size |-> scope.size, flat |-> scope.flat,
            open |-> scope.open, kind |-> scope.kind, local |-> local, ended |-> over]
<1>1. scope = [bound |-> scope.bound, size |-> scope.size, flat |-> scope.flat,
               open |-> scope.open, kind |-> scope.kind, local |-> scope.local,
               ended |-> scope.ended]
  BY DEF Scope
<1> DEFINE mid == [scope EXCEPT !.local = local]
<1>2. mid = [bound |-> scope.bound, size |-> scope.size, flat |-> scope.flat,
             open |-> scope.open, kind |-> scope.kind, local |-> local,
             ended |-> scope.ended]
  BY <1>1
<1>3. [mid EXCEPT !.ended = over] =
        [bound |-> mid.bound, size |-> mid.size, flat |-> mid.flat,
         open |-> mid.open, kind |-> mid.kind, local |-> mid.local, ended |-> over]
  <2> HIDE DEF mid
  <2> QED
    BY <1>2
<1> QED
  BY <1>2, <1>3

LEMMA EndedTypes ==
  ASSUME ScopesInv, NEW n, n = Len(scopes) - 1, n > 0
  PROVE  /\ n \in Nat /\ WellFormed(Ended) /\ Len(Ended) = n /\ ~scopes[1].open
         /\ scopes[n] \in Scope /\ Top \in Scope /\ Top = scopes[n + 1] /\ Depth = n + 1
         /\ \A k \in 1..n - 1 : Ended[k] = scopes[k]
         /\ Ended[n] \in Scope /\ Ended[n].size <= MaxBindings
         /\ Ended[n].bound = scopes[n].bound /\ Ended[n].size = scopes[n].size
         /\ Ended[n].flat = scopes[n].flat /\ Ended[n].open = scopes[n].open
         /\ Ended[n].kind = scopes[n].kind
         /\ Top.kind = "block" => Ended[n] = scopes[n]
         /\ Top.kind # "block" =>
              /\ Ended[n].local = Merged(scopes[n].local, Top.local)
              /\ Ended[n].ended = scopes[n].ended \cup {m \in Names : Top.local[m] # "unbound"}
<1> DEFINE front == Front(scopes)
<1>1. /\ n \in Nat /\ n >= 1 /\ Len(scopes) = n + 1 /\ scopes \in Seq(Scope)
      /\ Depth = n + 1 /\ Top = scopes[n + 1] /\ ~scopes[1].open
  BY DEF ScopesInv, WellFormed, Depth, Top
<1>2. /\ front \in Seq(Scope) /\ Len(front) = n /\ \A k \in 1..n : front[k] = scopes[k]
  BY <1>1 DEF Front
<1>3. scopes[n] \in Scope /\ Top \in Scope
  BY <1>1
<1> DEFINE local == Merged(scopes[n].local, Top.local)
           over == scopes[n].ended \cup {m \in Names : Top.local[m] # "unbound"}
           last == IF Top.kind = "block" THEN scopes[n]
                   ELSE [scopes[n] EXCEPT !.local = local, !.ended = over]
<1>4. local \in Locals /\ over \in SUBSET Names
  BY <1>3 DEF Scope, Merged, Locals
<1>5. CASE Top.kind = "block"
  <2>1. Ended = front /\ front[n] = scopes[n]
    BY <1>1, <1>2, <1>5 DEF Ended
  <2>2. scopes[n].size <= MaxBindings
    BY <1>1 DEF ScopesInv, WellFormed
  <2>3. WellFormed(front)
    <3>1. \A k \in 1..n : front[k].size <= MaxBindings
      BY <1>1, <1>2 DEF ScopesInv, WellFormed
    <3> HIDE DEF front
    <3> QED
      BY <1>1, <1>2, <3>1 DEF WellFormed
  <2> HIDE DEF front
  <2> QED
    BY <1>1, <1>2, <1>3, <1>5, <2>1, <2>2, <2>3
<1>6. CASE Top.kind # "block"
  <2> DEFINE new == [scopes[n] EXCEPT !.local = local, !.ended = over]
  <2>1. Ended = [front EXCEPT ![n] = new]
    <3>1. n = Depth - 1
      BY <1>1
    <3>2. Ended = [front EXCEPT ![n].local = Merged(front[n].local, Top.local),
                                ![n].ended = front[n].ended \cup {m \in Names : Top.local[m] # "unbound"}]
      BY <1>6, <3>1 DEF Ended, Merged
    <3>3. front[n] = scopes[n]
      BY <1>1, <1>2
    <3> HIDE DEF front
    <3> QED
      BY <1>1, <1>2, <3>2, <3>3
  <2> HIDE DEF local, over
  <2>2. new = [bound |-> scopes[n].bound, size |-> scopes[n].size, flat |-> scopes[n].flat,
               open |-> scopes[n].open, kind |-> scopes[n].kind, local |-> local, ended |-> over]
    BY <1>3, MergeTypes
  <2> HIDE DEF new, local, over, front
  <2>3. new \in Scope
    BY <1>3, <1>4, <2>2 DEF Scope, Locals
  <2>4. /\ Ended \in Seq(Scope) /\ Len(Ended) = n
        /\ \A k \in 1..n : Ended[k] = IF k = n THEN new ELSE scopes[k]
    BY <1>1, <1>2, <2>1, <2>3
  <2>5. \A k \in 1..n : scopes[k].size <= MaxBindings
    BY <1>1 DEF ScopesInv, WellFormed
  <2>6. new.size = scopes[n].size /\ new.open = scopes[n].open
    BY <2>2
  <2>7. Ended[1].open = scopes[1].open
    <3>1. 1 \in 1..n /\ Ended[1] = IF 1 = n THEN new ELSE scopes[1]
      BY <1>1, <2>4
    <3> QED
      BY <2>6, <3>1
  <2>8. WellFormed(Ended)
    BY <1>1, <2>4, <2>5, <2>6, <2>7 DEF WellFormed
  <2> QED
    BY <1>1, <1>3, <1>6, <2>2, <2>3, <2>4, <2>5, <2>8 DEF local, over
<1> QED
  BY <1>5, <1>6

LEMMA LeaveTypes ==
  ASSUME ScopesInv, NEW s, Leave(s), NEW n, n = Len(scopes) - 1
  PROVE  /\ n > 0
         /\ Ended[n].open => MayBind(Ended, s)
         /\ scopes' = IF Ended[n].open
                      THEN [Ended EXCEPT ![n] = Bind(Ended[n], s, "none", "none", "none")]
                      ELSE Ended
<1>1. n > 0 /\ Depth - 1 = n
  BY DEF Leave, Depth, ScopesInv, WellFormed
<1>2. Len(Ended) = n /\ Ended \in Seq(Scope) /\ n \in Nat
  BY <1>1, EndedTypes DEF WellFormed
<1>3. Last(Ended) = Ended[n]
  BY <1>1, <1>2 DEF Last
<1> QED
  BY <1>1, <1>2, <1>3 DEF Leave

(* Judging a call only touches the three verdicts. *)
LEMMA SourceTypes ==
  ASSUME NEW q \in Sources
  PROVE  \E n \in Nat : q \in [1..n -> Symbol]
<1>1. PICK n \in 0..2 : q \in [1..n -> Usable]
  BY DEF Sources
<1>2. \A s \in Usable : s \in Symbol
  BY DEF Usable
<1>3. q \in [1..n -> Symbol] /\ n \in Nat
  BY <1>1, <1>2
<1> QED
  BY <1>3

LEMMA JudgeTypes ==
  ASSUME ScopesInv, ~InParams, NEW d \in Usable, NEW q \in Sources, NEW own, Judge(d, q, own)
  PROVE  verdict' \in Verdicts /\ portVerdict' \in Verdicts /\ truth' \in Verdicts
<1>1. /\ Lookup \in [Symbol -> Regions] /\ Denotes(own) \in [Symbol -> Regions]
      /\ PortLookup \in [Symbol -> Regions]
  BY LookupTypes, DenotesTypes, OuterTypes
<1>2. PICK n \in Nat : q \in [1..n -> Symbol]
  BY SourceTypes
<1>3. d \in Symbol
  BY DEF Usable
<1> QED
  BY <1>1, <1>2, <1>3, EscapeTypes DEF Judge

LEMMA MisreadTypes ==
  ASSUME ScopesInv, ~InParams, NEW d \in Symbol, NEW n \in Nat, NEW q \in [1..n -> Symbol],
         Misread(d, q)
  PROVE  verdict' \in Verdicts /\ portVerdict' \in Verdicts /\ truth' = Accepted
<1>1. /\ Lookup \in [Symbol -> Regions] /\ PortLookup \in [Symbol -> Regions]
  BY LookupTypes, OuterTypes
<1> QED
  BY <1>1, EscapeTypes DEF Misread

(* What a pattern's walk as a call is made of, and what the clause declares. *)
PatternLocals(p) ==
    [n \in Names |-> IF \E i \in DOMAIN p : p[i].name = n THEN "none" ELSE "unbound"]

LEMMA PatternTypes ==
  ASSUME NEW p \in Patterns
  PROVE  /\ PatternLocals(p) \in Locals
         /\ p # <<>> => /\ Head(p) \in Symbol
                        /\ \E n \in Nat : Tail(p) \in [1..n -> Symbol]
<1>1. PICK m \in 0..2 : p \in [1..m -> Bindable]
  BY DEF Patterns
<1>2. p \in Seq(Symbol) /\ Len(p) = m
  BY <1>1 DEF Bindable
<1>3. PatternLocals(p) \in Locals
  BY DEF PatternLocals, Locals, Regions
<1>4. ASSUME p # <<>> PROVE Head(p) \in Symbol /\ \E n \in Nat : Tail(p) \in [1..n -> Symbol]
  <2>1. Head(p) \in Symbol /\ Tail(p) \in Seq(Symbol)
    BY <1>2, <1>4
  <2> DEFINE rest == Tail(p)
  <2>2. rest \in Seq(Symbol)
    BY <2>1
  <2> HIDE DEF rest
  <2>3. Len(rest) \in Nat /\ rest \in [1..Len(rest) -> Symbol]
    BY <2>2
  <2> QED
    BY <2>1, <2>3 DEF rest
<1> QED
  BY <1>3, <1>4

(* The variable of a loop, and the two scopes the loop adds. *)
VariableLocals(s, real) ==
    [n \in Names |-> IF n = s.name THEN real ELSE "unbound"]

LEMMA LoopTypes ==
  ASSUME ScopesInv, NEW s \in Bindable, NEW d \in Usable, NEW q, NEW alloc \in BOOLEAN,
         Loop(s, d, q, alloc)
  PROVE  /\ ~InParams /\ s \in Symbol /\ d \in Symbol
         /\ \E real \in Regions :
              /\ real # "none" => Orderly("carried", FALSE)
              /\ VariableLocals(s, real) \in Locals
              /\ scopes' = Append(Append(scopes, ChildScope("loop", FALSE, VariableLocals(s, real))),
                                  ChildScope("block", FALSE, NoneDeclared))
<1>1. ~InParams /\ s \in Symbol /\ d \in Symbol
  BY DEF Loop, Bindable, Usable
<1> DEFINE real == IF alloc THEN Denotes({s.name})[d] ELSE "none"
<1>2. real \in Regions /\ (real # "none" => Orderly("carried", FALSE))
  BY <1>1, DenotesTypes DEF Loop, Regions
<1>3. scopes' = scopes \o <<ChildScope("loop", FALSE, VariableLocals(s, real)),
                            ChildScope("block", FALSE, NoneDeclared)>>
  BY DEF Loop, VariableLocals
<1> HIDE DEF real
<1>4. VariableLocals(s, real) \in Locals
  BY <1>2 DEF VariableLocals, Locals
<1>5. \A a, b : scopes \o <<a, b>> = Append(Append(scopes, a), b)
  BY DEF ScopesInv, WellFormed
<1> QED
  BY <1>1, <1>2, <1>3, <1>4, <1>5

LEMMA TopBindTypes ==
  ASSUME ScopesInv, NEW s \in Symbol, NEW r \in Regions, NEW p \in Regions, NEW x \in Regions,
         scopes' = [scopes EXCEPT ![Depth] = Bind(Top, s, r, p, x)]
  PROVE  ScopesInv'
<1> DEFINE b == Bind(Top, s, r, p, x)
<1>1. /\ Top \in Scope /\ Top.size <= MaxBindings /\ Top = scopes[Depth]
      /\ Depth \in Nat /\ Depth = Len(scopes)
  BY DEF ScopesInv, WellFormed, Depth, Top
<1>2. b \in Scope /\ b.size <= MaxBindings /\ b.open = Top.open
  BY <1>1, BindTypes
<1> HIDE DEF b
<1>3. scopes' = [scopes EXCEPT ![Depth] = b]
  BY DEF b
<1>4. WellFormed([scopes EXCEPT ![Depth] = b])
  BY <1>1, <1>2, ReplaceTypes DEF ScopesInv
<1> QED
  BY <1>3, <1>4 DEF ScopesInv

-----------------------------------------------------------------------------
LEMMA InitTypes == Init => TypeInv
<1> SUFFICES ASSUME Init PROVE TypeInv
  OBVIOUS
<1>1. EmptyScope \in Scope /\ EmptyScope.size <= MaxBindings
  BY EmptyTypes DEF Blank
<1>2. Accepted \in Verdicts
  BY DEF Accepted, Verdicts, Regions
<1>3. ScopesInv
  BY <1>1 DEF Init, ScopesInv, WellFormed
<1> QED
  BY <1>2, <1>3, RegionAssumption DEF Init, TypeInv

LEMMA NextTypes == TypeInv /\ [Next]_vars => TypeInv'
<1> SUFFICES ASSUME TypeInv, [Next]_vars PROVE TypeInv'
  OBVIOUS
<1> USE DEF TypeInv
<1>0. /\ Top \in Scope /\ Top.size <= MaxBindings /\ Top = scopes[Depth]
      /\ Len(scopes) \in Nat /\ Len(scopes) > 0 /\ Depth = Len(scopes)
      /\ WellFormed(scopes) /\ scopes \in Seq(Scope) /\ "none" \in Regions
      /\ (~InParams => ~scopes[1].open)
  BY DEF ScopesInv, WellFormed, Depth, Top, InParams, Regions
<1>1. ASSUME NEW s \in Bindable, NEW r \in Regions, Param(s, r) PROVE TypeInv'
  <2>1. scopes' = [scopes EXCEPT ![Depth] = Bind(Top, s, r, r, r)]
    BY <1>0, <1>1 DEF Param, InParams
  <2>2. ScopesInv'
    BY <1>0, <2>1, TopBindTypes DEF Bindable
  <2> QED
    BY <1>1, <2>2, RegionAssumption DEF Param, Walk
<1>2. ASSUME NEW s \in Bindable, NEW r \in Regions, WithArena(s, r) PROVE TypeInv'
  <2> DEFINE arena == ChildScope("block", FALSE, NoneDeclared)
             b == Bind(arena, s, r, r, r)
  <2>1. s \in Symbol /\ ~InParams
    BY <1>2 DEF Bindable, WithArena, InBody, InParams
  <2>2. arena \in Scope /\ arena.size <= MaxBindings
    BY <2>1, ChildTypes, EmptyTypes DEF Blank
  <2>3. scopes' = Append(scopes, b)
    BY <1>2 DEF WithArena
  <2> HIDE DEF arena
  <2>4. b \in Scope /\ b.size <= MaxBindings
    BY <2>1, <2>2, BindTypes
  <2> HIDE DEF b
  <2>5. ScopesInv'
    BY <1>0, <2>1, <2>3, <2>4, PushTypes DEF ScopesInv
  <2> QED
    BY <1>2, <2>5, RegionAssumption DEF WithArena, Walk
<1>3. CASE Body
  <2> DEFINE b == [Top EXCEPT !.open = FALSE]
  <2>1. scopes' = [scopes EXCEPT ![Depth] = b]
    BY <1>0, <1>3 DEF Body
  <2>2. b \in Scope /\ b.size <= MaxBindings /\ b.open = FALSE
    BY <1>0 DEF Scope
  <2> HIDE DEF b
  <2>3. ScopesInv'
    BY <1>0, <2>1, <2>2, ReplaceTypes DEF ScopesInv
  <2> QED
    BY <1>3, <2>3 DEF Body
<1>4. CASE Let
  <2> DEFINE let == ChildScope("let", TRUE, NoneDeclared)
  <2>1. ~InParams /\ scopes' = Append(scopes, let)
    BY <1>4 DEF Let, InBody, InParams
  <2>2. let \in Scope /\ let.size <= MaxBindings
    BY <2>1, ChildTypes, EmptyTypes DEF Blank
  <2> HIDE DEF let
  <2>3. ScopesInv'
    BY <1>0, <2>1, <2>2, PushTypes DEF ScopesInv
  <2> QED
    BY <1>4, <2>3, RegionAssumption DEF Let, Walk
<1>5. CASE NextDefn
  <2>1. scopes' = <<EmptyScope>>
    BY <1>5 DEF NextDefn, BaseScope
  <2>2. ScopesInv'
    BY <2>1, EmptyTypes DEF ScopesInv, WellFormed, Blank
  <2> QED
    BY <1>5, <2>2, RegionAssumption DEF NextDefn
<1>6. ASSUME NEW s \in Bindable, Leave(s) PROVE TypeInv'
  <2> DEFINE n == Len(scopes) - 1
             b == Bind(Ended[n], s, "none", "none", "none")
  <2>1. n > 0 /\ s \in Symbol
    BY <1>6, LeaveTypes DEF Bindable
  <2>2. n \in Nat /\ WellFormed(Ended) /\ Len(Ended) = n
        /\ Ended[n] \in Scope /\ Ended[n].size <= MaxBindings
    BY <2>1, EndedTypes
  <2>3. scopes' = IF Ended[n].open THEN [Ended EXCEPT ![n] = b] ELSE Ended
    BY <1>6, LeaveTypes
  <2>4. b \in Scope /\ b.size <= MaxBindings /\ b.open = Ended[n].open
    BY <1>0, <2>1, <2>2, BindTypes
  <2> HIDE DEF n, b
  <2>5. ScopesInv'
    BY <2>2, <2>3, <2>4, ReplaceTypes DEF ScopesInv
  <2> QED
    BY <1>6, <2>5 DEF Leave
<1>7. ASSUME NEW d \in Usable, NEW q \in Sources, Call(d, q) PROVE TypeInv'
  <2>1. ~InParams /\ Judge(d, q, {}) /\ scopes' = scopes
    BY <1>7 DEF Call, InBody, InParams
  <2>2. verdict' \in Verdicts /\ portVerdict' \in Verdicts /\ truth' \in Verdicts
    BY <2>1, JudgeTypes
  <2> QED
    BY <1>0, <1>7, <2>1, <2>2, RegionAssumption DEF Call, Walk, ScopesInv
<1>8. ASSUME NEW d \in Usable, NEW q \in Sources, NoCall(d, q) PROVE TypeInv'
  <2>1. ~InParams /\ Misread(d, q) /\ scopes' = scopes /\ d \in Symbol
    BY <1>8 DEF NoCall, InBody, InParams, Usable
  <2>2. PICK n \in Nat : q \in [1..n -> Symbol]
    BY SourceTypes
  <2>3. verdict' \in Verdicts /\ portVerdict' \in Verdicts /\ truth' \in Verdicts
    BY <2>1, <2>2, MisreadTypes DEF Accepted, Verdicts, Regions
  <2> QED
    BY <1>0, <1>8, <2>1, <2>3, RegionAssumption DEF NoCall, Walk, ScopesInv
<1>9. ASSUME NEW p \in Patterns, Clause(p) PROVE TypeInv'
  <2> DEFINE clause == ChildScope("block", FALSE, PatternLocals(p))
  <2>1. ~InParams /\ scopes' = Append(scopes, clause)
    BY <1>9 DEF Clause, PatternLocals
  <2>2. clause \in Scope /\ clause.size <= MaxBindings
    BY <2>1, ChildTypes, PatternTypes DEF Blank
  <2> HIDE DEF clause
  <2>3. ScopesInv'
    BY <1>0, <2>1, <2>2, PushTypes DEF ScopesInv
  <2>4. verdict' \in Verdicts /\ portVerdict' \in Verdicts /\ truth' \in Verdicts
    <3>1. CASE p = <<>>
      BY <1>9, <3>1 DEF Clause
    <3>2. CASE p # <<>>
      <4> DEFINE dest == Head(p)
                 rest == Tail(p)
      <4>1. Misread(dest, rest) /\ dest \in Symbol
        BY <1>9, <3>2, PatternTypes DEF Clause
      <4>2. PICK n \in Nat : rest \in [1..n -> Symbol]
        BY <3>2, PatternTypes
      <4> HIDE DEF dest, rest
      <4>3. verdict' \in Verdicts /\ portVerdict' \in Verdicts /\ truth' = Accepted
        BY <2>1, <4>1, <4>2, MisreadTypes
      <4> QED
        BY <4>3 DEF Accepted, Verdicts, Regions
    <3> QED
      BY <3>1, <3>2
  <2> QED
    BY <1>9, <2>3, <2>4, RegionAssumption DEF Clause, Walk
<1>10. ASSUME NEW s \in Bindable, NEW d \in Usable, NEW q \in Sources, NEW alloc \in BOOLEAN,
              Loop(s, d, q, alloc)
       PROVE  TypeInv'
  <2>1. ~InParams /\ Judge(d, q, {s.name})
    BY <1>10 DEF Loop
  <2>2. PICK real \in Regions :
          /\ VariableLocals(s, real) \in Locals
          /\ scopes' = Append(Append(scopes, ChildScope("loop", FALSE, VariableLocals(s, real))),
                              ChildScope("block", FALSE, NoneDeclared))
    BY <1>10, LoopTypes
  <2> DEFINE loop == ChildScope("loop", FALSE, VariableLocals(s, real))
             block == ChildScope("block", FALSE, NoneDeclared)
             outer == Append(scopes, loop)
  <2>3. /\ loop \in Scope /\ loop.size <= MaxBindings
        /\ block \in Scope /\ block.size <= MaxBindings
    BY <2>1, <2>2, ChildTypes, EmptyTypes DEF Blank
  <2>4. scopes' = Append(outer, block)
    BY <2>2
  <2> HIDE DEF loop, block
  <2>5. WellFormed(outer) /\ ~outer[1].open
    BY <1>0, <2>1, <2>3, PushTypes
  <2> HIDE DEF outer
  <2>6. ScopesInv'
    BY <2>3, <2>4, <2>5, PushTypes DEF ScopesInv
  <2>7. verdict' \in Verdicts /\ portVerdict' \in Verdicts /\ truth' \in Verdicts
    BY <2>1, JudgeTypes
  <2> QED
    BY <1>10, <2>6, <2>7, RegionAssumption DEF Loop, Walk
<1>11. ASSUME NEW s \in Bindable, NEW d \in Usable, NEW q \in Sources,
              BindCall(s, d, q) \/ BindAlloc(s, d, q)
       PROVE  TypeInv'
  <2>1. ~InParams /\ Judge(d, q, {s.name}) /\ s \in Symbol /\ d \in Symbol
    BY <1>11 DEF BindCall, BindAlloc, InBindings, InParams, Bindable, Usable
  <2>2. verdict' \in Verdicts /\ portVerdict' \in Verdicts /\ truth' \in Verdicts
    BY <2>1, JudgeTypes
  <2>3. Lookup[d] \in Regions /\ PortLookup[d] \in Regions /\ Denotes({s.name})[d] \in Regions
    BY <2>1, LookupTypes, DenotesTypes, OuterTypes
  <2>4. PICK r \in Regions, p \in Regions, x \in Regions :
          \/ scopes' = scopes
          \/ scopes' = [scopes EXCEPT ![Depth] = Bind(Top, s, r, p, x)]
    <3>1. ASSUME NEW r \in Regions, NEW p \in Regions, NEW x \in Regions
          PROVE  [scopes EXCEPT ![Depth] = Bind(@, s, r, p, x)] =
                 [scopes EXCEPT ![Depth] = Bind(Top, s, r, p, x)]
      BY <1>0
    <3>2. \/ scopes' = scopes
          \/ scopes' = [scopes EXCEPT ![Depth] = Bind(Top, s, "none", "none", "none")]
          \/ scopes' = [scopes EXCEPT ![Depth] =
                           Bind(Top, s, Lookup[d], PortLookup[d], Denotes({s.name})[d])]
      BY <1>0, <1>11, <2>3, <3>1 DEF BindCall, BindAlloc
    <3> QED
      BY <1>0, <2>3, <3>2
  <2>5. CASE scopes' = scopes
    BY <1>0, <1>11, <2>2, <2>5, RegionAssumption DEF BindCall, BindAlloc, Walk, ScopesInv
  <2>6. CASE scopes' = [scopes EXCEPT ![Depth] = Bind(Top, s, r, p, x)]
    <3>1. ScopesInv'
      BY <1>0, <2>1, <2>4, <2>6, TopBindTypes
    <3> QED
      BY <1>11, <2>2, <3>1, RegionAssumption DEF BindCall, BindAlloc, Walk
  <2> QED
    BY <2>4, <2>5, <2>6
<1>12. CASE UNCHANGED vars
  BY <1>0, <1>12 DEF vars, ScopesInv
<1> QED
  BY <1>1, <1>2, <1>3, <1>4, <1>5, <1>6, <1>7, <1>8, <1>9, <1>10, <1>11, <1>12 DEF Next

LEMMA TypeInvariance == Spec => []TypeInv
BY InitTypes, NextTypes, PTL DEF Spec

(* scope_bind, region_rank_for and fmt_error stay within their tables and
   names for every program. *)
THEOREM TypeCorrect == Spec => []TypeOK
<1>1. TypeInv => TypeOK
  BY DEF TypeInv, ScopesInv, WellFormed, TypeOK, Depth
<1> QED
  BY <1>1, TypeInvariance, PTL

-----------------------------------------------------------------------------
(* The argument for soundness.  A name that is still in scope is either bound
   in the analyzer's table of the same form, to the region of its value or to
   one the program's value has not, or it is a pattern's or a loop's, whose
   value has no region.  No C name is declared twice in one block, so a let's
   end never hides a name of the forms around it; and when nothing is hidden
   from the analyzer, a pattern's name has no binding further out. *)
Clear(scope, n) == scope.local[n] # "unbound" /\ n \notin scope.ended

LevelAgrees(scope) ==
    /\ \A n \in scope.ended : scope.local[n] # "unbound"
    /\ \A s \in Symbol :
         /\ scope.bound[s] # "unbound" => Clear(scope, s.name)
         /\ Clear(scope, s.name) => scope.local[s.name] \in {"none", scope.bound[s]}
         /\ Liberties = {} /\ scope.bound[s] # "unbound" => scope.local[s.name] = scope.bound[s]

SameBlock(stack, j, k) == \A i \in j + 1..k : stack[i].kind # "block"

Apart(stack) ==
    \A k \in 1..Len(stack) : \A j \in 1..k - 1 :
      SameBlock(stack, j, k) =>
        \A n \in Names : stack[j].local[n] = "unbound" \/ stack[k].local[n] = "unbound"

Unhidden(stack) ==
    Liberties = {} =>
      \A k \in 1..Len(stack) : \A j \in 1..k - 1 : \A s \in Symbol :
        ~stack[j].open /\ Clear(stack[k], s.name) /\ stack[k].bound[s] = "unbound"
        => stack[j].bound[s] = "unbound"

Aligned(stack) ==
    /\ \A k \in 1..Len(stack) : LevelAgrees(stack[k])
    /\ Apart(stack) /\ Unhidden(stack)

Judged ==
    /\ truth # Accepted => verdict # Accepted
    /\ Liberties = {} => truth = verdict

AgreeInv == Aligned(scopes) /\ Judged

(* One region in the analyzer's table and another in the program. *)
Faithful(r, x) == x \in {"none", r} /\ (Liberties = {} => x = r)

-----------------------------------------------------------------------------
(* A name is written in one way only. *)
LEMMA OneSpelling ==
  ASSUME Straight, NEW s \in Symbol, NEW u \in Symbol, s.name = u.name
  PROVE  s = u
<1>1. s.as = "plain" /\ u.as = "plain"
  BY DEF Straight, Symbol
<1>2. s = [name |-> s.name, as |-> s.as] /\ u = [name |-> u.name, as |-> u.as]
  BY DEF Symbol
<1> QED
  BY <1>1, <1>2

(* The analyzer and the program read a name that may be used alike. *)
LEMMA ReadingsAgree ==
  ASSUME Straight, ScopesInv, Aligned(scopes), NEW s \in Usable
  PROVE  Faithful(Lookup[s], Denotes({})[s])
<1> DEFINE B == {k \in Walked : scopes[k].bound[s] # "unbound"}
           D == Declaring(s.name)
           m == Max(D)
<1>1. /\ s \in Symbol /\ s.name \in Names /\ Len(scopes) \in Nat
      /\ DOMAIN scopes = 1..Len(scopes)
  BY DEF Usable, Symbol, ScopesInv, WellFormed
<1>2. B \in SUBSET D
  <2>1. ASSUME NEW k \in B PROVE k \in D
    <3>1. k \in 1..Len(scopes) /\ scopes[k].bound[s] # "unbound"
      BY <1>1 DEF Walked
    <3>2. scopes[k].local[s.name] # "unbound"
      BY <1>1, <3>1 DEF Aligned, LevelAgrees, Clear
    <3> QED
      BY <1>1, <3>1, <3>2 DEF Declaring
  <2> QED
    BY <2>1
<1>3. B \in SUBSET (1..Len(scopes)) /\ B \in SUBSET Walked
  BY <1>1 DEF Walked
<1>4. /\ Lookup[s] = IF B = {} THEN "none" ELSE scopes[Max(B)].bound[s]
      /\ Denotes({})[s] = IF D = {} THEN "none" ELSE scopes[m].local[s.name]
  BY <1>1 DEF Lookup, Denotes
<1>5. CASE D = {}
  BY <1>2, <1>4, <1>5 DEF Faithful
<1>6. CASE D # {}
  <2>1. /\ m \in 1..Len(scopes) /\ \A k \in D : k <= m
        /\ scopes[m].local[s.name] # "unbound"
    BY <1>1, <1>6, Innermost DEF Regions
  <2>2. s.name \notin scopes[m].ended /\ ~scopes[m].open
    BY <1>6 DEF Usable, Orderly, Straight
  <2>3. m \in Walked /\ Clear(scopes[m], s.name) /\ LevelAgrees(scopes[m])
    BY <1>1, <2>1, <2>2 DEF Walked, Clear, Aligned
  <2> HIDE DEF m, D
  <2>4. CASE scopes[m].bound[s] # "unbound"
    <3>1. m \in B
      BY <2>3, <2>4
    <3>2. Max(B) = m
      <4> HIDE DEF B
      <4>1. Max(B) \in B /\ \A k \in B : k <= Max(B)
        BY <1>1, <1>3, <3>1, Extremes
      <4>2. m <= Max(B) /\ Max(B) <= m /\ Max(B) \in 1..Len(scopes)
        BY <1>2, <1>3, <2>1, <3>1, <4>1
      <4> QED
        BY <2>1, <4>2
    <3>3. Lookup[s] = scopes[m].bound[s] /\ Denotes({})[s] = scopes[m].local[s.name]
      BY <1>4, <1>6, <3>1, <3>2
    <3> QED
      BY <1>1, <2>3, <2>4, <3>3 DEF LevelAgrees, Faithful
  <2>5. CASE scopes[m].bound[s] = "unbound"
    <3>1. Denotes({})[s] = "none"
      BY <1>1, <1>4, <1>6, <2>1, <2>3, <2>5 DEF LevelAgrees
    <3>2. ASSUME Liberties = {} PROVE B = {}
      <4>1. ASSUME NEW k \in B PROVE FALSE
        <5>1. k \in 1..m - 1 /\ ~scopes[k].open /\ scopes[k].bound[s] # "unbound"
          <6>1. k \in 1..Len(scopes) /\ k <= m /\ scopes[k].bound[s] # "unbound" /\ ~scopes[k].open
            BY <1>1, <1>2, <2>1 DEF Walked
          <6>2. k # m
            BY <2>5, <6>1
          <6> QED
            BY <2>1, <6>1, <6>2
        <5> QED
          BY <1>1, <2>1, <2>3, <2>5, <3>2, <5>1 DEF Aligned, Unhidden
      <4> QED
        BY <4>1
    <3> HIDE DEF B
    <3> QED
      BY <1>4, <3>1, <3>2 DEF Faithful
  <2> QED
    BY <2>4, <2>5
<1> QED
  BY <1>5, <1>6

(* What escapes in the program escapes for the analyzer. *)
LEMMA EscapeSeen ==
  ASSUME NEW region \in [Symbol -> Regions], NEW real \in [Symbol -> Regions],
         NEW dest \in Symbol, NEW n \in Nat, NEW sources \in [1..n -> Symbol],
         real[dest] \in {"none", region[dest]},
         \A i \in 1..n : real[sources[i]] \in {"none", region[sources[i]]},
         Escape(dest, sources, real) # Accepted
  PROVE  Escape(dest, sources, region) # Accepted
<1> DEFINE bad(f) == {i \in DOMAIN sources :
                        /\ Rank(f[sources[i]]) >= 0
                        /\ Rank(f[sources[i]]) < Rank(f[dest])}
<1>1. PICK i \in bad(real) : TRUE
  BY DEF Escape
<1>2. /\ i \in 1..n /\ Rank(real[sources[i]]) >= 0
      /\ Rank(real[sources[i]]) < Rank(real[dest])
  OBVIOUS
<1>3. Rank("none") = -1
  BY DEF Rank
<1>4. /\ real[sources[i]] \in Regions /\ real[dest] \in Regions
      /\ \A r \in Regions : Rank(r) \in {-1, 0, 2}
  BY <1>2 DEF Rank
<1>5. real[sources[i]] # "none" /\ real[dest] # "none"
  <2>1. \A a, b \in {-1, 0, 2} : a >= 0 /\ a < b => a # -1 /\ b # -1
    OBVIOUS
  <2> QED
    BY <1>2, <1>3, <1>4, <2>1
<1>6. region[sources[i]] = real[sources[i]] /\ region[dest] = real[dest]
  BY <1>2, <1>5
<1>7. bad(region) # {}
  BY <1>2, <1>6
<1>8. Escape(dest, sources, region).to = region[dest]
  BY <1>7 DEF Escape
<1> QED
  BY <1>5, <1>6, <1>8 DEF Accepted

(* Two readings that agree on the names of a call agree on the call. *)
LEMMA EscapeAlike ==
  ASSUME NEW region, NEW real, NEW dest, NEW n \in Nat, NEW sources \in [1..n -> Symbol],
         real[dest] = region[dest],
         \A i \in 1..n : real[sources[i]] = region[sources[i]]
  PROVE  Escape(dest, sources, real) = Escape(dest, sources, region)
<1> DEFINE bad(f) == {i \in DOMAIN sources :
                        /\ Rank(f[sources[i]]) >= 0
                        /\ Rank(f[sources[i]]) < Rank(f[dest])}
<1>1. bad(real) = bad(region)
  OBVIOUS
<1>2. bad(region) # {} => Min(bad(region)) \in 1..n
  <2>1. bad(region) \in SUBSET (1..n)
    OBVIOUS
  <2> HIDE DEF bad
  <2> QED
    BY <2>1, Extremes
<1> QED
  BY <1>1, <1>2 DEF Escape

LEMMA JudgementsAgree ==
  ASSUME Straight, ScopesInv, Aligned(scopes), ~InParams, NEW d \in Usable, NEW q \in Sources, NEW own,
         d.name \notin own, \A s \in ToSet(q) : s.name \notin own,
         Judge(d, q, own)
  PROVE  Judged' /\ Faithful(Lookup[d], Denotes(own)[d])
<1>1. PICK n \in 0..2 : q \in [1..n -> Usable]
  BY DEF Sources
<1>2. d \in Symbol /\ n \in Nat /\ q \in [1..n -> Symbol] /\ \A i \in 1..n : q[i] \in Usable
  <2>1. \A s \in Usable : s \in Symbol
    BY DEF Usable
  <2> QED
    BY <1>1, <2>1
<1>3. \A s \in Usable : s.name \notin own => Denotes(own)[s] = Denotes({})[s]
  BY DEF Denotes, Usable
<1>4. \A i \in 1..n : q[i].name \notin own
  BY <1>2 DEF ToSet
<1>5. /\ Faithful(Lookup[d], Denotes(own)[d])
      /\ \A i \in 1..n : Faithful(Lookup[q[i]], Denotes(own)[q[i]])
  BY <1>2, <1>3, <1>4, ReadingsAgree
<1>6. Lookup \in [Symbol -> Regions] /\ Denotes(own) \in [Symbol -> Regions]
  BY LookupTypes, DenotesTypes
<1> DEFINE region == Lookup
           real == Denotes(own)
<1>7. /\ real[d] \in {"none", region[d]}
      /\ \A i \in 1..n : real[q[i]] \in {"none", region[q[i]]}
      /\ Liberties = {} => real[d] = region[d] /\ \A i \in 1..n : real[q[i]] = region[q[i]]
  BY <1>5 DEF Faithful
<1>8. region \in [Symbol -> Regions] /\ real \in [Symbol -> Regions]
  BY <1>6
<1> HIDE DEF region, real
<1>9. Escape(d, q, real) # Accepted => Escape(d, q, region) # Accepted
  BY <1>2, <1>7, <1>8, EscapeSeen
<1>10. Liberties = {} => Escape(d, q, real) = Escape(d, q, region)
  BY <1>2, <1>7, EscapeAlike
<1> QED
  BY <1>5, <1>9, <1>10 DEF Judge, Judged, region, real

(* A form mistaken for a call does nothing, and is not rejected for it when
   nothing else is to be taken for a call. *)
LEMMA MisreadAgrees ==
  ASSUME NEW d, NEW q, Misread(d, q)
  PROVE  Judged'
BY DEF Misread, Judged, Orderly

-----------------------------------------------------------------------------
(* A form begins with no names, or with names of no region. *)
LEMMA BlankAgrees ==
  ASSUME NEW scope, Blank(scope), \A n \in Names : scope.local[n] \in {"unbound", "none"}
  PROVE  LevelAgrees(scope)
<1>1. \A s \in Symbol : s.name \in Names
  BY DEF Symbol
<1> QED
  BY <1>1 DEF Blank, LevelAgrees, Clear

(* A binding of a name the C block does not have yet. *)
LEMMA BindAgrees ==
  ASSUME Straight, NEW scope \in Scope, LevelAgrees(scope), ~Full(scope),
         NEW s \in Symbol, scope.local[s.name] = "unbound",
         NEW r \in Regions, NEW p \in Regions, NEW x \in Regions, Faithful(r, x)
  PROVE  LET b == Bind(scope, s, r, p, x)
         IN  /\ LevelAgrees(b) /\ b.kind = scope.kind
             /\ \A n \in Names : b.local[n] # "unbound" => n = s.name \/ scope.local[n] # "unbound"
             /\ \A u \in Symbol : Clear(b, u.name) /\ b.bound[u] = "unbound" =>
                  Clear(scope, u.name) /\ scope.bound[u] = "unbound"
<1> DEFINE b == Bind(scope, s, r, p, x)
<1>1. s.name \in Names /\ \A u \in Symbol : u.name \in Names
  BY DEF Symbol
<1>2. /\ b.bound = [scope.bound EXCEPT ![s] = r]
      /\ b.local = [scope.local EXCEPT ![s.name] = x]
      /\ b.ended = scope.ended /\ b.kind = scope.kind
  BY DEF Bind, Scope
<1>3. /\ scope.bound \in [Symbol -> Regions \cup {"unbound"}]
      /\ scope.local \in [Names -> Regions \cup {"unbound"}] /\ scope.ended \in SUBSET Names
  BY DEF Scope
<1> HIDE DEF b
<1>4. /\ \A n \in Names : b.local[n] = IF n = s.name THEN x ELSE scope.local[n]
      /\ \A u \in Symbol : b.bound[u] = IF u = s THEN r ELSE scope.bound[u]
  BY <1>2, <1>3
<1>5. x # "unbound" /\ r # "unbound" /\ s.name \notin scope.ended
  BY DEF Regions, LevelAgrees
<1>6. \A u \in Symbol : u.name = s.name <=> u = s
  BY OneSpelling
<1>7. \A n \in b.ended : b.local[n] # "unbound"
  BY <1>2, <1>3, <1>4, <1>5 DEF LevelAgrees
<1>8. ASSUME NEW u \in Symbol
      PROVE  /\ b.bound[u] # "unbound" => Clear(b, u.name)
             /\ Clear(b, u.name) => b.local[u.name] \in {"none", b.bound[u]}
             /\ Liberties = {} /\ b.bound[u] # "unbound" => b.local[u.name] = b.bound[u]
             /\ Clear(b, u.name) /\ b.bound[u] = "unbound" =>
                  Clear(scope, u.name) /\ scope.bound[u] = "unbound"
  <2>1. CASE u = s
    BY <1>1, <1>2, <1>4, <1>5, <2>1 DEF Clear, Faithful
  <2>2. CASE u # s
    <3>1. /\ b.bound[u] = scope.bound[u] /\ b.local[u.name] = scope.local[u.name]
          /\ Clear(b, u.name) <=> Clear(scope, u.name)
      BY <1>1, <1>2, <1>4, <1>6, <2>2 DEF Clear
    <3> QED
      BY <3>1 DEF LevelAgrees
  <2> QED
    BY <2>1, <2>2
<1>9. LevelAgrees(b)
  BY <1>7, <1>8 DEF LevelAgrees
<1> QED
  BY <1>2, <1>4, <1>8, <1>9 DEF b

(* A let or a loop that is over leaves its names to the form around it. *)
LEMMA MergeAgrees ==
  ASSUME NEW outer \in Scope, NEW inner \in Scope, LevelAgrees(outer),
         \A n \in Names : outer.local[n] = "unbound" \/ inner.local[n] = "unbound",
         NEW new, new.bound = outer.bound, new.local = Merged(outer.local, inner.local),
         new.ended = outer.ended \cup {n \in Names : inner.local[n] # "unbound"}
  PROVE  /\ LevelAgrees(new)
         /\ \A n \in Names : Clear(new, n) => Clear(outer, n)
<1>1. \A n \in Names : new.local[n] = IF inner.local[n] = "unbound"
                                      THEN outer.local[n] ELSE inner.local[n]
  BY DEF Merged
<1>2. \A s \in Symbol : s.name \in Names
  BY DEF Symbol
<1>3. \A n \in Names : Clear(new, n) => Clear(outer, n) /\ new.local[n] = outer.local[n]
  BY <1>1 DEF Clear
<1>4. \A n \in Names : Clear(outer, n) => Clear(new, n)
  BY <1>1 DEF Clear
<1>5. \A n \in new.ended : new.local[n] # "unbound"
  BY <1>1 DEF LevelAgrees, Scope
<1>6. LevelAgrees(new)
  BY <1>2, <1>3, <1>4, <1>5 DEF LevelAgrees
<1> QED
  BY <1>3, <1>6

-----------------------------------------------------------------------------
(* A form begun. *)
LEMMA PushAligned ==
  ASSUME NEW stack, WellFormed(stack), Aligned(stack), NEW new \in Scope, LevelAgrees(new),
         new.kind # "block" =>
           \A n \in Names : new.local[n] # "unbound" => Fresh(stack, n),
         Liberties = {} =>
           \A s \in Symbol : Clear(new, s.name) /\ new.bound[s] = "unbound" =>
             \A j \in 1..Len(stack) : ~stack[j].open => stack[j].bound[s] = "unbound"
  PROVE  Aligned(Append(stack, new))
<1> DEFINE after == Append(stack, new)
           n == Len(stack)
<1>1. /\ n \in Nat /\ Len(after) = n + 1 /\ after[n + 1] = new /\ DOMAIN stack = 1..n
      /\ \A k \in 1..n : after[k] = stack[k]
  BY DEF WellFormed
<1> HIDE DEF after, n
<1>2. \A k \in 1..n + 1 : k \in 1..n \/ k = n + 1
  BY <1>1
<1>3. \A k \in 1..n + 1 : \A j \in 1..k - 1 : j \in 1..n /\ after[j] = stack[j]
  BY <1>1
<1>4. \A k \in 1..n : \A j \in 1..k - 1 : \A i \in j + 1..k : after[i] = stack[i]
  BY <1>1
<1>5. Apart(after)
  <2> SUFFICES ASSUME NEW k \in 1..n + 1, NEW j \in 1..k - 1, SameBlock(after, j, k), NEW m \in Names
               PROVE  after[j].local[m] = "unbound" \/ after[k].local[m] = "unbound"
    BY <1>1 DEF Apart
  <2>1. CASE k \in 1..n
    <3>1. SameBlock(stack, j, k)
      BY <1>4, <2>1 DEF SameBlock
    <3> QED
      BY <1>1, <1>3, <2>1, <3>1 DEF Aligned, Apart, n
  <2>2. CASE k = n + 1
    <3>1. j \in 1..n /\ n + 1 \in j + 1..n + 1 /\ \A i \in j + 1..n : i \in j + 1..n + 1 /\ i \in 1..n
      BY <1>1, <2>2
    <3>2. new.kind # "block" /\ \A i \in j + 1..n : stack[i].kind # "block"
      BY <1>1, <2>2, <3>1 DEF SameBlock
    <3>3. new.local[m] # "unbound" => stack[j].local[m] = "unbound"
      BY <1>1, <3>1, <3>2 DEF Fresh, n
    <3> QED
      BY <1>1, <2>2, <3>1, <3>3
  <2> QED
    BY <1>2, <2>1, <2>2
<1>6. Unhidden(after)
  <2> SUFFICES ASSUME Liberties = {}, NEW k \in 1..n + 1, NEW j \in 1..k - 1, NEW s \in Symbol,
                      ~after[j].open, Clear(after[k], s.name), after[k].bound[s] = "unbound"
               PROVE  after[j].bound[s] = "unbound"
    BY <1>1 DEF Unhidden
  <2>1. CASE k \in 1..n
    BY <1>1, <1>3, <2>1 DEF Aligned, Unhidden, n
  <2>2. CASE k = n + 1
    BY <1>1, <1>3, <2>2 DEF n
  <2> QED
    BY <1>2, <2>1, <2>2
<1>7. \A k \in 1..n + 1 : LevelAgrees(after[k])
  BY <1>1, <1>2 DEF Aligned, n
<1> QED
  BY <1>1, <1>5, <1>6, <1>7 DEF Aligned, after

(* The innermost form goes on: its bindings are over, or it has one more. *)
LEMMA ReplaceAligned ==
  ASSUME NEW stack, WellFormed(stack), Aligned(stack), NEW n, n = Len(stack),
         NEW new, LevelAgrees(new), new.kind = stack[n].kind,
         \A m \in Names : new.local[m] # "unbound" =>
           stack[n].local[m] # "unbound" \/ Fresh(stack, m),
         \A s \in Symbol : Clear(new, s.name) /\ new.bound[s] = "unbound" =>
           Clear(stack[n], s.name) /\ stack[n].bound[s] = "unbound"
  PROVE  Aligned([stack EXCEPT ![n] = new])
<1> DEFINE after == [stack EXCEPT ![n] = new]
<1>1. /\ n \in Nat /\ n > 0 /\ Len(after) = n /\ after[n] = new /\ DOMAIN stack = 1..n
      /\ \A k \in 1..n - 1 : after[k] = stack[k]
  BY DEF WellFormed
<1> HIDE DEF after
<1>2. \A k \in 1..n : k \in 1..n - 1 \/ k = n
  BY <1>1
<1>3. \A k \in 1..n : \A j \in 1..k - 1 : j \in 1..n - 1 /\ after[j] = stack[j]
  BY <1>1
<1>4. \A k \in 1..n : after[k].kind = stack[k].kind
  BY <1>1, <1>2
<1>5. Apart(after)
  <2> SUFFICES ASSUME NEW k \in 1..n, NEW j \in 1..k - 1, SameBlock(after, j, k), NEW m \in Names
               PROVE  after[j].local[m] = "unbound" \/ after[k].local[m] = "unbound"
    BY <1>1 DEF Apart
  <2>1. SameBlock(stack, j, k)
    <3>1. \A i \in j + 1..k : i \in 1..n
      BY <1>1
    <3> QED
      BY <1>4, <3>1 DEF SameBlock
  <2>2. stack[j].local[m] = "unbound" \/ stack[k].local[m] = "unbound"
    BY <1>1, <2>1 DEF Aligned, Apart
  <2>3. CASE k \in 1..n - 1
    BY <1>1, <1>3, <2>2, <2>3
  <2>4. CASE k = n
    <3>1. j \in DOMAIN stack /\ \A i \in j + 1..Len(stack) : stack[i].kind # "block"
      BY <1>1, <2>1, <2>4 DEF SameBlock
    <3>2. Fresh(stack, m) => stack[j].local[m] = "unbound"
      BY <3>1 DEF Fresh
    <3> QED
      BY <1>1, <1>3, <2>2, <2>4, <3>2
  <2> QED
    BY <1>2, <2>3, <2>4
<1>6. Unhidden(after)
  <2> SUFFICES ASSUME Liberties = {}, NEW k \in 1..n, NEW j \in 1..k - 1, NEW s \in Symbol,
                      ~after[j].open, Clear(after[k], s.name), after[k].bound[s] = "unbound"
               PROVE  after[j].bound[s] = "unbound"
    BY <1>1 DEF Unhidden
  <2>1. Clear(stack[k], s.name) /\ stack[k].bound[s] = "unbound"
    BY <1>1, <1>2
  <2> QED
    BY <1>1, <1>3, <2>1 DEF Aligned, Unhidden
<1>7. \A k \in 1..n : LevelAgrees(after[k])
  BY <1>1, <1>2 DEF Aligned
<1> QED
  BY <1>1, <1>5, <1>6, <1>7 DEF Aligned, after

(* A form over. *)
LEMMA EndedAligned ==
  ASSUME ScopesInv, Aligned(scopes), NEW n, n = Len(scopes) - 1, n > 0
  PROVE  Aligned(Ended)
<1> DEFINE after == Ended
<1>1. /\ n \in Nat /\ Len(after) = n /\ Len(scopes) = n + 1 /\ Top = scopes[n + 1]
      /\ scopes[n] \in Scope /\ Top \in Scope
      /\ \A k \in 1..n - 1 : after[k] = scopes[k]
      /\ after[n].bound = scopes[n].bound /\ after[n].kind = scopes[n].kind
      /\ Top.kind = "block" => after[n] = scopes[n]
      /\ Top.kind # "block" =>
           /\ after[n].local = Merged(scopes[n].local, Top.local)
           /\ after[n].ended = scopes[n].ended \cup {m \in Names : Top.local[m] # "unbound"}
  BY EndedTypes
<1> HIDE DEF after
<1>2. \A k \in 1..n : k \in 1..n + 1 /\ (k \in 1..n - 1 \/ k = n)
  BY <1>1
<1>3. \A k \in 1..n : \A j \in 1..k - 1 : j \in 1..n - 1 /\ after[j] = scopes[j]
  BY <1>1
<1>4. \A k \in 1..n : after[k].kind = scopes[k].kind
  BY <1>1, <1>2
<1>5. Top.kind # "block" =>
        \A m \in Names : scopes[n].local[m] = "unbound" \/ Top.local[m] = "unbound"
  <2>1. n \in 1..(n + 1) - 1 /\ n + 1 \in 1..Len(scopes) /\ \A i \in n + 1..n + 1 : i = n + 1
    BY <1>1
  <2>2. Top.kind # "block" => SameBlock(scopes, n, n + 1)
    BY <1>1, <2>1 DEF SameBlock
  <2> QED
    BY <1>1, <2>1, <2>2 DEF Aligned, Apart
<1>6. LevelAgrees(after[n]) /\ \A m \in Names : Clear(after[n], m) => Clear(scopes[n], m)
  <2>1. LevelAgrees(scopes[n])
    BY <1>1, <1>2 DEF Aligned
  <2>2. CASE Top.kind = "block"
    BY <1>1, <2>1, <2>2
  <2>3. CASE Top.kind # "block"
    BY <1>1, <1>5, <2>1, <2>3, MergeAgrees
  <2> QED
    BY <2>2, <2>3
<1>7. Apart(after)
  <2> SUFFICES ASSUME NEW k \in 1..n, NEW j \in 1..k - 1, SameBlock(after, j, k), NEW m \in Names
               PROVE  after[j].local[m] = "unbound" \/ after[k].local[m] = "unbound"
    BY <1>1 DEF Apart
  <2>1. SameBlock(scopes, j, k)
    <3>1. \A i \in j + 1..k : i \in 1..n
      BY <1>1
    <3> QED
      BY <1>4, <3>1 DEF SameBlock
  <2>2. scopes[j].local[m] = "unbound" \/ scopes[k].local[m] = "unbound"
    BY <1>1, <1>2, <2>1 DEF Aligned, Apart
  <2>3. CASE k \in 1..n - 1 \/ Top.kind = "block"
    BY <1>1, <1>2, <1>3, <2>2, <2>3
  <2>4. CASE k = n /\ Top.kind # "block"
    <3>1. scopes[j].local[m] = "unbound" \/ Top.local[m] = "unbound"
      <4>1. SameBlock(scopes, j, n + 1)
        <5>1. \A i \in j + 1..n + 1 : i \in j + 1..n \/ i = n + 1
          BY <1>1
        <5> QED
          BY <1>1, <2>1, <2>4, <5>1 DEF SameBlock
      <4>2. n + 1 \in 1..Len(scopes) /\ j \in 1..(n + 1) - 1
        BY <1>1, <2>4
      <4> QED
        BY <1>1, <4>1, <4>2 DEF Aligned, Apart
    <3>2. after[n].local[m] = IF Top.local[m] = "unbound" THEN scopes[n].local[m] ELSE Top.local[m]
      BY <1>1, <2>4 DEF Merged
    <3> QED
      BY <1>3, <2>2, <2>4, <3>1, <3>2
  <2> QED
    BY <1>2, <2>3, <2>4
<1>8. Unhidden(after)
  <2> SUFFICES ASSUME Liberties = {}, NEW k \in 1..n, NEW j \in 1..k - 1, NEW s \in Symbol,
                      ~after[j].open, Clear(after[k], s.name), after[k].bound[s] = "unbound"
               PROVE  after[j].bound[s] = "unbound"
    BY <1>1 DEF Unhidden
  <2>1. s.name \in Names
    BY DEF Symbol
  <2>2. Clear(scopes[k], s.name) /\ scopes[k].bound[s] = "unbound"
    BY <1>1, <1>2, <1>6, <2>1
  <2> QED
    BY <1>1, <1>2, <1>3, <2>2 DEF Aligned, Unhidden
<1>9. \A k \in 1..n : LevelAgrees(after[k])
  BY <1>1, <1>2, <1>6 DEF Aligned
<1> QED
  BY <1>1, <1>7, <1>8, <1>9 DEF Aligned, after

(* The innermost form binds one more name. *)
LEMMA BoundAligned ==
  ASSUME Straight, NEW stack, WellFormed(stack), Aligned(stack), NEW n, n = Len(stack),
         NEW s \in Symbol, MayBind(stack, s),
         NEW r \in Regions, NEW p \in Regions, NEW x \in Regions, Faithful(r, x)
  PROVE  Aligned([stack EXCEPT ![n] = Bind(stack[n], s, r, p, x)])
<1> DEFINE b == Bind(stack[n], s, r, p, x)
<1>1. /\ n \in Nat /\ n \in 1..n /\ DOMAIN stack = 1..n /\ stack[n] \in Scope
      /\ Last(stack) = stack[n] /\ LevelAgrees(stack[n]) /\ s.name \in Names
      /\ \A i : i \notin n + 1..n
  BY DEF WellFormed, Last, Aligned, Symbol
<1>2. ~Full(stack[n]) /\ stack[n].local[s.name] = "unbound" /\ Fresh(stack, s.name)
  BY <1>1 DEF MayBind, Orderly, Straight, Fresh
<1>3. /\ LevelAgrees(b) /\ b.kind = stack[n].kind
      /\ \A m \in Names : b.local[m] # "unbound" => m = s.name \/ stack[n].local[m] # "unbound"
      /\ \A u \in Symbol : Clear(b, u.name) /\ b.bound[u] = "unbound" =>
           Clear(stack[n], u.name) /\ stack[n].bound[u] = "unbound"
  BY <1>1, <1>2, BindAgrees
<1> HIDE DEF b
<1>4. \A m \in Names : b.local[m] # "unbound" => stack[n].local[m] # "unbound" \/ Fresh(stack, m)
  BY <1>2, <1>3
<1>5. Aligned([stack EXCEPT ![n] = b])
  BY <1>3, <1>4, ReplaceAligned
<1> QED
  BY <1>5 DEF b

-----------------------------------------------------------------------------
LEMMA AppendReplaced ==
  ASSUME NEW S, NEW stack \in Seq(S), NEW a \in S, NEW e \in S
  PROVE  Append(stack, e) = [Append(stack, a) EXCEPT ![Len(stack) + 1] = e]
<1> DEFINE old == Append(stack, a)
           n == Len(stack) + 1
<1>1. /\ Append(stack, e) \in Seq(S) /\ Len(Append(stack, e)) = n
      /\ Append(stack, e)[n] = e
      /\ \A i \in 1..Len(stack) : Append(stack, e)[i] = stack[i]
  BY AppendProperties
<1>2. /\ old \in Seq(S) /\ Len(old) = n /\ n \in 1..n
      /\ \A i \in 1..Len(stack) : old[i] = stack[i]
  BY AppendProperties
<1>3. \A i \in 1..n : i = n \/ i \in 1..Len(stack)
  OBVIOUS
<1> HIDE DEF old, n
<1>4. /\ [old EXCEPT ![n] = e] \in Seq(S) /\ Len([old EXCEPT ![n] = e]) = n
      /\ \A i \in 1..n : [old EXCEPT ![n] = e][i] = IF i = n THEN e ELSE old[i]
  BY <1>2, ExceptSeq
<1> DEFINE new == Append(stack, e)
           put == [old EXCEPT ![n] = e]
<1>5. \A i \in 1..n : new[i] = put[i]
  BY <1>1, <1>2, <1>3, <1>4
<1>6. new \in Seq(S) /\ put \in Seq(S) /\ Len(new) = n /\ Len(put) = n
  BY <1>1, <1>4
<1> HIDE DEF new, put
<1>7. new = put
  BY <1>5, <1>6, SeqEqual
<1> QED
  BY <1>7 DEF new, put, old, n

LEMMA EmptyAligned == Aligned(<<EmptyScope>>)
<1> DEFINE stack == <<EmptyScope>>
<1>1. Len(stack) = 1 /\ stack[1] = EmptyScope
  OBVIOUS
<1> HIDE DEF stack
<1>2. LevelAgrees(EmptyScope)
  BY EmptyTypes, BlankAgrees
<1>3. \A k \in 1..Len(stack) : k = 1 /\ 1..k - 1 = {}
  BY <1>1
<1> QED
  BY <1>1, <1>2, <1>3 DEF Aligned, Apart, Unhidden, stack

LEMMA InitAgrees == Init => AgreeInv
BY EmptyAligned DEF Init, AgreeInv, Judged

(* Every step of a straight program keeps the analyzer and the program together. *)
LEMMA NextAgrees ==
  ASSUME Straight
  PROVE  TypeInv /\ AgreeInv /\ [Next]_vars => AgreeInv'
<1> SUFFICES ASSUME ScopesInv, Aligned(scopes), Judged, [Next]_vars
             PROVE  Aligned(scopes') /\ Judged'
  BY DEF TypeInv, AgreeInv
<1>0. /\ WellFormed(scopes) /\ Depth = Len(scopes) /\ Len(scopes) \in Nat /\ Len(scopes) > 0
      /\ Top \in Scope /\ Top = scopes[Depth] /\ scopes \in Seq(Scope)
      /\ LevelAgrees(Top) /\ "none" \in Regions
      /\ Faithful("none", "none") /\ \A r \in Regions : Faithful(r, r)
      /\ \A n \in Names : NoneDeclared[n] = "unbound"
  BY EmptyTypes DEF ScopesInv, WellFormed, Depth, Top, Aligned, Regions, Faithful
<1>1. UNCHANGED <<verdict, truth>> => Judged'
  BY DEF Judged
<1>2. ASSUME NEW s \in Symbol, MayBind(scopes, s),
             NEW r \in Regions, NEW p \in Regions, NEW x \in Regions, Faithful(r, x)
      PROVE  Aligned([scopes EXCEPT ![Depth] = Bind(@, s, r, p, x)])
  <2>1. Aligned([scopes EXCEPT ![Depth] = Bind(scopes[Depth], s, r, p, x)])
    BY <1>0, <1>2, BoundAligned
  <2> QED
    BY <1>0, <2>1
<1>3. ASSUME ~InParams, NEW kind \in {"block", "let", "loop"}, NEW open \in BOOLEAN, NEW local \in Locals,
             \A n \in Names : local[n] \in {"unbound", "none"},
             \A n \in Names : local[n] # "unbound" =>
               /\ kind # "block" => Fresh(scopes, n)
               /\ Liberties = {} => ~Known(n)
      PROVE  LET new == ChildScope(kind, open, local)
             IN  /\ new \in Scope /\ new.size <= MaxBindings /\ LevelAgrees(new)
                 /\ Aligned(Append(scopes, new))
  <2> DEFINE new == ChildScope(kind, open, local)
  <2>1. Blank(new) /\ new.kind = kind /\ new.local = local
    BY <1>3, ChildTypes
  <2> HIDE DEF new
  <2>2. new \in Scope /\ new.size <= MaxBindings /\ LevelAgrees(new)
    BY <1>3, <2>1, BlankAgrees DEF Blank
  <2>3. ASSUME Liberties = {}, NEW s \in Symbol, Clear(new, s.name),
               NEW j \in 1..Len(scopes), ~scopes[j].open
        PROVE  scopes[j].bound[s] = "unbound"
    <3>1. s.name \in Names /\ ~Known(s.name) /\ j \in Walked
      BY <1>3, <2>1, <2>3, ScopeTypes DEF Symbol, Clear, Walked
    <3> QED
      BY <3>1 DEF Known
  <2>4. new.kind # "block" => \A n \in Names : new.local[n] # "unbound" => Fresh(scopes, n)
    BY <1>3, <2>1
  <2>5. Aligned(Append(scopes, new))
    BY <1>0, <2>2, <2>3, <2>4, PushAligned
  <2> QED
    BY <2>2, <2>5 DEF new
<1>4. ASSUME NEW s \in Bindable, NEW r \in Regions, Param(s, r) PROVE Aligned(scopes') /\ Judged'
  <2>1. /\ s \in Symbol /\ MayBind(scopes, s)
        /\ scopes' = [scopes EXCEPT ![Depth] = Bind(@, s, r, r, r)]
    BY <1>4 DEF Param, InParams, Bindable
  <2>2. Aligned([scopes EXCEPT ![Depth] = Bind(@, s, r, r, r)])
    BY <1>0, <1>2, <2>1
  <2> QED
    BY <1>1, <1>4, <2>1, <2>2 DEF Param
<1>5. ASSUME NEW s \in Bindable, NEW r \in Regions, WithArena(s, r) PROVE Aligned(scopes') /\ Judged'
  <2> DEFINE arena == ChildScope("block", FALSE, NoneDeclared)
             b == Bind(arena, s, r, r, r)
             stack == Append(scopes, arena)
  <2>1. /\ ~InParams /\ s \in Symbol /\ MayBind(stack, s)
        /\ scopes' = Append(scopes, b)
    BY <1>5 DEF WithArena, InBody, InParams, Bindable
  <2>2. arena \in Scope /\ arena.size <= MaxBindings /\ Aligned(stack)
    BY <1>0, <1>3, <2>1, EmptyTypes
  <2> HIDE DEF arena
  <2>3. WellFormed(stack) /\ Len(stack) = Len(scopes) + 1 /\ stack[Len(stack)] = arena
    BY <1>0, <2>1, <2>2, PushTypes DEF InParams, ScopesInv, WellFormed, Depth
  <2>4. Append(scopes, b) = [stack EXCEPT ![Len(stack)] = b]
    <3>1. b \in Scope
      BY <2>1, <2>2, BindTypes
    <3> HIDE DEF b
    <3> QED
      BY <1>0, <2>2, <2>3, <3>1, AppendReplaced
  <2> HIDE DEF stack
  <2>5. Aligned([stack EXCEPT ![Len(stack)] = Bind(stack[Len(stack)], s, r, r, r)])
    BY <1>0, <2>1, <2>2, <2>3, BoundAligned
  <2> QED
    BY <1>1, <1>5, <2>1, <2>3, <2>4, <2>5 DEF WithArena
<1>6. CASE Body
  <2> DEFINE b == [Top EXCEPT !.open = FALSE]
  <2>1. scopes' = [scopes EXCEPT ![Depth] = b]
    BY <1>0, <1>6 DEF Body
  <2>2. b.bound = Top.bound /\ b.local = Top.local /\ b.ended = Top.ended /\ b.kind = Top.kind
    BY <1>0 DEF Scope
  <2> HIDE DEF b
  <2>3. LevelAgrees(b) /\ \A n : Clear(b, n) <=> Clear(Top, n)
    BY <1>0, <2>2 DEF LevelAgrees, Clear
  <2>4. Aligned([scopes EXCEPT ![Depth] = b])
    BY <1>0, <2>2, <2>3, ReplaceAligned
  <2> QED
    BY <1>1, <1>6, <2>1, <2>4 DEF Body
<1>7. CASE Let
  <2>1. ~InParams /\ scopes' = Append(scopes, ChildScope("let", TRUE, NoneDeclared))
    BY <1>7 DEF Let, InBody, InParams
  <2>2. Aligned(Append(scopes, ChildScope("let", TRUE, NoneDeclared)))
    BY <1>0, <1>3, <2>1, EmptyTypes
  <2> QED
    BY <1>1, <1>7, <2>1, <2>2 DEF Let
<1>8. CASE NextDefn
  BY <1>1, <1>8, EmptyAligned DEF NextDefn, BaseScope
<1>9. ASSUME NEW s \in Bindable, Leave(s) PROVE Aligned(scopes') /\ Judged'
  <2> DEFINE n == Len(scopes) - 1
  <2>1. /\ n > 0 /\ s \in Symbol
        /\ Ended[n].open => MayBind(Ended, s)
        /\ scopes' = IF Ended[n].open
                     THEN [Ended EXCEPT ![n] = Bind(Ended[n], s, "none", "none", "none")]
                     ELSE Ended
    BY <1>9, LeaveTypes DEF Bindable
  <2>2. WellFormed(Ended) /\ Len(Ended) = n /\ Aligned(Ended)
    BY <2>1, EndedTypes, EndedAligned
  <2> HIDE DEF n
  <2>3. Ended[n].open => Aligned([Ended EXCEPT ![n] = Bind(Ended[n], s, "none", "none", "none")])
    BY <1>0, <2>1, <2>2, BoundAligned
  <2> QED
    BY <1>1, <1>9, <2>1, <2>2, <2>3 DEF Leave
<1>10. ASSUME NEW d \in Usable, NEW q \in Sources, Call(d, q) PROVE Aligned(scopes') /\ Judged'
  <2>1. ~InParams /\ Judge(d, q, {}) /\ scopes' = scopes
    BY <1>10 DEF Call, InBody, InParams
  <2>2. Judged'
    BY <2>1, JudgementsAgree
  <2> QED
    BY <2>1, <2>2
<1>11. ASSUME NEW d \in Usable, NEW q \in Sources, NoCall(d, q) PROVE Aligned(scopes') /\ Judged'
  BY <1>11, MisreadAgrees DEF NoCall
<1>12. ASSUME NEW p \in Patterns, Clause(p) PROVE Aligned(scopes') /\ Judged'
  <2>1. /\ ~InParams /\ scopes' = Append(scopes, ChildScope("block", FALSE, PatternLocals(p)))
        /\ \A i \in DOMAIN p : Liberties = {} => ~Known(p[i].name)
    BY <1>12 DEF Clause, PatternLocals, Orderly
  <2>2. /\ PatternLocals(p) \in Locals
        /\ \A n \in Names : PatternLocals(p)[n] \in {"unbound", "none"}
        /\ \A n \in Names : PatternLocals(p)[n] # "unbound" => \E i \in DOMAIN p : p[i].name = n
    BY PatternTypes DEF PatternLocals
  <2>3. Aligned(Append(scopes, ChildScope("block", FALSE, PatternLocals(p))))
    BY <1>3, <2>1, <2>2
  <2>4. Judged'
    <3>1. CASE p = <<>>
      BY <1>1, <1>12, <3>1 DEF Clause
    <3>2. CASE p # <<>>
      BY <1>12, <3>2, MisreadAgrees DEF Clause
    <3> QED
      BY <3>1, <3>2
  <2> QED
    BY <2>1, <2>3, <2>4
<1>13. ASSUME NEW s \in Bindable, NEW d \in Usable, NEW q \in Sources, NEW alloc \in BOOLEAN,
              Loop(s, d, q, alloc)
       PROVE  Aligned(scopes') /\ Judged'
  <2>1. /\ ~InParams /\ Fresh(scopes, s.name) /\ (Liberties = {} => ~Known(s.name))
        /\ Initializes(s, d, q) /\ Judge(d, q, {s.name})
    BY <1>13 DEF Loop, Orderly
  <2>2. PICK real \in Regions :
          /\ real # "none" => Orderly("carried", FALSE)
          /\ VariableLocals(s, real) \in Locals
          /\ scopes' = Append(Append(scopes, ChildScope("loop", FALSE, VariableLocals(s, real))),
                              ChildScope("block", FALSE, NoneDeclared))
    BY <1>13, LoopTypes
  <2> DEFINE loop == ChildScope("loop", FALSE, VariableLocals(s, real))
             block == ChildScope("block", FALSE, NoneDeclared)
             outer == Append(scopes, loop)
  <2>3. /\ \A n \in Names : VariableLocals(s, real)[n] \in {"unbound", "none"}
        /\ \A n \in Names : VariableLocals(s, real)[n] # "unbound" => n = s.name
    BY <2>2 DEF VariableLocals, Orderly, Straight
  <2>4. loop \in Scope /\ loop.size <= MaxBindings /\ Aligned(outer)
    BY <1>3, <2>1, <2>2, <2>3
  <2>5. /\ block \in Scope /\ block.size <= MaxBindings /\ LevelAgrees(block)
        /\ block.kind = "block" /\ block.local = NoneDeclared
    <3>1. Blank(block) /\ block.kind = "block" /\ block.local = NoneDeclared
      BY <2>1, BlockTypes
    <3> HIDE DEF block
    <3>2. LevelAgrees(block)
      BY <1>0, <3>1, BlankAgrees
    <3> QED
      BY <3>1, <3>2 DEF Blank
  <2>6. scopes' = Append(outer, block)
    BY <2>2
  <2> HIDE DEF loop, block
  <2>7. WellFormed(outer)
    BY <1>0, <2>1, <2>4, PushTypes DEF InParams, ScopesInv, WellFormed, Depth
  <2> HIDE DEF outer
  <2>8. \A u \in Symbol : ~Clear(block, u.name)
    BY <1>0, <2>5 DEF Clear, Symbol
  <2>9. Aligned(Append(outer, block))
    BY <2>4, <2>5, <2>7, <2>8, PushAligned
  <2>10. Judged'
    BY <2>1, JudgementsAgree DEF Initializes, Orderly, Straight
  <2> QED
    BY <2>6, <2>9, <2>10
<1>14. ASSUME NEW s \in Bindable, NEW d \in Usable, NEW q \in Sources,
              BindCall(s, d, q) \/ BindAlloc(s, d, q)
       PROVE  Aligned(scopes') /\ Judged'
  <2>1. /\ ~InParams /\ Judge(d, q, {s.name}) /\ s \in Symbol /\ d \in Symbol
        /\ MayBind(scopes, s) /\ Initializes(s, d, q)
    BY <1>14 DEF BindCall, BindAlloc, InBindings, InParams, Bindable, Usable
  <2>2. Judged' /\ Faithful(Lookup[d], Denotes({s.name})[d])
    BY <2>1, JudgementsAgree DEF Initializes, Orderly, Straight
  <2>3. Lookup[d] \in Regions /\ PortLookup[d] \in Regions /\ Denotes({s.name})[d] \in Regions
    BY <2>1, LookupTypes, DenotesTypes, OuterTypes
  <2>4. \/ scopes' = scopes
        \/ scopes' = [scopes EXCEPT ![Depth] = Bind(@, s, "none", "none", "none")]
        \/ scopes' = [scopes EXCEPT ![Depth] =
                         Bind(@, s, Lookup[d], PortLookup[d], Denotes({s.name})[d])]
    BY <1>14 DEF BindCall, BindAlloc
  <2>5. Aligned([scopes EXCEPT ![Depth] = Bind(@, s, "none", "none", "none")])
    BY <1>0, <1>2, <2>1
  <2>6. ASSUME NEW r \in Regions, NEW p \in Regions, NEW x \in Regions, Faithful(r, x)
        PROVE  Aligned([scopes EXCEPT ![Depth] = Bind(@, s, r, p, x)])
    BY <1>2, <2>1, <2>6
  <2>7. Aligned([scopes EXCEPT ![Depth] =
                    Bind(@, s, Lookup[d], PortLookup[d], Denotes({s.name})[d])])
    BY <2>2, <2>3, <2>6
  <2> QED
    BY <2>2, <2>4, <2>5, <2>7
<1>15. CASE UNCHANGED vars
  BY <1>1, <1>15 DEF vars
<1> QED
  BY <1>4, <1>5, <1>6, <1>7, <1>8, <1>9, <1>10, <1>11, <1>12, <1>13, <1>14, <1>15 DEF Next

(* A straight program that the analyzer accepts does not escape: its clauses
   and loops may hide names from the analyzer, its forms may look like calls. *)
THEOREM Soundness ==
  ASSUME Straight
  PROVE  Spec => []AcceptedIsSafe
<1>1. TypeInv /\ AgreeInv /\ [Next]_vars => AgreeInv'
  BY NextAgrees
<1>2. AgreeInv => AcceptedIsSafe
  BY DEF AgreeInv, Judged, AcceptedIsSafe
<1> QED
  BY <1>1, <1>2, InitAgrees, TypeInvariance, PTL DEF Spec

(* Without those, what it rejects escapes as the message says. *)
THEOREM NoFalseAlarm ==
  ASSUME Exact
  PROVE  Spec => []ReportsRealEscapes
<1>1. Straight
  BY DEF Exact, Straight
<1>2. TypeInv /\ AgreeInv /\ [Next]_vars => AgreeInv'
  BY <1>1, NextAgrees
<1>3. AgreeInv => ReportsRealEscapes
  BY DEF AgreeInv, Judged, ReportsRealEscapes, Exact
<1> QED
  BY <1>2, <1>3, InitAgrees, TypeInvariance, PTL DEF Spec

-----------------------------------------------------------------------------
(* What the C analyzer reads of s where scope k is the innermost: its own binding,
   else that of the next scope outside it whose bindings are over. *)
Binders(stack, k, s) ==
    {j \in 1..k : (j = k \/ ~stack[j].open) /\ stack[j].bound[s] # "unbound"}
Reading(stack, k, s) ==
    IF Binders(stack, k, s) = {} THEN "unbound" ELSE stack[Max(Binders(stack, k, s))].bound[s]

(* The vector the port copies into a scope is that reading, as long as no table
   from there outwards is full. *)
NoneFull(stack, k) == \A j \in 1..k : ~Full(stack[j])
CopiedAt(stack, k) ==
    NoneFull(stack, k) => \A s \in Symbol : stack[k].flat[s] = Reading(stack, k, s)
Copied(stack) == \A k \in 1..Len(stack) : CopiedAt(stack, k)
CopyInv == Copied(scopes)

(* It depends on the scopes from k outwards only, and of k not on whether it is open. *)
LEMMA ReadingStays ==
  ASSUME NEW old, NEW new, NEW k \in Nat, NEW s,
         \A j \in 1..k : /\ new[j].bound[s] = old[j].bound[s]
                         /\ j # k => new[j].open = old[j].open
  PROVE  Reading(new, k, s) = Reading(old, k, s)
<1>1. Binders(new, k, s) = Binders(old, k, s)
  BY DEF Binders
<1>2. Binders(old, k, s) # {} => Max(Binders(old, k, s)) \in 1..k
  <2>1. Binders(old, k, s) \in SUBSET (1..k)
    BY DEF Binders
  <2> QED
    BY <2>1, Extremes
<1> QED
  BY <1>1, <1>2 DEF Reading

(* A name the innermost scope binds is read there. *)
LEMMA ReadingOfTop ==
  ASSUME NEW stack, NEW k \in Nat \ {0}, NEW s, stack[k].bound[s] # "unbound"
  PROVE  Reading(stack, k, s) = stack[k].bound[s]
<1>1. Binders(stack, k, s) \in SUBSET (1..k) /\ k \in Binders(stack, k, s)
  BY DEF Binders
<1>2. Max(Binders(stack, k, s)) = k
  <2>1. Max(Binders(stack, k, s)) \in 1..k /\ k <= Max(Binders(stack, k, s))
    BY <1>1, Extremes
  <2> QED
    BY <2>1
<1> QED
  BY <1>1, <1>2 DEF Reading

(* A new innermost scope: nothing of it is known to the port alone. *)
LEMMA TopCopied ==
  ASSUME NEW old, NEW new, NEW n \in Nat \ {0},
         \A j \in 1..n - 1 : new[j] = old[j],
         CopiedAt(old, n),
         NoneFull(new, n) =>
           /\ ~Full(old[n])
           /\ \A s \in Symbol :
                \/ new[n].bound[s] = old[n].bound[s] /\ new[n].flat[s] = old[n].flat[s]
                \/ new[n].bound[s] # "unbound" /\ new[n].flat[s] = new[n].bound[s]
  PROVE  CopiedAt(new, n)
<1> SUFFICES ASSUME NoneFull(new, n), NEW s \in Symbol
             PROVE  new[n].flat[s] = Reading(new, n, s)
  BY DEF CopiedAt
<1>1. NoneFull(old, n)
  BY DEF NoneFull
<1>2. CASE new[n].bound[s] = old[n].bound[s] /\ new[n].flat[s] = old[n].flat[s]
  <2>1. \A j \in 1..n : /\ new[j].bound[s] = old[j].bound[s]
                        /\ j # n => new[j].open = old[j].open
    BY <1>2
  <2>2. Reading(new, n, s) = Reading(old, n, s)
    BY <2>1, ReadingStays
  <2> QED
    BY <1>1, <1>2, <2>2 DEF CopiedAt
<1>3. CASE new[n].bound[s] # "unbound" /\ new[n].flat[s] = new[n].bound[s]
  BY <1>3, ReadingOfTop
<1> QED
  BY <1>2, <1>3

(* The scopes outside it are as they were. *)
LEMMA RestCopied ==
  ASSUME NEW old, NEW new, NEW n \in Nat, \A j \in 1..n : new[j] = old[j],
         NEW k \in 1..n, CopiedAt(old, k)
  PROVE  CopiedAt(new, k)
<1> SUFFICES ASSUME NoneFull(new, k), NEW s \in Symbol
             PROVE  new[k].flat[s] = Reading(new, k, s)
  BY DEF CopiedAt
<1>1. \A j \in 1..k : new[j] = old[j]
  OBVIOUS
<1>2. NoneFull(old, k)
  BY <1>1 DEF NoneFull
<1>3. Reading(new, k, s) = Reading(old, k, s)
  BY <1>1, ReadingStays
<1> QED
  BY <1>1, <1>2, <1>3 DEF CopiedAt

(* scope_bind, of a region both know. *)
LEMMA BindCopies ==
  ASSUME NEW scope \in Scope, NEW s \in Symbol, NEW r \in Regions, NEW p \in Regions, NEW x \in Regions,
         ~Full(Bind(scope, s, r, p, x)) => p = r
  PROVE  LET b == Bind(scope, s, r, p, x)
         IN  ~Full(b) => /\ ~Full(scope)
                         /\ \A u \in Symbol :
                              \/ b.bound[u] = scope.bound[u] /\ b.flat[u] = scope.flat[u]
                              \/ b.bound[u] # "unbound" /\ b.flat[u] = b.bound[u]
<1> DEFINE b == Bind(scope, s, r, p, x)
<1>1. Full(scope) => b.size = scope.size
  BY DEF Bind, Scope
<1>2. ~Full(b) => ~Full(scope)
  BY <1>1 DEF Full
<1>3. ~Full(scope) => /\ b.bound = [scope.bound EXCEPT ![s] = r]
                      /\ b.flat = [scope.flat EXCEPT ![s] = p]
  BY DEF Bind, Scope
<1>4. ASSUME ~Full(b), NEW u \in Symbol
      PROVE  \/ b.bound[u] = scope.bound[u] /\ b.flat[u] = scope.flat[u]
             \/ b.bound[u] # "unbound" /\ b.flat[u] = b.bound[u]
  <2>1. /\ b.bound = [scope.bound EXCEPT ![s] = r] /\ b.flat = [scope.flat EXCEPT ![s] = p]
        /\ p = r /\ r # "unbound"
    BY <1>2, <1>3, <1>4 DEF Regions
  <2>2. scope.bound \in [Symbol -> Regions \cup {"unbound"}] /\ scope.flat \in [Symbol -> Regions \cup {"unbound"}]
    BY DEF Scope
  <2> HIDE DEF b
  <2> QED
    BY <2>1, <2>2
<1> HIDE DEF b
<1>5. ~Full(b) => /\ ~Full(scope)
                  /\ \A u \in Symbol :
                       \/ b.bound[u] = scope.bound[u] /\ b.flat[u] = scope.flat[u]
                       \/ b.bound[u] # "unbound" /\ b.flat[u] = b.bound[u]
  BY <1>2, <1>4
<1> QED
  BY <1>5 DEF b

(* A let's scope starts from all that is visible outside it. *)
LEMMA ChildReads ==
  ASSUME ScopesInv, Copied(scopes), ~InParams, NoneFull(scopes, Len(scopes)), NEW s \in Symbol
  PROVE  LET binders == {k \in Walked : scopes[k].bound[s] # "unbound"}
         IN  Outer.flat[s] = IF binders = {} THEN "unbound" ELSE scopes[Max(binders)].bound[s]
<1> DEFINE m == Max(Walked)
<1>1. Len(scopes) \in Nat /\ Walked \in SUBSET (1..Len(scopes)) /\ 1 \in Walked
  BY DEF ScopesInv, WellFormed, Walked, InParams, Depth, Top
<1>2. m \in Walked /\ m \in 1..Len(scopes) /\ \A k \in Walked : k <= m
  BY <1>1, Extremes
<1> HIDE DEF m
<1>3. CopiedAt(scopes, m) /\ NoneFull(scopes, m)
  BY <1>1, <1>2 DEF Copied, NoneFull
<1>4. Outer.flat[s] = Reading(scopes, m, s)
  BY <1>3 DEF CopiedAt, Outer, m
<1>5. Binders(scopes, m, s) = {k \in Walked : scopes[k].bound[s] # "unbound"}
  <2>1. \A k \in 1..m : (k = m \/ ~scopes[k].open) <=> k \in Walked
    BY <1>1, <1>2 DEF Walked
  <2>2. \A k \in Walked : k \in 1..m
    BY <1>1, <1>2
  <2>3. \A k : k \in Binders(scopes, m, s) <=> k \in Walked /\ scopes[k].bound[s] # "unbound"
    <3>1. \A k : k \in Binders(scopes, m, s) <=>
                   k \in 1..m /\ (k = m \/ ~scopes[k].open) /\ scopes[k].bound[s] # "unbound"
      BY DEF Binders
    <3> QED
      BY <2>1, <2>2, <3>1
  <2> QED
    BY <2>3
<1> QED
  BY <1>4, <1>5 DEF Reading

(* So both analyzers read every name alike. *)
LEMMA ReadAlike ==
  ASSUME ScopesInv, Copied(scopes), ~InParams, NoneFull(scopes, Len(scopes))
  PROVE  PortLookup = Lookup
<1>1. ASSUME NEW s \in Symbol PROVE PortLookup[s] = Lookup[s]
  <2> DEFINE B == {k \in Walked : scopes[k].bound[s] # "unbound"}
  <2>1. Outer.flat[s] = IF B = {} THEN "unbound" ELSE scopes[Max(B)].bound[s]
    BY ChildReads
  <2>2. B # {} => scopes[Max(B)].bound[s] # "unbound"
    <3>1. Len(scopes) \in Nat /\ B \in SUBSET (1..Len(scopes))
      BY DEF ScopesInv, WellFormed, Walked
    <3>2. B # {} => Max(B) \in B
      BY <3>1, Extremes
    <3> QED
      BY <3>2
  <2>3. /\ Lookup[s] = IF B = {} THEN "none" ELSE scopes[Max(B)].bound[s]
        /\ PortLookup[s] = IF Outer.flat[s] = "unbound" THEN "none" ELSE Outer.flat[s]
    BY DEF Lookup, PortLookup
  <2> HIDE DEF B
  <2> QED
    BY <2>1, <2>2, <2>3
<1> QED
  BY <1>1 DEF PortLookup, Lookup

(* The steps of the walk: a binding made, or the bindings over. *)
LEMMA ReplaceCopies ==
  ASSUME ScopesInv, Copied(scopes), NEW new, scopes' = [scopes EXCEPT ![Depth] = new],
         NoneFull(scopes, Depth - 1) /\ ~Full(new) =>
           /\ ~Full(Top)
           /\ \A u \in Symbol :
                \/ new.bound[u] = Top.bound[u] /\ new.flat[u] = Top.flat[u]
                \/ new.bound[u] # "unbound" /\ new.flat[u] = new.bound[u]
  PROVE  Copied(scopes')
<1> DEFINE n == Len(scopes)
<1>1. n \in Nat \ {0} /\ Depth = n /\ Top = scopes[n]
  BY DEF ScopesInv, WellFormed, Depth, Top
<1>2. /\ Len(scopes') = n /\ scopes'[n] = new
      /\ \A j \in 1..n - 1 : scopes'[j] = scopes[j]
  BY <1>1 DEF ScopesInv, WellFormed
<1> HIDE DEF n
<1>3. CopiedAt(scopes', n)
  <2>1. CopiedAt(scopes, n)
    BY <1>1 DEF Copied, n
  <2>2. NoneFull(scopes', n) => ~Full(new) /\ NoneFull(scopes, Depth - 1)
    BY <1>1, <1>2 DEF NoneFull
  <2>3. NoneFull(scopes', n) =>
          /\ ~Full(scopes[n])
          /\ \A u \in Symbol :
               \/ scopes'[n].bound[u] = scopes[n].bound[u] /\ scopes'[n].flat[u] = scopes[n].flat[u]
               \/ scopes'[n].bound[u] # "unbound" /\ scopes'[n].flat[u] = scopes'[n].bound[u]
    BY <1>1, <1>2, <2>2
  <2>4. n \in Nat \ {0} /\ \A j \in 1..n - 1 : scopes'[j] = scopes[j]
    BY <1>1, <1>2
  <2> DEFINE after == scopes'
  <2>5. /\ \A j \in 1..n - 1 : after[j] = scopes[j]
        /\ NoneFull(after, n) =>
             /\ ~Full(scopes[n])
             /\ \A s \in Symbol :
                  \/ after[n].bound[s] = scopes[n].bound[s] /\ after[n].flat[s] = scopes[n].flat[s]
                  \/ after[n].bound[s] # "unbound" /\ after[n].flat[s] = after[n].bound[s]
    BY <2>3, <2>4
  <2> HIDE DEF after
  <2>6. CopiedAt(after, n)
    BY <2>1, <2>4, <2>5, TopCopied
  <2> QED
    BY <2>6 DEF after
<1>4. ASSUME NEW k \in 1..n - 1 PROVE CopiedAt(scopes', k)
  <2>1. CopiedAt(scopes, k) /\ n - 1 \in Nat
    BY <1>1, <1>4 DEF Copied, n
  <2> QED
    BY <1>2, <2>1, RestCopied
<1>5. \A k \in 1..n : k \in 1..n - 1 \/ k = n
  BY <1>1
<1> QED
  BY <1>2, <1>3, <1>4, <1>5 DEF Copied

(* A scope added copies what the one outside it sees. *)
LEMMA PushCopies ==
  ASSUME ScopesInv, Copied(scopes), ~InParams, NEW new \in Scope,
         ~Full(new) =>
           \A u \in Symbol :
             \/ new.bound[u] = "unbound" /\ new.flat[u] = Outer.flat[u]
             \/ new.bound[u] # "unbound" /\ new.flat[u] = new.bound[u]
  PROVE  Copied(Append(scopes, new))
<1> DEFINE n == Len(scopes)
           after == Append(scopes, new)
<1>1. n \in Nat \ {0}
  BY DEF ScopesInv, WellFormed
<1>2. /\ Len(after) = n + 1 /\ after[n + 1] = new
      /\ \A j \in 1..n : after[j] = scopes[j]
  BY <1>1 DEF ScopesInv, WellFormed
<1> HIDE DEF after
<1>3. ASSUME NoneFull(after, n + 1), NEW s \in Symbol
      PROVE  new.flat[s] = Reading(after, n + 1, s)
  <2>1. NoneFull(scopes, n) /\ ~Full(new)
    BY <1>1, <1>2, <1>3 DEF NoneFull
  <2>2. CASE new.bound[s] = "unbound" /\ new.flat[s] = Outer.flat[s]
    <3> DEFINE B == {k \in Walked : scopes[k].bound[s] # "unbound"}
    <3>1. Outer.flat[s] = IF B = {} THEN "unbound" ELSE scopes[Max(B)].bound[s]
      BY <2>1, ChildReads
    <3>2. Binders(after, n + 1, s) = B
      <4>1. \A k : k \in Binders(after, n + 1, s) <=>
                     k \in 1..n + 1 /\ (k = n + 1 \/ ~after[k].open) /\ after[k].bound[s] # "unbound"
        BY DEF Binders
      <4>2. \A k : k \in B <=> k \in 1..n /\ ~scopes[k].open /\ scopes[k].bound[s] # "unbound"
        BY DEF Walked, ScopesInv, WellFormed
      <4>3. \A k \in 1..n + 1 : k \in 1..n \/ k = n + 1
        BY <1>1
      <4>4. \A k \in 1..n : k \in 1..n + 1 /\ k # n + 1
        BY <1>1
      <4> HIDE DEF B, n
      <4>5. \A k : k \in Binders(after, n + 1, s) <=> k \in B
        BY <1>2, <2>2, <4>1, <4>2, <4>3, <4>4
      <4> QED
        BY <4>5
    <3>3. B # {} => Max(B) \in 1..n
      <4>1. B \in SUBSET (1..n)
        BY DEF Walked, ScopesInv, WellFormed
      <4> HIDE DEF B
      <4> QED
        BY <1>1, <4>1, Extremes
    <3> HIDE DEF B, n
    <3> QED
      BY <1>2, <2>2, <3>1, <3>2, <3>3 DEF Reading
  <2>3. CASE new.bound[s] # "unbound" /\ new.flat[s] = new.bound[s]
    <3>1. n + 1 \in Nat \ {0}
      BY <1>1
    <3>2. after[n + 1].bound[s] # "unbound" /\ new.flat[s] = after[n + 1].bound[s]
      BY <1>2, <2>3
    <3> HIDE DEF n
    <3>3. Reading(after, n + 1, s) = after[n + 1].bound[s]
      BY <3>1, <3>2, ReadingOfTop
    <3> QED
      BY <3>2, <3>3
  <2> QED
    BY <2>1, <2>2, <2>3
<1>4. ASSUME NEW k \in 1..n PROVE CopiedAt(after, k)
  <2>1. CopiedAt(scopes, k)
    BY <1>4 DEF Copied
  <2> HIDE DEF n
  <2> QED
    BY <1>1, <1>2, <2>1, RestCopied
<1> HIDE DEF n
<1>5. CopiedAt(after, n + 1)
  BY <1>2, <1>3 DEF CopiedAt
<1>6. \A k \in 1..n + 1 : k \in 1..n \/ k = n + 1
  BY <1>1
<1> QED
  BY <1>2, <1>4, <1>5, <1>6 DEF Copied, after

(* A loop's block sees what the loop's own scope copied. *)
LEMMA InnerCopies ==
  ASSUME NEW stack, WellFormed(stack), Copied(stack), NEW n, n = Len(stack), ~stack[n].open,
         NEW new \in Scope, new.flat = stack[n].flat,
         \A u \in Symbol : new.bound[u] = "unbound"
  PROVE  Copied(Append(stack, new))
<1> DEFINE after == Append(stack, new)
<1>1. /\ n \in Nat \ {0} /\ Len(after) = n + 1 /\ after[n + 1] = new
      /\ \A j \in 1..n : after[j] = stack[j]
  BY DEF WellFormed
<1> HIDE DEF after
<1>2. ASSUME NoneFull(after, n + 1), NEW s \in Symbol
      PROVE  new.flat[s] = Reading(after, n + 1, s)
  <2>1. NoneFull(stack, n) /\ CopiedAt(stack, n)
    BY <1>1, <1>2 DEF NoneFull, Copied
  <2>2. Binders(after, n + 1, s) = Binders(stack, n, s)
    <3>1. \A k \in 1..n + 1 : k \in 1..n \/ k = n + 1
      BY <1>1
    <3>2. \A k \in 1..n : k \in 1..n + 1 /\ k # n + 1
      BY <1>1
    <3>3. \A k : k \in Binders(after, n + 1, s) <=> k \in Binders(stack, n, s)
      BY <1>1, <3>1, <3>2 DEF Binders
    <3> QED
      BY <3>3
  <2>3. Binders(stack, n, s) # {} => Max(Binders(stack, n, s)) \in 1..n
    <3>1. Binders(stack, n, s) \in SUBSET (1..n)
      BY DEF Binders
    <3> QED
      BY <1>1, <3>1, Extremes
  <2>4. Reading(after, n + 1, s) = Reading(stack, n, s)
    BY <1>1, <2>2, <2>3 DEF Reading
  <2> QED
    BY <2>1, <2>4 DEF CopiedAt
<1>3. ASSUME NEW k \in 1..n PROVE CopiedAt(after, k)
  <2>1. CopiedAt(stack, k)
    BY DEF Copied
  <2> QED
    BY <1>1, <2>1, RestCopied
<1>4. CopiedAt(after, n + 1)
  BY <1>1, <1>2 DEF CopiedAt
<1>5. \A k \in 1..n + 1 : k \in 1..n \/ k = n + 1
  BY <1>1
<1> QED
  BY <1>1, <1>3, <1>4, <1>5 DEF Copied, after

(* A form dropped leaves the others as they were, but for C names and a binding. *)
LEMMA PopCopies ==
  ASSUME ScopesInv, Copied(scopes), NEW s \in Bindable, Leave(s)
  PROVE  Copied(scopes')
<1> DEFINE n == Len(scopes) - 1
           b == Bind(Ended[n], s, "none", "none", "none")
<1>1. /\ n > 0 /\ s \in Symbol /\ "none" \in Regions
      /\ scopes' = IF Ended[n].open THEN [Ended EXCEPT ![n] = b] ELSE Ended
  BY LeaveTypes DEF Bindable, Regions
<1>2. /\ n \in Nat \ {0} /\ Ended \in Seq(Scope) /\ Len(Ended) = n
      /\ \A k \in 1..n - 1 : Ended[k] = scopes[k]
      /\ Ended[n] \in Scope /\ Ended[n].size = scopes[n].size
      /\ Ended[n].bound = scopes[n].bound /\ Ended[n].flat = scopes[n].flat
  BY <1>1, EndedTypes DEF WellFormed
<1>3. ~Full(b) => /\ ~Full(Ended[n])
                  /\ \A u \in Symbol :
                       \/ b.bound[u] = Ended[n].bound[u] /\ b.flat[u] = Ended[n].flat[u]
                       \/ b.bound[u] # "unbound" /\ b.flat[u] = b.bound[u]
  BY <1>1, <1>2, BindCopies
<1>4. \A k \in 1..n : CopiedAt(scopes, k)
  BY <1>2 DEF Copied
<1> HIDE DEF n, b
<1>5. /\ Len(scopes') = n /\ scopes'[n] \in {b, Ended[n]}
      /\ \A k \in 1..n - 1 : scopes'[k] = scopes[k]
  BY <1>1, <1>2
<1>6. ~Full(scopes'[n]) =>
        /\ ~Full(scopes[n])
        /\ \A u \in Symbol :
             \/ scopes'[n].bound[u] = scopes[n].bound[u] /\ scopes'[n].flat[u] = scopes[n].flat[u]
             \/ scopes'[n].bound[u] # "unbound" /\ scopes'[n].flat[u] = scopes'[n].bound[u]
  BY <1>2, <1>3, <1>5 DEF Full
<1>7. CopiedAt(scopes', n)
  <2>1. NoneFull(scopes', n) => ~Full(scopes'[n])
    BY <1>2 DEF NoneFull
  <2> QED
    BY <1>2, <1>4, <1>5, <1>6, <2>1, TopCopied
<1>8. ASSUME NEW k \in 1..n - 1 PROVE CopiedAt(scopes', k)
  <2>1. CopiedAt(scopes, k) /\ n - 1 \in Nat
    BY <1>2, <1>4
  <2> QED
    BY <1>5, <2>1, RestCopied
<1>9. \A k \in 1..n : k \in 1..n - 1 \/ k = n
  BY <1>2
<1> QED
  BY <1>5, <1>7, <1>8, <1>9 DEF Copied

(* A function starts with two empty readings. *)
LEMMA EmptyCopied == Copied(<<EmptyScope>>)
<1> DEFINE stack == <<EmptyScope>>
<1>1. Len(stack) = 1 /\ stack[1] = EmptyScope
  OBVIOUS
<1> HIDE DEF stack
<1>2. \A s \in Symbol : EmptyScope.bound[s] = "unbound" /\ EmptyScope.flat[s] = "unbound"
  BY DEF EmptyScope, NewScope
<1>3. ASSUME NEW s \in Symbol PROVE Reading(stack, 1, s) = "unbound"
  <2>1. Binders(stack, 1, s) = {}
    BY <1>1, <1>2 DEF Binders
  <2> QED
    BY <2>1 DEF Reading
<1>4. CopiedAt(stack, 1)
  BY <1>1, <1>2, <1>3 DEF CopiedAt
<1> QED
  BY <1>1, <1>4 DEF Copied, stack

(* Every step keeps the copies true. *)
LEMMA NextCopies == TypeInv /\ CopyInv /\ [Next]_vars => CopyInv'
<1> SUFFICES ASSUME TypeInv, Copied(scopes), [Next]_vars PROVE Copied(scopes')
  BY DEF CopyInv
<1>0. /\ ScopesInv /\ Len(scopes) \in Nat \ {0} /\ Depth = Len(scopes)
      /\ Top = scopes[Len(scopes)] /\ Top \in Scope /\ "none" \in Regions
  <2>1. ScopesInv /\ Len(scopes) \in Nat \ {0} /\ Depth = Len(scopes) /\ Top = scopes[Len(scopes)]
    BY DEF TypeInv, ScopesInv, WellFormed, Depth, Top
  <2> QED
    BY <2>1, ScopeTypes DEF Regions
<1>1. ASSUME NEW s \in Symbol, NEW r \in Regions, NEW p \in Regions, NEW x \in Regions,
             ~Full(Bind(Top, s, r, p, x)) => p = r,
             scopes' = [scopes EXCEPT ![Depth] = Bind(Top, s, r, p, x)]
      PROVE  Copied(scopes')
  <2> DEFINE b == Bind(Top, s, r, p, x)
  <2>1. ~Full(b) => /\ ~Full(Top)
                    /\ \A u \in Symbol :
                         \/ b.bound[u] = Top.bound[u] /\ b.flat[u] = Top.flat[u]
                         \/ b.bound[u] # "unbound" /\ b.flat[u] = b.bound[u]
    BY <1>0, <1>1, BindCopies
  <2> HIDE DEF b
  <2> QED
    BY <1>0, <1>1, <2>1, ReplaceCopies DEF b
<1>2. ASSUME NEW s \in Bindable, NEW r \in Regions, Param(s, r) PROVE Copied(scopes')
  <2>1. scopes' = [scopes EXCEPT ![Depth] = Bind(Top, s, r, r, r)] /\ s \in Symbol
    BY <1>2 DEF Param, InParams, Top, Bindable
  <2> QED
    BY <1>1, <2>1
<1>3. ASSUME ~InParams, NEW kind \in {"block", "let", "loop"}, NEW open \in BOOLEAN, NEW local \in Locals
      PROVE  Copied(Append(scopes, ChildScope(kind, open, local)))
  <2> DEFINE new == ChildScope(kind, open, local)
  <2>1. Blank(new) /\ new.flat = Outer.flat
    BY <1>0, <1>3, ChildTypes
  <2> HIDE DEF new
  <2>2. Copied(Append(scopes, new))
    BY <1>0, <1>3, <2>1, PushCopies DEF Blank
  <2> QED
    BY <2>2 DEF new
<1>10. ASSUME NEW s \in Bindable, NEW r \in Regions, WithArena(s, r) PROVE Copied(scopes')
  <2> DEFINE arena == ChildScope("block", FALSE, NoneDeclared)
             b == Bind(arena, s, r, r, r)
  <2>1. ~InParams /\ s \in Symbol /\ scopes' = Append(scopes, b)
    BY <1>10 DEF WithArena, InBody, InParams, Bindable
  <2>2. Blank(arena) /\ arena.flat = Outer.flat
    BY <1>0, <2>1, BlockTypes
  <2> HIDE DEF arena
  <2>3. b \in Scope
    BY <2>1, <2>2, BindTypes DEF Blank
  <2>4. ~Full(b) => \A u \in Symbol :
                      \/ b.bound[u] = arena.bound[u] /\ b.flat[u] = arena.flat[u]
                      \/ b.bound[u] # "unbound" /\ b.flat[u] = b.bound[u]
    BY <2>1, <2>2, BindCopies DEF Blank
  <2> HIDE DEF b
  <2>5. ~Full(b) => \A u \in Symbol :
                      \/ b.bound[u] = "unbound" /\ b.flat[u] = Outer.flat[u]
                      \/ b.bound[u] # "unbound" /\ b.flat[u] = b.bound[u]
    BY <2>2, <2>4 DEF Blank
  <2> QED
    BY <1>0, <2>1, <2>3, <2>5, PushCopies
<1>4. CASE Body
  <2> DEFINE new == [Top EXCEPT !.open = FALSE]
  <2>1. scopes' = [scopes EXCEPT ![Depth] = new]
    BY <1>0, <1>4 DEF Body, Top
  <2>2. new.bound = Top.bound /\ new.flat = Top.flat /\ new.size = Top.size
    BY <1>0 DEF Scope
  <2> HIDE DEF new
  <2> QED
    BY <1>0, <2>1, <2>2, ReplaceCopies DEF Full
<1>5. CASE Let
  BY <1>3, <1>5, EmptyTypes DEF Let, InBody, InParams
<1>11. ASSUME NEW p \in Patterns, Clause(p) PROVE Copied(scopes')
  <2>1. ~InParams /\ scopes' = Append(scopes, ChildScope("block", FALSE, PatternLocals(p)))
    BY <1>11 DEF Clause, PatternLocals
  <2> QED
    BY <1>3, <2>1, PatternTypes
<1>12. ASSUME NEW s \in Bindable, NEW d \in Usable, NEW q \in Sources, NEW alloc \in BOOLEAN,
              Loop(s, d, q, alloc)
       PROVE  Copied(scopes')
  <2>1. PICK real \in Regions :
          /\ ~InParams /\ VariableLocals(s, real) \in Locals
          /\ scopes' = Append(Append(scopes, ChildScope("loop", FALSE, VariableLocals(s, real))),
                              ChildScope("block", FALSE, NoneDeclared))
    BY <1>0, <1>12, LoopTypes
  <2> DEFINE loop == ChildScope("loop", FALSE, VariableLocals(s, real))
             block == ChildScope("block", FALSE, NoneDeclared)
             outer == Append(scopes, loop)
  <2>2. Copied(outer)
    BY <1>3, <2>1
  <2>3. Blank(loop) /\ loop.flat = Outer.flat /\ loop.open = FALSE
    BY <1>0, <2>1, ChildTypes
  <2>4. Blank(block) /\ block.flat = Outer.flat
    BY <1>0, <2>1, BlockTypes
  <2>5. scopes' = Append(outer, block)
    BY <2>1
  <2> HIDE DEF loop, block
  <2>6. WellFormed(outer) /\ outer[Len(outer)] = loop
    BY <1>0, <2>1, <2>3, PushTypes DEF Blank, InParams, ScopesInv, WellFormed
  <2> HIDE DEF outer
  <2>7. Copied(Append(outer, block))
    BY <2>2, <2>3, <2>4, <2>6, InnerCopies DEF Blank
  <2> QED
    BY <2>5, <2>7
<1>6. CASE NextDefn
  <2>1. scopes' = <<EmptyScope>>
    BY <1>6 DEF NextDefn, BaseScope
  <2> QED
    BY <2>1, EmptyCopied
<1>7. ASSUME NEW s \in Bindable, Leave(s) PROVE Copied(scopes')
  BY <1>0, <1>7, PopCopies
<1>8. ASSUME NEW s \in Bindable, NEW d \in Usable, NEW q \in Sources,
             BindCall(s, d, q) \/ BindAlloc(s, d, q)
      PROVE  Copied(scopes')
  <2>1. ~InParams /\ s \in Symbol /\ d \in Symbol
    BY <1>8 DEF BindCall, BindAlloc, InBindings, InParams, Bindable, Usable
  <2>2. Lookup[d] \in Regions /\ PortLookup[d] \in Regions /\ Denotes({s.name})[d] \in Regions
    BY <1>0, <2>1, LookupTypes, DenotesTypes, OuterTypes
  <2>3. CASE scopes' = scopes
    BY <2>3
  <2>4. CASE scopes' = [scopes EXCEPT ![Depth] = Bind(Top, s, "none", "none", "none")]
    BY <1>0, <1>1, <2>1, <2>4
  <2>5. CASE scopes' = [scopes EXCEPT ![Depth] = Bind(Top, s, Lookup[d], PortLookup[d], Denotes({s.name})[d])]
    <3> DEFINE b == Bind(Top, s, Lookup[d], PortLookup[d], Denotes({s.name})[d])
    <3>1. ~Full(b) => ~Full(Top)
      BY <1>0 DEF Bind, Scope, Full
    <3> HIDE DEF b
    <3>2. CASE NoneFull(scopes, Depth - 1)
      <4>1. ~Full(Top) => NoneFull(scopes, Len(scopes))
        BY <1>0, <3>2 DEF NoneFull
      <4>2. ~Full(b) => PortLookup[d] = Lookup[d]
        BY <1>0, <2>1, <3>1, <4>1, ReadAlike
      <4> QED
        BY <1>1, <2>1, <2>2, <2>5, <4>2 DEF b
    <3>3. CASE ~NoneFull(scopes, Depth - 1)
      BY <1>0, <2>5, <3>3, ReplaceCopies
    <3> QED
      BY <3>2, <3>3
  <2> QED
    BY <1>0, <1>8, <2>3, <2>4, <2>5 DEF BindCall, BindAlloc, Top
<1>9. CASE UNCHANGED scopes
  BY <1>9
<1> QED
  BY <1>2, <1>4, <1>5, <1>6, <1>7, <1>8, <1>9, <1>10, <1>11, <1>12 DEF Next, vars, Call, NoCall

(* The port gives the verdicts of the analyzer it was ported from, for every
   program, in every spelling, until a table is full. *)
THEOREM PortFollows == Spec => PortAgrees
<1>1. Init => CopyInv
  BY EmptyCopied DEF Init, CopyInv
<1>2. TypeInv /\ CopyInv /\ [Next]_vars
        => [/\ \A k \in DOMAIN scopes : ~Full(scopes[k])
            /\ portVerdict = verdict
            => portVerdict' = verdict']_vars
  <2> SUFFICES ASSUME TypeInv, CopyInv, Next,
                      \A k \in DOMAIN scopes : ~Full(scopes[k]), portVerdict = verdict
               PROVE  portVerdict' = verdict'
    BY DEF vars
  <2>1. ScopesInv /\ NoneFull(scopes, Len(scopes))
    BY DEF TypeInv, ScopesInv, WellFormed, NoneFull
  <2>2. ~InParams => PortLookup = Lookup
    BY <2>1, ReadAlike DEF CopyInv
  <2>3. ASSUME NEW d, NEW q, NEW own, ~InParams, Judge(d, q, own) PROVE portVerdict' = verdict'
    BY <2>2, <2>3 DEF Judge
  <2>4. ASSUME NEW d, NEW q, ~InParams, Misread(d, q) PROVE portVerdict' = verdict'
    BY <2>2, <2>4 DEF Misread
  <2>5. ASSUME NEW d, NEW q, Call(d, q) \/ NoCall(d, q) PROVE portVerdict' = verdict'
    BY <2>3, <2>4, <2>5 DEF Call, NoCall, InBody, InParams
  <2>6. ASSUME NEW s, NEW d, NEW q, NEW alloc,
               BindCall(s, d, q) \/ BindAlloc(s, d, q) \/ Loop(s, d, q, alloc)
        PROVE  portVerdict' = verdict'
    <3>1. ~InParams
      <4>1. InBindings => ~InParams
        BY DEF InBindings, InParams
      <4>2. InBindings \/ ~InParams
        BY <2>6 DEF BindCall, BindAlloc, Loop
      <4> QED
        BY <4>1, <4>2
    <3>2. Judge(d, q, {s.name})
      BY <2>6 DEF BindCall, BindAlloc, Loop
    <3> QED
      BY <2>3, <3>1, <3>2
  <2>7. ASSUME NEW p, Clause(p) PROVE portVerdict' = verdict'
    BY <2>4, <2>7 DEF Clause
  <2>8. CASE UNCHANGED <<verdict, portVerdict>>
    BY <2>8
  <2> QED
    BY <2>5, <2>6, <2>7, <2>8 DEF Next, Param, WithArena, Body, Let, NextDefn, Leave
<1> QED
  BY <1>1, <1>2, NextCopies, TypeInvariance, PTL DEF Spec, PortAgrees

=============================================================================
