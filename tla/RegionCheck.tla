--------------------------- MODULE RegionCheck ---------------------------
(* The region analyzer of the PARENA compiler: src/region.c, its port      *)
(* selfhost/region.prn, and the C declarations and blocks src/emit.c       *)
(* writes, which decide what a name of an accepted program denotes.        *)
(*                                                                         *)
(* The analyzer is one depth-first walk of a function's forms.  The walk   *)
(* is the behaviour: each step is the next form of the program, chosen     *)
(* among all forms, so the behaviours are the walks of all programs up to  *)
(* the bounds.  A binding carries its region keyword, which determines its *)
(* rank; values that do not come straight from an alloc are unconstrained, *)
(* in the analyzer and in the notion of escape used here, as region.c says *)
(* at 176-179.  What a call does with its arguments is the analyzer's own  *)
(* convention: the first is the destination, the others are stored in it.  *)
(* Every name may also be a top-level def, so the emitter knows them all   *)
(* and never refuses one; what C makes of the text is the model's matter.  *)
EXTENDS Integers, SequencesExt

CONSTANTS
    Names,          \* identifiers, without sigils
    Spellings,      \* how a program may write a name it refers to
    Liberties,      \* what a program may do: see Orderly
    MaxBindings,    \* MAX_BINDINGS of region.c, 64 in the code
    MaxDepth,       \* bound: scopes inside a function
    MaxForms        \* bound: forms and bindings of a function

ASSUME RegionAssumption ==
    /\ Spellings \subseteq {"plain", "bang", "ref"}
    /\ Liberties \subseteq
         {"early", "ended", "hidden", "carried", "uncalled", "overflow"}
    /\ MaxBindings \in Nat /\ MaxDepth \in Nat /\ MaxForms \in Nat

VARIABLES
    scopes,     \* the forms the walk is inside of, innermost last
    forms,      \* forms walked so far
    truth,      \* what the last call does in the emitted program
    verdict,    \* what src/region.c says of the forms so far
    portVerdict \* what selfhost/region.prn says of them

vars == <<scopes, forms, truth, verdict, portVerdict>>

-----------------------------------------------------------------------------
\* Any other keyword is "other"; no keyword, or no region, is "none".
Regions == {"scratch", "buffer", "other", "none"}

\* region_rank_for
Rank(r) == CASE r = "scratch" -> 0 [] r = "buffer" -> 2 [] OTHER -> -1

\* A name as written: "bang" is !name, "ref" is &name.
Symbol == [name : Names, as : Spellings \cup {"plain"}]
Bindable == {s \in Symbol : s.as # "ref"}

\* A form with names of its own.  "bound" is the analyzer's Scope, the symbols
\* as they were written; "flat" the port's copied vector of all bindings;
\* "open" says whether the walk is among a let's bindings.  "local" holds the
\* names the form declares in the C text (where a leading ! is dropped), with
\* the regions of their values.  Only a "block" has braces of its own: a let
\* and the variables of a loop are declared straight in the C block around
\* them, so a let's names outlive it: those of "local" whose let or loop is
\* over are "ended".
Scope == [bound : [Symbol -> Regions \cup {"unbound"}], size : Nat,
          flat : [Symbol -> Regions \cup {"unbound"}], open : BOOLEAN,
          kind : {"block", "let", "loop"},
          local : [Names -> Regions \cup {"unbound"}], ended : SUBSET Names]

Accepted == [from |-> "none", to |-> "none"]
Verdicts == [from : Regions, to : Regions]

\* A let's expressions are walked under the scope outside it, until its body.
Walked == {k \in DOMAIN scopes : ~scopes[k].open}

\* The scope an expression met now is looked up in by the port.
Outer == scopes[Max(Walked)]

\* A mutant: the scopes of the chain are searched outermost first.
LookupOutermost ==
    [s \in Symbol |->
       LET binders == {k \in Walked : scopes[k].bound[s] # "unbound"}
       IN  IF binders = {} THEN "none" ELSE scopes[Min(binders)].bound[s]]

\* scope_lookup of region.c: exact spelling, innermost walked scope first.
Lookup ==
    [s \in Symbol |->
       LET binders == {k \in Walked : scopes[k].bound[s] # "unbound"}
       IN  IF binders = {} THEN "none" ELSE scopes[Max(binders)].bound[s]]

\* scope-lookup of region.prn: the last binding pushed.
PortLookup ==
    [s \in Symbol |-> IF Outer.flat[s] = "unbound" THEN "none" ELSE Outer.flat[s]]

Declaring(n) == {k \in DOMAIN scopes : scopes[k].local[n] # "unbound"}

\* What the emitted C denotes: the innermost declaration made so far, any
\* spelling.  The initializer of one of "own" sees it not yet initialized.
Denotes(own) ==
    [s \in Symbol |->
       IF Declaring(s.name) = {} \/ s.name \in own THEN "none"
       ELSE scopes[Max(Declaring(s.name))].local[s.name]]

\* check_call_escape, under one reading of the names: the first source of
\* a lower known rank than the destination's is reported.
Escape(dest, sources, region) ==
    LET bad == {i \in DOMAIN sources :
                  /\ Rank(region[sources[i]]) >= 0
                  /\ Rank(region[sources[i]]) < Rank(region[dest])}
    IN  IF bad = {} THEN Accepted
        ELSE [from |-> region[sources[Min(bad)]], to |-> region[dest]]

-----------------------------------------------------------------------------
\* What a form begins with: names declared in C, but nothing bound yet.
NewScope(kind, open, local, flat) ==
    [bound |-> [s \in Symbol |-> "unbound"], size |-> 0, flat |-> flat,
     open |-> open, kind |-> kind, local |-> local, ended |-> {}]

NoneDeclared == [n \in Names |-> "unbound"]

EmptyScope == NewScope("block", TRUE, NoneDeclared, [s \in Symbol |-> "unbound"])

\* A mutant: the parameters of the function before are still there.
BaseScopeReused == [EmptyScope EXCEPT !.bound = scopes[1].bound]

\* A function starts in a scope of its own, whose parameters come first.
BaseScope == EmptyScope

\* A mutant: the port starts a child scope from an empty vector.
ChildScopeForgets(kind, open, local) ==
    NewScope(kind, open, local, [s \in Symbol |-> "unbound"])

\* scope_init with a parent; the port copies all that is visible outside.
ChildScope(kind, open, local) == NewScope(kind, open, local, Outer.flat)

\* scope_bind of region.c: no binding beyond the table, and no error.
Full(scope) == scope.size >= MaxBindings

\* One binding, of which the analyzer, the port (it has no table) and the
\* emitted program may each know another region.  The C declaration is made
\* whatever the tables hold.
Bind(scope, s, region, portRegion, real) ==
    [scope EXCEPT
       !.bound = IF Full(scope) THEN @ ELSE [@ EXCEPT ![s] = region],
       !.size  = IF Full(scope) THEN @ ELSE @ + 1,
       !.flat  = [@ EXCEPT ![s] = portRegion],
       !.local = [@ EXCEPT ![s.name] = real]]

Depth == Len(scopes)
Top == scopes[Depth]
InParams == Depth = 1 /\ Top.open
InBindings == Depth > 1 /\ Top.open
InBody == ~Top.open /\ Top.kind # "loop"

-----------------------------------------------------------------------------
\* What Liberties lets a program do.  Without "early", an expression uses no
\* name of the let that is still binding its names, nor the name it is the
\* value of; without "ended", none whose let or loop is over; without
\* "hidden", no clause or loop reuses a name the analyzer knows; without
\* "carried", no loop starts from an alloc; without "uncalled", no form that
\* only looks like a call would be an escape if it were one; without
\* "overflow", no form binds more names than its table holds.
Orderly(liberty, condition) == liberty \in Liberties \/ condition

\* Names an expression may refer to.
Usable ==
    {s \in Symbol : Declaring(s.name) # {} =>
       LET scope == scopes[Max(Declaring(s.name))]
       IN  IF s.name \in scope.ended THEN Orderly("ended", FALSE)
           ELSE Orderly("early", ~scope.open)}

\* The value of s may be such a call.
Initializes(s, dest, sources) ==
    Orderly("early", s.name \notin {dest.name} \cup {q.name : q \in ToSet(sources)})

\* Does an analyzer's binding have this name?
Known(n) == \E k \in Walked, s \in Symbol :
               s.name = n /\ scopes[k].bound[s] # "unbound"

\* C refuses a second declaration in one block.
Fresh(stack, n) ==
    \A k \in DOMAIN stack :
      (\A i \in (k + 1)..Len(stack) : stack[i].kind # "block")
      => stack[k].local[n] = "unbound"

\* The innermost form may bind s next.
MayBind(stack, s) ==
    /\ Fresh(stack, s.name)
    /\ Orderly("overflow", ~Full(Last(stack)))

\* Up to two sources (bound): enough for the second to be the first to escape.
Sources == UNION {[1..n -> Usable] : n \in 0..2}

\* The names of a match pattern, at most two (bound).
Patterns == {p \in UNION {[1..n -> Bindable] : n \in 0..2} :
               \A i, j \in DOMAIN p : p[i].name = p[j].name => i = j}

\* The call (f dest sources...), judged by both analyzers and by the program.
Judge(dest, sources, own) ==
    /\ verdict' = Escape(dest, sources, Lookup)
    /\ portVerdict' = Escape(dest, sources, PortLookup)
    /\ truth' = Escape(dest, sources, Denotes(own))

\* (w dest sources...) is no call, but the analyzers take it for one.
Misread(dest, sources) ==
    /\ Orderly("uncalled", Escape(dest, sources, Lookup) = Accepted)
    /\ verdict' = Escape(dest, sources, Lookup)
    /\ portVerdict' = Escape(dest, sources, PortLookup)
    /\ truth' = Accepted

Walk == forms < MaxForms /\ forms' = forms + 1

-----------------------------------------------------------------------------
Init ==
    /\ scopes = <<EmptyScope>>
    /\ forms = 0
    /\ verdict = Accepted /\ portVerdict = Accepted /\ truth = Accepted

\* analyze_defn: one parameter, with or without a region.
Param(s, r) ==
    /\ InParams /\ Walk /\ MayBind(scopes, s)
    /\ scopes' = [scopes EXCEPT ![1] = Bind(@, s, r, r, r)]
    /\ UNCHANGED <<verdict, portVerdict, truth>>

\* The parameters, or a let's bindings, are over; its body is next.
Body ==
    /\ Top.open
    /\ scopes' = [scopes EXCEPT ![Depth].open = FALSE]
    /\ UNCHANGED <<forms, verdict, portVerdict, truth>>

\* walk_with_arena: its one binding is made at once, in a C block.
WithArena(s, r) ==
    /\ InBody /\ Depth < MaxDepth /\ Walk
    /\ LET scope == ChildScope("block", FALSE, NoneDeclared)
       IN  /\ MayBind(Append(scopes, scope), s)
           /\ scopes' = Append(scopes, Bind(scope, s, r, r, r))
    /\ UNCHANGED <<verdict, portVerdict, truth>>

\* walk_let: a scope whose bindings are not visible to its own expressions.
\* The emitter takes a let in a body only.
Let ==
    /\ InBody /\ Depth < MaxDepth /\ Walk
    /\ scopes' = Append(scopes, ChildScope("let", TRUE, NoneDeclared))
    /\ UNCHANGED <<verdict, portVerdict, truth>>

\* A let binds s to (alloc arena Type values...): the expression is walked
\* as a call first, then the binding takes the arena's region (alloc_rank).
BindAlloc(s, arena, values) ==
    /\ InBindings /\ Walk
    /\ arena \in Bindable       \* the emitter refuses (alloc &arena ...)
    /\ MayBind(scopes, s) /\ Initializes(s, arena, values)
    /\ Judge(arena, values, {s.name})
    /\ scopes' = IF verdict' = Accepted
                 THEN [scopes EXCEPT ![Depth] =
                         Bind(@, s, Lookup[arena], PortLookup[arena],
                              Denotes({s.name})[arena])]
                 ELSE scopes

\* A let binds s to any other call, or to a literal: no region is known.
BindCall(s, dest, sources) ==
    /\ InBindings /\ Walk
    /\ MayBind(scopes, s) /\ Initializes(s, dest, sources)
    /\ Judge(dest, sources, {s.name})
    /\ scopes' = IF verdict' = Accepted
                 THEN [scopes EXCEPT ![Depth] = Bind(@, s, "none", "none", "none")]
                 ELSE scopes

\* A call in a body.  A nested call in its arguments is one more of these.
Call(dest, sources) ==
    /\ InBody /\ Walk
    /\ Judge(dest, sources, {})
    /\ UNCHANGED scopes

\* An if, a do or a recur whose operands are names.
NoCall(dest, sources) ==
    /\ InBody /\ Walk
    /\ Misread(dest, sources)
    /\ UNCHANGED scopes

\* A clause of a match, in a body or as a let's value: a C block with the names
\* of its pattern, which the analyzers walk as a call.  With no names it is
\* also the branch of an if.
Clause(p) ==
    /\ ~InParams /\ Top.kind # "loop" /\ Depth < MaxDepth /\ Walk
    /\ \A i \in DOMAIN p : Orderly("hidden", ~Known(p[i].name))
    /\ IF p = <<>> THEN UNCHANGED <<verdict, portVerdict, truth>>
       ELSE Misread(Head(p), Tail(p))
    /\ scopes' = Append(scopes, ChildScope("block", FALSE,
                    [n \in Names |-> IF \E i \in DOMAIN p : p[i].name = n
                                     THEN "none" ELSE "unbound"]))

\* A loop, in a body or as a let's value: its variable (one, a bound) starts
\* from a call, and its body is the C block of a while.
Loop(s, dest, sources, alloc) ==
    /\ ~InParams /\ Top.kind # "loop" /\ Depth + 1 < MaxDepth /\ Walk
    /\ Fresh(scopes, s.name) /\ Initializes(s, dest, sources)
    /\ Orderly("hidden", ~Known(s.name))
    /\ alloc => dest \in Bindable /\ Orderly("carried", FALSE)
    /\ Judge(dest, sources, {s.name})
    /\ LET real == IF alloc THEN Denotes({s.name})[dest] ELSE "none"
           variable == [n \in Names |-> IF n = s.name THEN real ELSE "unbound"]
       IN  scopes' = scopes \o <<ChildScope("loop", FALSE, variable),
                                 ChildScope("block", FALSE, NoneDeclared)>>

\* The innermost form is over.  The C names of a block go with it, those of a
\* let or a loop stay declared in the block around it.
Ended ==
    IF Top.kind = "block" THEN Front(scopes)
    ELSE [Front(scopes) EXCEPT
            ![Depth - 1].local = [n \in Names |-> IF Top.local[n] = "unbound"
                                                  THEN @[n] ELSE Top.local[n]],
            ![Depth - 1].ended = @ \cup {n \in Names : Top.local[n] # "unbound"}]

\* The end of a with-arena, a let, a clause, or a loop, whose block goes first.
\* After a match or a loop that was a let's value, that let binds s to the
\* value, whose region is not known.
Leave(s) ==
    /\ ~Top.open /\ Depth > 1
    /\ IF Last(Ended).open
       THEN /\ MayBind(Ended, s)
            /\ scopes' = [Ended EXCEPT ![Depth - 1] =
                             Bind(@, s, "none", "none", "none")]
       ELSE scopes' = Ended
    /\ UNCHANGED <<forms, verdict, portVerdict, truth>>

\* region_analyze: the next function of the program.
NextDefn ==
    /\ InBody /\ Depth = 1
    /\ scopes' = <<BaseScope>>
    /\ forms' = 0
    /\ UNCHANGED <<verdict, portVerdict, truth>>

\* The walk stops at the first error.
Next ==
    /\ verdict = Accepted
    /\ \/ \E s \in Bindable, r \in Regions : Param(s, r) \/ WithArena(s, r)
       \/ Body \/ Let \/ NextDefn
       \/ \E s \in Bindable : Leave(s)
       \/ \E p \in Patterns : Clause(p)
       \/ \E d \in Usable, q \in Sources : Call(d, q) \/ NoCall(d, q)
       \/ \E s \in Bindable, d \in Usable, q \in Sources :
            \/ BindCall(s, d, q) \/ BindAlloc(s, d, q)
            \/ \E alloc \in BOOLEAN : Loop(s, d, q, alloc)

Spec == Init /\ [][Next]_vars

-----------------------------------------------------------------------------
\* Scopes never hold more bindings than their table, and every binding and
\* every verdict names a region (scope_bind, fmt_error).
TypeOK ==
    /\ scopes \in Seq(Scope) /\ Depth > 0
    /\ \A k \in DOMAIN scopes : scopes[k].size <= MaxBindings
    /\ forms \in 0..MaxForms
    /\ verdict \in Verdicts /\ portVerdict \in Verdicts /\ truth \in Verdicts

\* The assignment invariant (NORTHSTAR.md, "Memory model"): a program the
\* analyzer accepts never stores a shorter-lived value, as the emitted C
\* resolves the names, in a longer-lived place (check_call_escape).
AcceptedIsSafe == truth # Accepted => verdict # Accepted

\* What the analyzer rejects is an escape of the emitted program, between
\* the two regions its message names.
ReportsRealEscapes == verdict # Accepted => truth = verdict

\* selfhost/region.prn gives the verdicts of the src/region.c it ports: the two
\* never part while no table is full (the port's vector never is).
PortAgrees ==
    [][/\ \A k \in DOMAIN scopes : ~Full(scopes[k])
       /\ portVerdict = verdict
       => portVerdict' = verdict']_vars
=============================================================================
