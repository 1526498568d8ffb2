----------------------------- MODULE PrnReader -----------------------------
(***************************************************************************)
(* The compiler's front end on one file: `parena fmt -w` may rewrite the   *)
(* file, once or again (src/main.c, src/fmt.c), then src/parser.c nests    *)
(* the tokens of src/lexer.c into lists, vectors and maps.                 *)
(* The parser's mutual recursion (parse_form, parse_compound) is its call  *)
(* stack: one frame per form that is still open, the program at the        *)
(* bottom.  Every step reads one token.  Of an error the line is kept.     *)
(*                                                                         *)
(* The formatter reads line by line, the reader the whole text: the        *)
(* properties ask whether the two agree on what the text is.               *)
(***************************************************************************)
EXTENDS PrnFmt

CONSTANTS
  Alphabet,   \* the characters a source is written in
  Sources     \* the source texts under study

ASSUME SourcesAssumption ==
  {Space, "\n"} \subseteq Alphabet /\ Sources \subseteq Seq(Alphabet)

VARIABLES
  src,      \* the text being read
  pos,      \* Lexer.pos, counted from 1
  stack,    \* the frames of parse_compound, the program first
  verdict   \* what parse_program returns: no answer yet, the tree, an error

readVars == <<src, pos, stack, verdict>>

-----------------------------------------------------------------------------
Frame(open, line) == [open |-> open, line |-> line, kids |-> <<>>]
Reading == [state |-> "reading", line |-> 0]

\* the text is at rest: nothing of it has been read
AtStart == /\ pos = 1
           /\ stack = <<Frame("program", 1)>>
           /\ verdict = Reading

ReadInit == src \in Sources /\ AtStart

Here == SkipBlank(src, pos)
Tok  == TokenAt(src, Here)
Top  == Last(stack)

Answer(state, line) == verdict' = [state |-> state, line |-> line]

\* node_push_child on the innermost form of st
PushChild(st, node) == [st EXCEPT ![Len(st)].kids = Append(@, node)]

\* parse_compound opens a form
OpenForm ==
  /\ verdict = Reading
  /\ Tok.kind \in Openings
  /\ stack' = Append(stack, Frame(Tok.kind, LineOf(src, Here)))
  /\ pos' = Tok.next
  /\ UNCHANGED <<src, verdict>>

CloseFormAnyKind ==   \* mutant: any closer closes any form
  /\ verdict = Reading
  /\ Top.open \in Openings
  /\ Tok.kind \in Closings
  /\ stack' = PushChild(Front(stack), [open |-> Top.open, kids |-> Top.kids])
  /\ pos' = Tok.next
  /\ UNCHANGED <<src, verdict>>

\* ... and closes it when the token is the form's own closer
CloseForm ==
  /\ verdict = Reading
  /\ Top.open \in Openings
  /\ Tok.kind = Closers[Top.open]
  /\ stack' = PushChild(Front(stack), [open |-> Top.open, kids |-> Top.kids])
  /\ pos' = Tok.next
  /\ UNCHANGED <<src, verdict>>

\* a closer of another kind, or with nothing open
WrongCloser ==
  /\ verdict = Reading
  /\ Tok.kind \in Closings
  /\ Top.open \in Openings => Tok.kind # Closers[Top.open]
  /\ Answer("error", LineOf(src, Here))
  /\ UNCHANGED <<src, pos, stack>>

Atom ==
  /\ verdict = Reading
  /\ Tok.kind \in {"symbol", "keyword", "string", "number", ":", "@"}
  /\ Tok.next # 0
  /\ stack' = PushChild(stack, [open |-> Tok.kind, kids |-> Tok.text])
  /\ pos' = Tok.next
  /\ UNCHANGED <<src, verdict>>

\* the lexer reports an unterminated string at the line it gave up on
LexError ==
  /\ verdict = Reading
  /\ Tok.next = 0
  /\ Answer("error", LineOf(src, Len(src) + 1))
  /\ UNCHANGED <<src, pos, stack>>

FinishAtEof ==   \* mutant: reports the line of the end of the file
  /\ verdict = Reading
  /\ Tok.kind = "eof"
  /\ IF Len(stack) = 1 THEN Answer("tree", 0) ELSE Answer("error", LineOf(src, Here))
  /\ UNCHANGED <<src, pos, stack>>

\* end of file: a form still open is reported at the line it was opened on
Finish ==
  /\ verdict = Reading
  /\ Tok.kind = "eof"
  /\ IF Len(stack) = 1 THEN Answer("tree", 0) ELSE Answer("error", Top.line)
  /\ UNCHANGED <<src, pos, stack>>

\* cmd_fmt with -w, on a file nobody is reading
Reformat ==
  /\ AtStart
  /\ src' = Format(src)
  /\ UNCHANGED <<pos, stack, verdict>>

ReadNext == Reformat \/ OpenForm \/ CloseForm \/ WrongCloser \/ Atom \/ LexError \/ Finish

ReadSpec == ReadInit /\ [][ReadNext]_readVars

-----------------------------------------------------------------------------
(* What the reader must do, in terms that do not use its stack.            *)

(* Type correctness of the reader.                                         *)
ReaderTypeOK ==
  /\ src \in Seq(Alphabet)
  /\ pos \in 1..Len(src) + 1
  /\ Len(stack) >= 1 /\ stack[1].open = "program"
  /\ \A d \in 2..Len(stack) : stack[d].open \in Openings
  /\ verdict.state \in {"reading", "tree", "error"} /\ verdict.line \in Nat

(* parse_program accepts a source exactly when its brackets cancel pairwise *)
(* and every string closes: nothing else is an error and no mismatch slips  *)
(* through, whatever strings, comments and nesting do to the stack.         *)
AcceptsWellFormed ==
  verdict # Reading => (verdict.state = "tree" <=> WellFormed(Tokens(src)))

(* An error at the end of the file names the line of the innermost form     *)
(* that was never closed: the last opening bracket left when all pairs are  *)
(* cancelled, even when that line is far above.                             *)
EofErrorNamesOpening ==
  (verdict.state = "error" /\ Tok.kind = "eof") =>
    \E i \in 1..Len(Tokens(src)) :
      /\ Tokens(src)[i].kind = Last(Cancelled(Brackets(Tokens(src))))
      /\ Tokens(src)[i].line = verdict.line
      /\ WellFormed(SubSeq(Tokens(src), i + 1, Len(Tokens(src))))

(* The compiler cannot tell whether a source was formatted: the same tokens *)
(* with the same texts on the same lines, so the same tree and the same     *)
(* line in every error.  fmt.c:20-27 promises it of strings and comments.   *)
KeepsTokens == [][src' # src => Tokens(src') = Tokens(src)]_readVars

(* Formatting a formatted source changes nothing, so `fmt -w` in a loop or  *)
(* on every save converges at once.                                         *)
Idempotent == AtStart => Format(Format(src)) = Format(src)

\* the brackets open before the token that begins at i, as the reader sees them
DepthAt(s, i) ==
  LET before == Tokens(SubSeq(s, 1, i - 1))
      count(kinds) == Cardinality({j \in 1..Len(before) : before[j].kind \in kinds})
  IN  count(Openings) - count(Closings)

(* The indentation shows the nesting the compiler sees: in a formatted,     *)
(* well-formed source every line that begins with a token is indented by    *)
(* twice the number of forms open before it, less the closers it begins     *)
(* with; a bracket in a string or a comment never moves a later line.       *)
IndentShowsNesting ==
  LET f == Format(src)
      starts == {i \in 1..Len(f) : i = 1 \/ f[i - 1] = "\n"}
  IN  (AtStart /\ WellFormed(Tokens(src))) =>
        \A i \in starts :
          LET ink == EndOfRun(f, i, LAMBDA c : c = " ")
              closers == EndOfRun(f, ink, LAMBDA c : c \in Closings) - ink
          IN  (ink <= Len(f) /\ f[ink] \notin {"\n", ";"}) =>
                ink - i = 2 * (DepthAt(f, ink) - closers)
=============================================================================
