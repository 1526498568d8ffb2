------------------------------ MODULE PrnLexer -----------------------------
(***************************************************************************)
(* The lexer of the compiler, src/lexer.c, as operators on a source: a     *)
(* sequence of one-character strings.  lexer_next is TokenAt, one call per *)
(* token; Tokens is what calling it to the end of the file gives.          *)
(*                                                                         *)
(* Left out: the \u and \x escapes, and the wording of the errors.         *)
(***************************************************************************)
EXTENDS Integers, Sequences, FiniteSets, FiniteSetsExt, SequencesExt

CONSTANT StringCap   \* characters of a string literal that are kept, sizeof(buf) - 1

ASSUME LexerAssumption == StringCap \in Nat

Closers == [open \in {"(", "[", "{"} |->
              CASE open = "(" -> ")" [] open = "[" -> "]" [] OTHER -> "}"]
Openings == DOMAIN Closers
Closings == {Closers[o] : o \in Openings}
Space == " "
Quote == "\""
Backslash == "\\"
Semicolon == ";"
Spaces == {Space, "\t", "\n", "\r"}
Digits == {"0", "1", "2", "3", "4", "5", "6", "7", "8", "9"}

IsSymbolChar(c) == c \notin Spaces \cup Openings \cup Closings \cup {":", "@", Quote, Semicolon}

\* the first position from i on whose character is not in keep, or past the end
EndOfRun(s, i, keep(_)) ==
  LET stops == {j \in i..Len(s) : ~keep(s[j])}
  IN  IF stops = {} THEN Len(s) + 1 ELSE Min(stops)

LineOf(s, i) == 1 + Cardinality({j \in 1..Len(s) : j < i /\ s[j] = "\n"})

\* whitespace, and comments to the end of their line
SkipBlank(s, i) ==
  LET skip[j \in 1..Len(s) + 1] ==
        IF j > Len(s) THEN j
        ELSE IF s[j] \in Spaces THEN skip[j + 1]
        ELSE IF s[j] = Semicolon THEN skip[EndOfRun(s, j, LAMBDA c : c # "\n")]
        ELSE j
  IN  skip[i]

Unescaped(e) == CASE e = "n" -> "\n" [] e = "t" -> "\t" [] e = "r" -> "\r" [] OTHER -> e

\* A string literal from its opening quote on; next = 0 when it never closes.
\* It may span lines, and beyond StringCap characters it is cut.
StringToken(s, i) ==
  LET body[j \in 1..Len(s) + 1] ==
        IF j > Len(s) THEN [text |-> <<>>, next |-> 0]
        ELSE IF s[j] = Quote THEN [text |-> <<>>, next |-> j + 1]
        ELSE LET escaped == s[j] = Backslash /\ j < Len(s)
                 rest    == body[IF escaped THEN j + 2 ELSE j + 1]
                 char    == IF escaped THEN Unescaped(s[j + 1]) ELSE s[j]
             IN  [rest EXCEPT !.text = <<char>> \o @]
      whole == body[i + 1]
  IN  [kind |-> "string", next |-> whole.next,
       text |-> SubSeq(whole.text, 1, Min({Len(whole.text), StringCap}))]

StartsNumber(s, i) ==
  s[i] \in Digits \/ (s[i] \in {"-", "+"} /\ i < Len(s) /\ s[i + 1] \in Digits)

NumberEnd(s, i) ==
  LET digits(j) == EndOfRun(s, j, LAMBDA c : c \in Digits)
      whole     == digits(IF s[i] \in Digits THEN i ELSE i + 1)
  IN  IF whole < Len(s) /\ s[whole] = "." /\ s[whole + 1] \in Digits
      THEN digits(whole + 1) ELSE whole

\* A colon before a symbol character begins a keyword; past the end the lexer
\* peeks a NUL, which counts as one.
KeywordAt(s, i) == i = Len(s) \/ IsSymbolChar(s[i + 1])

\* lexer_next: the token that begins at i, a position SkipBlank returned
TokenAt(s, i) ==
  LET upTo(kind, end) == [kind |-> kind, next |-> end, text |-> SubSeq(s, i, end - 1)]
      punct(kind)     == [kind |-> kind, next |-> i + 1, text |-> <<>>]
  IN  IF i > Len(s) THEN [kind |-> "eof", next |-> i, text |-> <<>>]
      ELSE IF s[i] \in Openings \cup Closings \cup {"@"} THEN punct(s[i])
      ELSE IF s[i] = Quote THEN StringToken(s, i)
      ELSE IF s[i] = ":" THEN
             IF KeywordAt(s, i) THEN upTo("keyword", EndOfRun(s, i + 1, IsSymbolChar))
             ELSE punct(":")
      ELSE IF StartsNumber(s, i) THEN upTo("number", NumberEnd(s, i))
      ELSE upTo("symbol", EndOfRun(s, i, IsSymbolChar))

\* every token of s from i on, with its line; an unterminated string is the last
Tokens(s) ==
  LET from[i \in 1..Len(s) + 1] ==
        LET at == SkipBlank(s, i)
            t  == TokenAt(s, at)
            me == [kind |-> t.kind, text |-> t.text, line |-> LineOf(s, at)]
        IN  IF t.kind = "eof" THEN <<>>
            ELSE IF t.next = 0 THEN <<[me EXCEPT !.kind = "unterminated", !.text = <<>>]>>
            ELSE <<me>> \o from[t.next]
  IN  from[1]

-----------------------------------------------------------------------------
\* the brackets of a token sequence, and the same with adjacent pairs cancelled
Brackets(ts) ==
  LET from[i \in 1..Len(ts) + 1] ==
        IF i > Len(ts) THEN <<>>
        ELSE IF ts[i].kind \in Openings \cup Closings THEN <<ts[i].kind>> \o from[i + 1]
        ELSE from[i + 1]
  IN  from[1]
CancelPair(b) ==
  LET pairs == {i \in 1..Len(b) - 1 : b[i] \in Openings /\ b[i + 1] = Closers[b[i]]}
  IN  IF pairs = {} THEN b ELSE RemoveAt(RemoveAt(b, Min(pairs)), Min(pairs))
Cancelled(b) ==
  LET after[n \in 0..Len(b)] == IF n = 0 THEN b ELSE CancelPair(after[n - 1])
  IN  after[Len(b)]
WellFormed(ts) == /\ Cancelled(Brackets(ts)) = <<>>
                  /\ \A i \in 1..Len(ts) : ts[i].kind # "unterminated"
=============================================================================
