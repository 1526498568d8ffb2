------------------------------ MODULE PrnFmt -------------------------------
(***************************************************************************)
(* `parena fmt` (src/fmt.c): every line is trimmed and indented again by   *)
(* the bracket depth the lines before it reached.  The formatter goes line *)
(* by line and keeps only the depth and the output.  The compiler's driver *)
(* runs it on files, the editor on the text it is about to save.           *)
(***************************************************************************)
EXTENDS PrnLexer

CONSTANT OutSlack   \* fmt_source sizes its output 2 * len + OutSlack

ASSUME FmtAssumption == OutSlack \in Nat

Blanks == {Space, "\t"}

\* where the line that begins at i ends: at its newline, or past the text
LineStop(s, i) == EndOfRun(s, i, LAMBDA c : c # "\n")

\* the text of each line, the last one not followed by a newline
LinesOf(s) ==
  LET from[i \in 1..Len(s) + 1] ==
        LET stop == LineStop(s, i)
        IN  <<SubSeq(s, i, stop - 1)>> \o (IF stop > Len(s) THEN <<>> ELSE from[stop + 1])
  IN  from[1]

TrimmedRight(line) ==   \* mutant: the old indentation stays
  LET ink == {i \in 1..Len(line) : line[i] \notin Blanks \cup {"\r"}}
  IN  IF ink = {} THEN <<>> ELSE SubSeq(line, 1, Max(ink))

Trimmed(line) ==
  LET from == EndOfRun(line, 1, LAMBDA c : c \in Blanks)
      ink  == {i \in from..Len(line) : line[i] \notin Blanks \cup {"\r"}}
  IN  IF ink = {} THEN <<>> ELSE SubSeq(line, from, Max(ink))

\* inside a string literal: past the quote that closes it, or past the n-th character
AfterQuote(s, n) ==
  LET after[i \in 1..n + 1] ==
        IF i > n THEN i
        ELSE IF s[i] = Quote THEN i + 1
        ELSE after[IF s[i] = Backslash /\ i < n THEN i + 2 ELSE i + 1]
  IN  after

\* scan_line_body: the depth after a line that begins at depth d
DepthAfter(d, line) ==
  LET scan[p \in (1..Len(line) + 1) \X Nat] ==    \* a place, and the depth there
        LET i == p[1]
            n == p[2]
        IN  IF i > Len(line) \/ line[i] = Semicolon THEN n
            ELSE IF line[i] = Quote THEN scan[<<AfterQuote(line, Len(line))[i + 1], n>>]
            ELSE IF line[i] \in Openings THEN scan[<<i + 1, n + 1>>]
            ELSE IF line[i] \in Closings /\ n > 0 THEN scan[<<i + 1, n - 1>>]
            ELSE scan[<<i + 1, n>>]
  IN  scan[<<1, d>>]

LeadingClosersAtMargin(line) ==   \* mutant: looks at the untrimmed line
  EndOfRun(line, 1, LAMBDA c : c \in Closings) - 1

LeadingClosers(line) ==
  LET from == EndOfRun(line, 1, LAMBDA c : c \in Blanks)
  IN  EndOfRun(line, from, LAMBDA c : c \in Closings) - from

Indent(d, line) == [i \in 1..2 * Max({0, d - LeadingClosers(line)}) |-> Space]

\* out with text added, cut at the capacity when it (and two more) does not fit
Emit(out, text, cap) ==
  LET all == out \o text
  IN  IF Len(all) + 2 > cap THEN SubSeq(all, 1, Min({Len(all), Max({Len(out), cap})})) ELSE all

FormatLineSquashes(acc, line, last, cap) ==   \* mutant: drops empty lines
  LET content == Trimmed(line)
  IN  [depth |-> DepthAfter(acc.depth, line),
       out   |-> IF content = <<>> THEN acc.out
                 ELSE Emit(acc.out, Indent(acc.depth, line) \o content, cap) \o <<"\n">>]

\* One pass of fmt_source's loop: indent and content, then the newline.  The
\* last line gets one only if it has content.
FormatLine(acc, line, last, cap) ==
  LET content == Trimmed(line)
      shown   == IF content = <<>> THEN acc.out
                 ELSE Emit(acc.out, Indent(acc.depth, line) \o content, cap)
      newline == ~last \/ (content # <<>> /\ (shown = <<>> \/ Last(shown) # "\n"))
  IN  [depth |-> DepthAfter(acc.depth, line),
       out   |-> IF newline THEN Append(shown, "\n") ELSE shown]

\* fmt_source's loop: depth and output after each of the lines
Passes(s) ==
  LET lines == LinesOf(s)
      cap   == 2 * Len(s) + OutSlack
      after[k \in 0..Len(lines)] ==
        IF k = 0 THEN [depth |-> 0, out |-> <<>>]
        ELSE FormatLine(after[k - 1], lines[k], k = Len(lines), cap)
  IN  after

Format(s) == Passes(s)[Len(LinesOf(s))].out
=============================================================================
