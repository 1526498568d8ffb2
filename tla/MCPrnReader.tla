----------------------------- MODULE MCPrnReader ----------------------------
EXTENDS PrnReader

CONSTANTS MCLength, MCLong

MCAlphabet == {"(", ")", "[", "]", "\"", "\\", ";", "\n", " ", ":", "@", "-", ".", "1", "a"}

Texts(alphabet, n) == UNION {[1..k -> alphabet] : k \in 0..n}
OneLineStrings(s) ==
  \A t \in ToSet(Tokens(s)) : "\n" \notin ToSet(t.text)

\* brackets, strings, escapes, comments and lines
MCForms  == Texts({"(", ")", "[", "]", "\"", "\\", ";", "\n", " ", "a"}, MCLength)
\* atoms, in files that end with a newline
MCAtoms  == {Append(s, "\n") : s \in Texts({":", "@", "-", ".", "1", "a", "(", " "}, MCLength - 1)}
\* deeper nesting over more lines
MCNested == Texts({"(", ")", "\n", "a"}, MCLong)
MCSources == {s \in MCForms \cup MCAtoms \cup MCNested : OneLineStrings(s)}
MCStringSources == Texts({"(", "\"", "\n", " ", "a"}, MCLength)
=============================================================================
