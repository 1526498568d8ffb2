------------------------------ MODULE MCEditor -----------------------------
EXTENDS Editor

CONSTANTS a, b   \* the file the window was launched with, another one

Text(s) == [kind |-> "text", text |-> s]
Binary  == [kind |-> "binary", text |-> <<>>]
Absent  == [kind |-> "absent", text |-> <<>>]
Disk(da, db) == [p \in {a, b} |-> IF p = a THEN da ELSE db]

\* an open form, a bracket in a string and in a comment, a two-byte character
MCDisks == {Disk(Text(<<"(">>), Binary),
            Disk(Text(<<"\"", "(", "\"">>), Binary),
            Disk(Text(<<";", ";", "(", "\n">>), Absent),
            Disk(Text(<<Lead, Cont>>), Text(<<"\n">>))}
MCTwoTexts == {Disk(Text(<<"(">>), Text(<<"x">>))}
MCChars == {Space, "\n", "!", "(", ")", "x", Quote, Semicolon, Lead, Cont}
MCKeystrokes == {<<")">>}
=============================================================================
