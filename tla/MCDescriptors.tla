--------------------------- MODULE MCDescriptors ---------------------------
EXTENDS Descriptors

MCFds == 0..2
MCNewline == "\n"
\* a line longer than the buffer and an unterminated last line; empty lines
MCContent == <<<<"a", "b", "c", "\n", "d">>, <<"\n", "e", "\n">>>>
=============================================================================
