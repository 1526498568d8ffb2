--------------------------- MODULE EditorBuffer ----------------------------
(***************************************************************************)
(* The text buffer of the editor (stdlib/editor/buffer.prn): a value, so   *)
(* every operation returns a new one.  A text is a sequence of bytes; the  *)
(* two bytes of a multi-byte character are Lead and Cont, every other      *)
(* character is its own byte.  Positions count from 0, as in the code.     *)
(***************************************************************************)
EXTENDS PrnFmt

NoAnchor == -1
Lead == "lead"
Cont == "cont"

\* `of` is the document a buffer's text was loaded from: not in the code
NewBuffer(of)      == [text |-> <<>>, cursor |-> 0, anchor |-> NoAnchor, of |-> of]
FromText(text, of) == [NewBuffer(of) EXCEPT !.text = text, !.cursor = Len(text)]

HasSelection(b)   == b.anchor >= 0
SelectionStart(b) == Min({b.anchor, b.cursor})
SelectionEnd(b)   == Max({b.anchor, b.cursor})

Clamp(b, p) == Max({0, Min({p, Len(b.text)})})

\* the text of b without the bytes from .. to - 1, cursor at the gap
Without(b, from, to) ==
  [b EXCEPT !.text = SubSeq(@, 1, from) \o SubSeq(@, to + 1, Len(@)),
            !.cursor = from, !.anchor = NoAnchor]

PrevByteBoundary(text, pos) == Max({0, pos - 1})   \* mutant: the old bug, one byte

\* utf8-prev-boundary and utf8-codepoint-len
PrevBoundary(text, pos) ==
  IF pos <= 0 THEN 0
  ELSE Max({0} \cup {i \in 0..pos - 1 : text[i + 1] # Cont})

NextBoundary(text, pos) ==
  Min({Len(text), pos + (IF pos < Len(text) /\ text[pos + 1] = Lead THEN 2 ELSE 1)})

LineStart(text, pos) == Max({0} \cup {i \in 1..pos : text[i] = "\n"})
LineEnd(text, pos)   == Min({Len(text)} \cup {i \in pos..Len(text) - 1 : text[i + 1] = "\n"})

DeleteSelection(b) == Without(b, SelectionStart(b), SelectionEnd(b))

InsertAtCursor(b, s) ==
  [b EXCEPT !.text = SubSeq(@, 1, b.cursor) \o s \o SubSeq(@, b.cursor + 1, Len(@)),
            !.cursor = @ + Len(s), !.anchor = NoAnchor]

\* typed or pasted text takes the place of the selection
ReplaceSelection(b, s) ==
  InsertAtCursor(IF HasSelection(b) THEN DeleteSelection(b) ELSE b, s)

\* where each arrow key leads; Up and Down keep the byte column
Column(b) == b.cursor - LineStart(b.text, b.cursor)
AtColumn(b, start) == start + Min({Column(b), LineEnd(b.text, start) - start})

Target(b, key) ==
  LET start == LineStart(b.text, b.cursor)
      end   == LineEnd(b.text, b.cursor)
  IN  CASE key = "left"  -> PrevBoundary(b.text, b.cursor)
        [] key = "right" -> NextBoundary(b.text, b.cursor)
        [] key = "up"    -> IF start = 0 THEN b.cursor
                            ELSE AtColumn(b, LineStart(b.text, start - 1))
        [] key = "down"  -> IF end >= Len(b.text) THEN b.cursor ELSE AtColumn(b, end + 1)
        [] key = "home"  -> start
        [] key = "end"   -> end

\* move-cursor-*, and extend-selection-* with shift held (home and end ignore it)
Moved(b, key, shift) ==
  [b EXCEPT !.cursor = Target(b, key),
            !.anchor = IF ~shift \/ key \in {"home", "end"} THEN NoAnchor
                       ELSE IF HasSelection(b) THEN @ ELSE b.cursor]

SetCursor(b, pos) == [b EXCEPT !.cursor = Clamp(b, pos), !.anchor = NoAnchor]

SetSelection(b, anchor, pos) == [b EXCEPT !.cursor = Clamp(b, pos), !.anchor = Clamp(b, anchor)]

DepthBeforeInStrings(text, pos) ==   \* mutant: counts brackets in strings
  LET depth[i \in 0..pos] ==
        IF i = 0 THEN 0
        ELSE IF text[i] \in Openings THEN depth[i - 1] + 1
        ELSE IF text[i] \in Closings THEN Max({0, depth[i - 1] - 1})
        ELSE depth[i - 1]
  IN  depth[pos]

\* paren_depth_before: the brackets open before a position, for auto-indent.
\* Only two semicolons begin a comment here.
ParenDepthBefore(text, pos) ==
  LET scan[p \in (1..pos + 1) \X Nat] ==
        LET i == p[1]
            n == p[2]
        IN  IF i > pos THEN n
            ELSE IF text[i] = Semicolon /\ i < pos /\ text[i + 1] = Semicolon
                 THEN scan[<<Min({j \in i..pos + 1 : j = pos + 1 \/ text[j] = "\n"}), n>>]
            ELSE IF text[i] = Quote THEN scan[<<AfterQuote(text, pos)[i + 1], n>>]
            ELSE IF text[i] \in Openings THEN scan[<<i + 1, n + 1>>]
            ELSE IF text[i] \in Closings /\ n > 0 THEN scan[<<i + 1, n - 1>>]
            ELSE scan[<<i + 1, n>>]
  IN  scan[<<1, 0>>]
=============================================================================
