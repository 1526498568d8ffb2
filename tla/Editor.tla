------------------------------- MODULE Editor ------------------------------
(***************************************************************************)
(* The editor's window (examples/editor_main.c): one event is one step.    *)
(* A window shows one buffer and saves to one path; both are replaced by   *)
(* several handlers, each with its own idea of what else must be reset.    *)
(* Key and text events go to the quick-open overlay while it is open;      *)
(* mouse events go to the editor all the same.                             *)
(*                                                                         *)
(* Left out: drawing, zoom, scrolling, directory navigation and the        *)
(* settings panel; the rows of the overlay, of which Return may act on     *)
(* any; the terminal panel, which takes the keys as the overlay does;      *)
(* windows and processes this one spawns.                                  *)
(***************************************************************************)
EXTENDS EditorBuffer

CONSTANTS
  Chars,            \* the characters of documents, and those the editor adds
  Paths, Markdown,  \* the files, and those whose name ends in .md
  Launched,         \* the path on the command line
  Disks,            \* what the files may hold when the window opens
  Keystrokes,       \* the texts a TextInput event or the clipboard can bring
  Faults,           \* which calls may fail: "load", "raw", "open", "write"
  UndoMax,          \* UNDO_MAX
  IndentWidth,      \* INDENT_WIDTH
  Clicks,           \* bound: the positions a click or a drag may hit, with the end
  MaxText,          \* bound: bytes of text an edit may reach
  MaxEvents         \* bound: events in a behaviour

Files == [kind : {"absent", "text", "binary"}, text : Seq(Chars)]
Dump  == "#"      \* the bytes of a hex dump: what no document and no key brings

ASSUME EditorAssumption ==
  /\ {Space, "\n", "!"} \subseteq Chars /\ Dump \notin Chars
  /\ Launched \in Paths /\ Markdown \subseteq Paths
  /\ Disks \subseteq [Paths -> Files] /\ Keystrokes \subseteq Seq(Chars)
  /\ Clicks \subseteq Nat /\ UndoMax \in Nat \ {0} /\ IndentWidth \in Nat /\ MaxText \in Nat /\ MaxEvents \in Nat
  /\ Faults \subseteq {"load", "raw", "open", "write"}

VARIABLES
  disk,      \* each file: kind "absent", "text" or "binary", and its text
  path,      \* where Save goes; is_markdown follows from it
  buf,       \* the buffer on screen
  hex,       \* g_hexview_active
  undo, redo,
  overlay,   \* the quick-open overlay is open
  drag,      \* a mouse button held down: where it went down
  events     \* how many events there were, up to MaxEvents

vars == <<disk, path, buf, hex, undo, redo, overlay, drag, events>>
history == <<undo, redo>>

NoDocument == "none"
NoPosition == -1
DumpText == <<Dump>>          \* what hex_dump renders, whatever the bytes
ExcuseText == <<"!">>        \* "(could not read file bytes for hex view)"

\* what load_from_file can return for p: the buffer and the hex flag
Loads(p) ==
  LET shows(b, flag) == [buf |-> b, hex |-> flag]
  IN  CASE disk[p].kind = "absent" -> {shows(NewBuffer(p), FALSE)}
        [] disk[p].kind = "text"   -> {shows(FromText(disk[p].text, p), FALSE)}
        [] disk[p].kind = "binary" -> {shows(FromText(DumpText, p), TRUE)}
      \cup IF "load" \in Faults /\ disk[p].kind # "absent"
           THEN {shows(NewBuffer(NoDocument), FALSE)} ELSE {}
      \cup IF "raw" \in Faults /\ disk[p].kind = "binary"
           THEN {shows(FromText(ExcuseText, NoDocument), FALSE)} ELSE {}

EditorInit ==
  /\ disk \in Disks
  /\ path = Launched
  /\ \E l \in Loads(Launched) : buf = l.buf /\ hex = l.hex
  /\ undo = <<>> /\ redo = <<>>
  /\ overlay = FALSE
  /\ drag = NoPosition
  /\ events = 0

-----------------------------------------------------------------------------
Event == events < MaxEvents /\ events' = events + 1

\* push_stack: a full stack loses its oldest entry
Push(stack, b) == Append(IF Len(stack) < UndoMax THEN stack ELSE Tail(stack), b)

PushUndo(b) == undo' = Push(undo, b) /\ redo' = <<>>

Editing == ~overlay     \* keys and text reach the buffer
Chrome  == <<path, overlay, drag>>

\* an edit that always happens, over the selection if there is one
Insert(s) ==
  /\ Editing /\ Event
  /\ Len(ReplaceSelection(buf, s).text) <= MaxText
  /\ PushUndo(buf)
  /\ buf' = ReplaceSelection(buf, s)
  /\ UNCHANGED <<disk, hex, Chrome>>

Type(s)  == s # <<>> /\ Insert(s)
Paste(s) == Insert(s)                   \* the clipboard may be empty
Tab      == Insert([i \in 1..IndentWidth |-> Space])

\* Return, with auto-indent on or off
Enter(indents) ==
  LET n == IF indents /\ path \notin Markdown
           THEN IndentWidth * ParenDepthBefore(
                  (IF HasSelection(buf) THEN DeleteSelection(buf) ELSE buf).text,
                  IF HasSelection(buf) THEN SelectionStart(buf) ELSE buf.cursor)
           ELSE 0
  IN  Insert(<<"\n">> \o [i \in 1..n |-> Space])

\* an edit that fails at the end of the text: nothing is pushed then
Delete(b) ==
  /\ Editing /\ Event
  /\ PushUndo(buf)
  /\ buf' = b
  /\ UNCHANGED <<disk, hex, Chrome>>

Cut       == HasSelection(buf) /\ Delete(DeleteSelection(buf))
Backspace == \/ HasSelection(buf) /\ Delete(DeleteSelection(buf))
             \/ /\ ~HasSelection(buf) /\ buf.cursor > 0
                /\ Delete(Without(buf, PrevBoundary(buf.text, buf.cursor), buf.cursor))
DeleteKey == \/ HasSelection(buf) /\ Delete(DeleteSelection(buf))
             \/ /\ ~HasSelection(buf) /\ buf.cursor < Len(buf.text)
                /\ Delete(Without(buf, buf.cursor, NextBoundary(buf.text, buf.cursor)))

Show(b) == Event /\ buf' = b /\ UNCHANGED <<disk, hex, history>>

Arrow(key, shift) == Editing /\ Show(Moved(buf, key, shift)) /\ UNCHANGED Chrome
SelectAll == Editing /\ Show(SetSelection(buf, 0, Len(buf.text))) /\ UNCHANGED Chrome

UndoUnguarded ==   \* mutant: Ctrl+Z at the bottom still pushes onto redo
  /\ Editing /\ Event
  /\ redo' = Push(redo, buf)
  /\ IF undo = <<>> THEN UNCHANGED <<buf, undo>> ELSE buf' = Last(undo) /\ undo' = Front(undo)
  /\ UNCHANGED <<disk, hex, Chrome>>

Undo ==
  /\ Editing /\ Event
  /\ undo # <<>>
  /\ redo' = Push(redo, buf)
  /\ buf' = Last(undo)
  /\ undo' = Front(undo)
  /\ UNCHANGED <<disk, hex, Chrome>>

Redo ==
  /\ Editing /\ Event
  /\ redo # <<>>
  /\ undo' = Push(undo, buf)
  /\ buf' = Last(redo)
  /\ redo' = Front(redo)
  /\ UNCHANGED <<disk, hex, Chrome>>

-----------------------------------------------------------------------------
\* save_to_file opens with "w": so a write that fails leaves an empty file
SavesTo(p, text) ==
  \/ disk' = [disk EXCEPT ![p] = [kind |-> "text", text |-> text]]
  \/ "open" \in Faults /\ UNCHANGED disk
  \/ /\ "write" \in Faults
     /\ disk' = [disk EXCEPT ![p] = [kind |-> "text", text |-> <<>>]]

SaveOfDump ==   \* mutant: do_save without its check
  LET text == Format(buf.text)
  IN  /\ Event
      /\ SavesTo(path, text)
      /\ PushUndo(buf)
      /\ buf' = FromText(text, buf.of)
      /\ UNCHANGED <<hex, Chrome>>

\* do_save: F2 in the editor, or the Save button whatever has the keys
Save ==
  /\ ~hex /\ Event
  /\ \/ /\ path \in Markdown
        /\ SavesTo(path, buf.text)
        /\ UNCHANGED <<buf, history>>
     \/ /\ path \notin Markdown
        /\ SavesTo(path, Format(buf.text))
        /\ PushUndo(buf)
        /\ buf' = FromText(Format(buf.text), buf.of)
  /\ UNCHANGED <<hex, Chrome>>

LoadKeepingHistory(p) ==   \* mutant: the stacks survive a load
  /\ Event
  /\ \E l \in Loads(p) : buf' = l.buf /\ hex' = l.hex
  /\ UNCHANGED <<disk, history>>

\* load_from_file and both counts set to zero, as every in-place load does
Load(p) ==
  /\ Event
  /\ \E l \in Loads(p) : buf' = l.buf /\ hex' = l.hex
  /\ undo' = <<>> /\ redo' = <<>>
  /\ UNCHANGED disk

Reload == Editing /\ Load(path) /\ UNCHANGED Chrome               \* F3

\* a click in the right-hand tree opens p here, whatever has the keys
OpenInTree(p) == Load(p) /\ path' = p /\ UNCHANGED <<overlay, drag>>

\* a click in the text, dragging, letting go
MouseDown(pos) == Show(SetCursor(buf, pos)) /\ drag' = pos /\ UNCHANGED <<path, overlay>>
MouseDrag(pos) == /\ drag # NoPosition
                  /\ Show(SetSelection(buf, drag, pos)) /\ UNCHANGED Chrome
MouseUp == /\ drag' = NoPosition
           /\ Show(buf) /\ UNCHANGED <<path, overlay>>

-----------------------------------------------------------------------------
Behind == <<disk, path, buf, hex, history, drag>>

OpenOverlay  == Event /\ Editing /\ overlay' = TRUE /\ UNCHANGED Behind    \* Ctrl+T
CloseOverlay == Event /\ overlay /\ overlay' = FALSE /\ UNCHANGED Behind

\* Return on a file: opens it in place.  On another row, or on none, only the
\* overlay closes.
Activate(p) == /\ overlay
               /\ Load(p)
               /\ overlay' = FALSE
               /\ UNCHANGED <<path, drag>>

Keyboard ==
  \/ \E s \in Keystrokes : Type(s) \/ Paste(s)
  \/ Paste(<<>>) \/ Tab \/ Cut \/ Backspace \/ DeleteKey \/ SelectAll
  \/ \E indents \in BOOLEAN : Enter(indents)
  \/ \E key \in {"left", "right", "up", "down", "home", "end"}, shift \in BOOLEAN : Arrow(key, shift)
  \/ Undo \/ Redo \/ Reload
  \/ Editing /\ Save
Overlay == OpenOverlay \/ CloseOverlay \/ \E p \in Paths : Activate(p)
Mouse ==
  \/ \E pos \in {p \in Clicks : p < Len(buf.text)} \cup {Len(buf.text)} : MouseDown(pos) \/ MouseDrag(pos)
  \/ MouseUp \/ Save
  \/ \E p \in Paths : OpenInTree(p)

EditorNext == Keyboard \/ Overlay \/ Mouse
EditorSpec == EditorInit /\ [][EditorNext]_vars

-----------------------------------------------------------------------------
Buffers == [text : Seq(Chars \cup {Dump}), cursor : Nat, anchor : Int, of : Paths \cup {NoDocument}]
IsBuffer(b) == /\ b \in Buffers /\ b.cursor <= Len(b.text)
               /\ b.anchor \in {NoAnchor} \cup 0..Len(b.text)

(* Type correctness.  Every buffer, also one waiting in the history, has    *)
(* its cursor and its selection inside its own text: insert-at-cursor and   *)
(* substring do not look at the selection again.                            *)
EditorTypeOK ==
  /\ DOMAIN disk = Paths /\ path \in Paths /\ hex \in BOOLEAN /\ overlay \in BOOLEAN
  /\ IsBuffer(buf) /\ undo \in Seq(Buffers) /\ redo \in Seq(Buffers)
  /\ \A i \in DOMAIN undo : IsBuffer(undo[i])
  /\ \A i \in DOMAIN redo : IsBuffer(redo[i])
  /\ drag = NoPosition \/ drag \in Nat

(* Undo and redo together never outgrow one stack, so walking back and      *)
(* forth never overflows either of them: only a new edit drops history.     *)
HistoryFits == Len(undo) + Len(redo) <= UndoMax

(* Undo and redo stay within the document on screen.  An entry of another   *)
(* one could bring its text under this window's path, and Save would write  *)
(* it there.                                                                *)
HistoryOfOneDocument ==
  \A i \in 1..Len(undo \o redo) : (undo \o redo)[i].of = buf.of

(* The hex view of a binary never becomes the content of a file, by any     *)
(* sequence of loads, undos, edits and saves (editor_main.c:328-330: "the   *)
(* binary can never be overwritten by its own dump").                       *)
DumpNeverSaved == \A p \in Paths : Dump \notin ToSet(disk[p].text)

\* the texts of the past up to the one on screen, and those of the future
TextsOf(bs) == [i \in 1..Len(bs) |-> bs[i].text]
Past     == TextsOf(Append(undo, buf))
Timeline == Past \o Reverse(TextsOf(redo))

(* No step but a load loses a text the user had: moving about and undoing   *)
(* or redoing leave the timeline as it is, and anything else is one new     *)
(* text after the past, the oldest dropped only when the stack is full.     *)
TimelineKept ==
  [][\/ undo' = <<>> /\ redo' = <<>>
     \/ Timeline' = Timeline
     \/ /\ redo' = <<>>
        /\ Past' = LET all == Append(Past, buf'.text)
                   IN  IF Len(undo) < UndoMax THEN all ELSE Tail(all)]_vars

Whole(text) == \A i \in 1..Len(text) :
                 /\ text[i] = Lead => i < Len(text) /\ text[i + 1] = Cont
                 /\ text[i] = Cont => i > 1 /\ text[i - 1] = Lead
AtBoundary(text, pos) == pos < Len(text) => text[pos + 1] # Cont

(* Left, Right, Backspace and Delete step over whole characters, so from a  *)
(* boundary in a well-encoded text they never leave half of one.            *)
StepsOverCharacters ==
  [][(/\ Backspace \/ DeleteKey \/ \E shift \in BOOLEAN : Arrow("left", shift) \/ Arrow("right", shift)
      /\ Whole(buf.text) /\ AtBoundary(buf.text, buf.cursor)
      /\ HasSelection(buf) => AtBoundary(buf.text, buf.anchor))
     => (Whole(buf'.text) /\ AtBoundary(buf'.text, buf'.cursor))]_vars

(* Return indents by the depth the formatter gives the next line, so a save *)
(* does not move what was just typed: where no string spans lines or is cut *)
(* by the lexer, and comments begin with two semicolons.                    *)
IndentAgreesWithFmt ==
  \A pos \in 0..Len(buf.text) :
    LET before == SubSeq(buf.text, 1, pos)
        plain  == /\ \A t \in ToSet(Tokens(before)) :
                       /\ t.kind # "unterminated" /\ "\n" \notin ToSet(t.text)
                       /\ t.kind = "string" => Len(t.text) < StringCap
                  /\ \A i \in 1..Len(buf.text) : buf.text[i] = Semicolon =>
                       \E j \in {i - 1, i + 1} \cap 1..Len(buf.text) : buf.text[j] = Semicolon
        lines  == LinesOf(before)
        depth[k \in 0..Len(lines)] == IF k = 0 THEN 0 ELSE DepthAfter(depth[k - 1], lines[k])
    IN  plain => ParenDepthBefore(buf.text, pos) = depth[Len(lines)]

(* A save writes to a file the document that was loaded from it.            *)
SavesItsOwnDocument == [][\A p \in Paths : disk'[p] # disk[p] => buf.of = p]_vars
=============================================================================
