-------------------------------- MODULE QConsole --------------------------------
(***************************************************************************)
(* QConsole (src/QConsole.cpp): a text edit that is a console.  The user   *)
(* edits behind the last prompt, the edition zone; Return hands the        *)
(* command to the owner and locks the keyboard until the owner has printed *)
(* the results.  The mouse is never locked.  QTextEdit is external.        *)
(* QInit, QNext, QSpec, qvars and QTypeOK are what other components call   *)
(* Init, Next, Spec, vars and TypeOK: Console_proofs extends two of them.  *)
(***************************************************************************)
EXTENDS Integers, Sequences, FiniteSetsExt

CONSTANTS
  Key,             \* characters the keyboard has
  Blank, NewLine,  \* the block separator is one character of the document
  Separator,       \* characters that end a word, as those of a prompt do
  Prompt, Welcome, \* the arguments of setPrompt and of the constructor
  Foreign,         \* texts other programs have on the clipboard, or drag here
  Result,          \* what the owner prints
  Incomplete,      \* the commands isCommandComplete refuses; none unless overridden
  Suggestions,     \* what suggestCommand may return; only {} unless overridden
  Width,           \* a block with no more characters is one line of the widget
  MaxZone,         \* bound: no step adds text to make a longer zone
  Reach,           \* bound: how far before the zone the mouse goes
  MaxHistory      \* bound: commands executed

Character == Key \cup {Blank, NewLine} \cup Separator
  \cup UNION {{s[i] : i \in 1..Len(s)} : s \in Foreign \cup Result \cup {Prompt, Welcome}}
Text == Seq(Character)

ASSUME TextAssumption ==
  /\ Prompt # <<>> /\ Len(Prompt) < Width /\ \A i \in 1..Len(Prompt) : Prompt[i] # NewLine
  /\ Blank # NewLine /\ Blank \notin Separator /\ NewLine \notin Key \cup Separator
  /\ UNION Suggestions \subseteq Text /\ Incomplete \subseteq Text
  /\ {Prompt, Welcome} \cup Foreign \cup Result \subseteq Text
  /\ Width \in Nat /\ MaxZone \in Nat /\ Reach \in Nat /\ MaxHistory \in Nat

VARIABLES
  doc,              \* text, and position and anchor of the widget's cursor
  promptParagraph,  \* the block of the last prompt
  history,          \* history and recordedScript: no command contains a new line
  historyIndex,
  isLocked,
  lines             \* the layout: where a wrapped block goes on in a new line

qvars == <<doc, promptParagraph, history, historyIndex, isLocked, lines>>

-------------------------------------------------------------------------------
(***************************************************************************)
(* Documents and cursors (Qt, external)                                    *)
(***************************************************************************)
Breaks(t, from, to) == {i \in from..to : t[i] = NewLine}
BlockNumber(t, p) == Cardinality(Breaks(t, 1, p))
BlockStart(t, p) == Max(Breaks(t, 1, p) \cup {0})
BlockEnd(t, p) == Min({i - 1 : i \in Breaks(t, p + 1, Len(t))} \cup {Len(t)})
Right(t, p, n) == Min({p + n, Len(t)})

\* A block that does not fit is wrapped; where is a matter of its words, the font and the
\* size of the widget, and left open.  It is asked for from the prompt's block on only.
Fits(t, p) == BlockEnd(t, p) - BlockStart(t, p) <= Width
Wrapped(t) == {q \in 1..Len(t) : /\ t[q] # NewLine /\ BlockNumber(t, q) >= promptParagraph
                                 /\ ~Fits(t, q) /\ q < BlockEnd(t, q)}
Layouts(t) == SUBSET Wrapped(t)

\* columnNumber counts from the start of the line, not of the block
LineStart(t, w, p) == Max({q \in BlockStart(t, p)..p : q \in w \/ q = BlockStart(t, p)})
Column(t, w, p) == p - LineStart(t, w, p)

\* the end of a line is the start of the next one, or the blank before it
LineEnd(t, w, p) ==
  LET end == Min({q \in (p + 1)..BlockEnd(t, p) : q \in w} \cup {BlockEnd(t, p)})
  IN  IF end < BlockEnd(t, p) /\ t[end] = Blank THEN end - 1 ELSE end

\* one word back, or to the end of the block before
Class(c) == IF c = Blank THEN "blank" ELSE IF c \in Separator THEN "separator" ELSE "word"
WordStarts(t, p) ==
  {q \in BlockStart(t, p)..(p - 1) :
     /\ t[q + 1] # Blank
     /\ q > BlockStart(t, p) => Class(t[q]) # Class(t[q + 1])}
PreviousWord(t, p) ==
  IF p = BlockStart(t, p) THEN p - 1 ELSE Max(WordStarts(t, p) \cup {BlockStart(t, p)})

Start(d) == Min({d.position, d.anchor})
End(d) == Max({d.position, d.anchor})
HasSelection(d) == d.position # d.anchor
Selected(d) == SubSeq(d.text, Start(d) + 1, End(d))
Placed(d, p, a) == [d EXCEPT !.position = p, !.anchor = a]
AtEnd(d) == Placed(d, Len(d.text), Len(d.text))

\* s instead of what is between two places; cursors there go behind s
Spliced(d, from, to, s) ==
  LET moved(p) == IF p < from THEN p
                  ELSE IF p <= to THEN from + Len(s) ELSE p - to + from + Len(s)
  IN  [text |-> SubSeq(d.text, 1, from) \o s \o SubSeq(d.text, to + 1, Len(d.text)),
       position |-> moved(d.position), anchor |-> moved(d.anchor)]
InsertText(d, s) == Spliced(d, Start(d), End(d), s)
DeleteChar(d) ==
  IF HasSelection(d) THEN InsertText(d, <<>>)
  ELSE Spliced(d, d.position, Right(d.text, d.position, 1), <<>>)

\* QTextEdit::append: a paragraph behind everything, wherever the cursor is
Appended(d, s) ==
  Spliced(d, Len(d.text), Len(d.text), IF d.text = <<>> THEN s ELSE <<NewLine>> \o s)

-------------------------------------------------------------------------------
(***************************************************************************)
(* The edition zone                                                        *)
(***************************************************************************)
ZoneHolds(d, w, p) ==
  LET number == BlockNumber(d.text, p)
  IN  \/ number > promptParagraph
      \/ number = promptParagraph /\ Column(d.text, w, p) >= Len(Prompt)
IsInEditionZone(d, p) == ZoneHolds(d, lines, p)

\* slip: only the cursor is looked at
CursorInEditionZone(d, w) == ZoneHolds(d, w, d.position)
SelectionHolds(d, w) == ZoneHolds(d, w, Start(d)) /\ ZoneHolds(d, w, End(d))
IsSelectionInEditionZone(d) == SelectionHolds(d, lines)

\* insertFromMimeData
Pasted(d, w, s) == IF SelectionHolds(d, w) THEN InsertText(d, s) ELSE d

-------------------------------------------------------------------------------
(***************************************************************************)
(* The command line                                                        *)
(***************************************************************************)
\* slip: all that was typed, its line breaks included
GetWholeCommand(d) ==
  SubSeq(d.text, Right(d.text, BlockStart(d.text, d.position), Len(Prompt)) + 1, Len(d.text))

GetCurrentCommand(d) ==
  LET from == Right(d.text, BlockStart(d.text, d.position), Len(Prompt))
  IN  SubSeq(d.text, from + 1, BlockEnd(d.text, from))

\* StartOfLine, where getCurrentCommand has StartOfBlock
ReplaceCurrentCommand(d, command) ==
  LET from == Right(d.text, LineStart(d.text, lines, d.position), Len(Prompt))
  IN  Spliced(d, from, LineEnd(d.text, lines, from), command)

\* slip: the command before, even if it is the current one
OneOlder(command) == IF historyIndex = 0 THEN 0 ELSE historyIndex - 1

\* the nearest older, or newer, command that is not the current one
Older(command) ==
  Max({i \in 0..(historyIndex - 1) : history[i + 1] # command} \cup {0})
Newer(command) ==
  Min({i \in (historyIndex + 1)..(Len(history) - 1) : history[i + 1] # command}
        \cup {Len(history) - 1})

Recall(d, index) ==
  /\ historyIndex' = index
  /\ doc' = ReplaceCurrentCommand(d, history[index + 1])

HandleUp(d) == history # <<>> /\ Recall(d, Older(GetCurrentCommand(d)))
HandleDown(d) == history # <<>> /\ Recall(d, Newer(GetCurrentCommand(d)))

-------------------------------------------------------------------------------
\* displayPrompt: at the cursor, in the place of a selection
Prompted(d) == InsertText(d, Prompt)
PromptBlock(d) == BlockNumber(d.text, Start(d))

QInit ==
  LET d == Appended(Appended([text |-> <<>>, position |-> 0, anchor |-> 0], Welcome), <<>>)
  IN  /\ doc = Prompted(d) /\ promptParagraph = PromptBlock(d)
      /\ history = <<>> /\ historyIndex = 0 /\ isLocked = FALSE /\ lines = {}

-------------------------------------------------------------------------------
(***************************************************************************)
(* Keys: keyPressEvent, and the context menu                               *)
(***************************************************************************)
Unlocked == ~isLocked /\ UNCHANGED <<promptParagraph, isLocked>>
Edits == Unlocked /\ UNCHANGED <<history, historyIndex>>

\* the cursor of the keys without a case of their own
EditCursor == IF IsSelectionInEditionZone(doc) THEN doc ELSE AtEnd(doc)

TypeCharacter(c) == Edits /\ doc' = InsertText(EditCursor, <<c>>)
DeleteKey == Edits /\ doc' = DeleteChar(EditCursor)
PasteKey(s) ==
  /\ Edits
  /\ \/ doc' = Pasted(EditCursor, lines, s)
     \/ HasSelection(doc) /\ doc' = Pasted(doc, lines, s)  \* with Ctrl

\* handleBackspaceKeyPress
AtPrompt(d) ==
  /\ BlockNumber(d.text, d.position) = promptParagraph
  /\ Column(d.text, lines, d.position) = Len(Prompt)

\* Backspace deletes a character, with Ctrl a word
Backspace ==
  /\ Edits /\ ~AtPrompt(doc) /\ IsSelectionInEditionZone(doc)
  /\ IF HasSelection(doc) THEN doc' = InsertText(doc, <<>>)
     ELSE \E from \in {doc.position - 1, PreviousWord(doc.text, doc.position)} :
            doc' = Spliced(doc, from, doc.position, <<>>)

\* the popup is closed without a choice
Dismissed(list) == Cardinality(list) > 1 /\ doc' = doc

Tab ==
  /\ Edits /\ IsSelectionInEditionZone(doc)
  /\ \E list \in Suggestions :
       \/ list = {} /\ doc' = InsertText(doc, <<Blank>>)
       \/ \E s \in list : doc' = ReplaceCurrentCommand(doc, s)
       \/ Dismissed(list)

Up ==
  /\ Unlocked /\ IsInEditionZone(doc, doc.position)
  /\ HandleUp(doc) /\ UNCHANGED history
Down ==
  /\ Unlocked /\ IsInEditionZone(doc, doc.position)
  /\ HandleDown(doc) /\ UNCHANGED history

\* setHome; there is no break, so that Home goes on as Down
AfterHome(select) ==
  LET start == BlockStart(doc.text, doc.position)
      home == IF BlockNumber(doc.text, start) = promptParagraph
              THEN Right(doc.text, start, Len(Prompt)) ELSE start
  IN  Placed(doc, home, IF select THEN doc.anchor ELSE home)
Home ==
  \E select \in BOOLEAN :
    LET d == AfterHome(select) IN
    /\ Unlocked /\ UNCHANGED history
    /\ IF IsInEditionZone(d, d.position) /\ history # <<>>
       THEN HandleDown(d) ELSE doc' = d /\ UNCHANGED historyIndex

PExecCommand(command) ==
  /\ Len(history) < MaxHistory
  /\ isLocked' = TRUE
  /\ history' = Append(history, command) /\ historyIndex' = Len(history')
  /\ UNCHANGED <<doc, promptParagraph>>

Return ==
  /\ ~isLocked /\ IsSelectionInEditionZone(doc)
  /\ LET command == GetCurrentCommand(doc) IN
     IF command \notin Incomplete THEN PExecCommand(command)
     ELSE /\ Edits
          /\ LET d == Appended(doc, <<>>) IN
             \E w \in Layouts(d.text) :
               LET p == LineEnd(d.text, w, d.position) IN doc' = Placed(d, p, p)

Cut == Edits /\ IsSelectionInEditionZone(doc) /\ doc' = InsertText(doc, <<>>)
PasteMenu(s) == Edits /\ doc' = Pasted(doc, lines, s)

\* only the cursor has to be in the zone
Del == Edits /\ IsInEditionZone(doc, doc.position) /\ doc' = DeleteChar(doc)

-------------------------------------------------------------------------------
(***************************************************************************)
(* The mouse, which isLocked does not stop, and QTextEdit itself           *)
(***************************************************************************)
Uncommanded == UNCHANGED <<promptParagraph, history, historyIndex, isLocked>>

\* clicks, selections, cursor keys
MoveCursor(p, a) ==
  /\ p \in 0..Len(doc.text) /\ a \in 0..Len(doc.text)
  /\ doc' = Placed(doc, p, a)
  /\ Uncommanded

\* a selection is what is pasted
MiddleClick(p, s) ==
  /\ p \in 0..Len(doc.text)
  /\ doc' = Pasted(Placed(doc, p, p), lines, IF HasSelection(doc) THEN Selected(doc) ELSE s)
  /\ Uncommanded

\* a text from another program
Drop(p, s) ==
  /\ p \in 0..Len(doc.text) /\ IsInEditionZone(doc, p)
  /\ doc' = Pasted(Placed(doc, p, p), lines, s)
  /\ Uncommanded

\* The selection, moved or copied; a selection whose cursor is out of the zone is given up.
\* What is moved is gone before it is inserted, and the layout may be the old or the new.
DropSelection(p, moves) ==
  /\ HasSelection(doc) /\ p \in 0..Len(doc.text) /\ IsInEditionZone(doc, p)
  /\ LET marked == Placed(doc, p, p)
         d == IF moves /\ IsInEditionZone(doc, doc.position)
              THEN Spliced(marked, Start(doc), End(doc), <<>>) ELSE marked
     IN  \E w \in Layouts(d.text) : doc' = Pasted(d, w, Selected(doc))
  /\ Uncommanded

\* a selection dragged to another program, or deleted by a key with Ctrl
\* (QConsole.cpp:415-419 passes those on before it looks at the zone)
RemoveSelection ==
  /\ HasSelection(doc)
  /\ doc' = InsertText(doc, <<>>)
  /\ Uncommanded

-------------------------------------------------------------------------------
(***************************************************************************)
(* The owner prints: parts of a result, and its end with a new prompt      *)
(***************************************************************************)
PrintPart(result) ==
  /\ isLocked
  /\ doc' = AtEnd(Appended(doc, result))
  /\ Uncommanded

EndsWithNewLine(s) == s # <<>> /\ s[Len(s)] = NewLine

PrintEnd(result) ==
  /\ isLocked
  /\ LET d == Appended(doc, result)
         e == IF EndsWithNewLine(result) THEN d ELSE Appended(d, <<NewLine>>)
     IN  doc' = AtEnd(Prompted(e)) /\ promptParagraph' = PromptBlock(e)
  /\ isLocked' = FALSE
  /\ UNCHANGED <<history, historyIndex>>

-------------------------------------------------------------------------------
Places == 0..Len(doc.text)
ZoneStart ==
  LET t == doc.text
      block == {q \in Breaks(t, 1, Len(t)) \cup {0} : BlockNumber(t, q) = promptParagraph}
  IN  Min({Right(t, q, Len(Prompt)) : q \in block} \cup {BlockEnd(t, q) + 1 : q \in block}
            \cup {Len(t)})
ZoneText == SubSeq(doc.text, ZoneStart + 1, Len(doc.text))
Near == LET from == ZoneStart IN {p \in Places : p + Reach >= from}

Keys ==
  \/ (\E c \in Key \cup {Blank} : TypeCharacter(c)) \/ DeleteKey \/ Backspace
  \/ Tab \/ Up \/ Down \/ Home \/ Return \/ (\E s \in Foreign : PasteKey(s))
Menu == Cut \/ Del \/ \E s \in Foreign : PasteMenu(s)
Mouse ==
  \/ \E p \in Near, s \in Foreign : MiddleClick(p, s) \/ Drop(p, s)
  \/ \E p \in Near, moves \in BOOLEAN : DropSelection(p, moves)
  \/ RemoveSelection
Owner == \E result \in Result : PrintPart(result) \/ PrintEnd(result)

Step ==
  \/ \E c \in Near \X Near : MoveCursor(c[1], c[2])
  \/ \E limit \in {ZoneStart + MaxZone} :
       /\ Keys \/ Menu \/ Mouse \/ \E result \in Result : PrintPart(result)
       /\ Len(doc'.text) > Len(doc.text) => Len(doc'.text) <= limit
  \/ \E result \in Result : PrintEnd(result)

\* A text that changes is laid out anew; a widget that is given another size wraps it anew.
LaidOut ==
  lines' \in IF <<doc.text, promptParagraph>>' = <<doc.text, promptParagraph>>
             THEN {lines} ELSE Layouts(doc.text)'
Resize == UNCHANGED doc /\ Uncommanded /\ lines' \in Layouts(doc.text)

QNext == (Step /\ LaidOut) \/ Resize

QSpec == QInit /\ [][QNext]_qvars

-------------------------------------------------------------------------------
(***************************************************************************)
(* Properties                                                              *)
(***************************************************************************)
\* The cursor stays inside the text, and the history index, which the loops
\* of the Up and Down keys run over the ends, inside the history.
QTypeOK ==
  /\ doc \in [text : Text, position : Nat, anchor : Nat]
  /\ End(doc) <= Len(doc.text)
  /\ promptParagraph \in Nat
  /\ history \in Seq(Text)
  /\ \A i \in 1..Len(history) : Breaks(history[i], 1, Len(history[i])) = {}
  /\ historyIndex \in 0..Len(history)
  /\ isLocked \in BOOLEAN
  /\ lines \in Layouts(doc.text)

\* the prompt is where it was displayed
PromptStands ==
  LET start == ZoneStart
  IN  /\ BlockNumber(doc.text, start) = promptParagraph
      /\ SubSeq(doc.text, BlockStart(doc.text, start) + 1, start) = Prompt
Kept ==
  LET start == ZoneStart
  IN  /\ Len(doc'.text) >= start
      /\ SubSeq(doc'.text, 1, start) = SubSeq(doc.text, 1, start)

\* the ways the code leaves to change what stands before the zone
Hole ==
  \/ HasSelection(doc) /\ (Del \/ RemoveSelection \/ \E p \in Places : DropSelection(p, TRUE))
  \/ ~HasSelection(doc) /\ PreviousWord(doc.text, doc.position) < ZoneStart /\ Backspace
  \/ Start(doc) < ZoneStart /\ \E result \in Result : PrintEnd(result)

\* Output, old commands and the prompt are out of reach: no key, paste, drop
\* or print changes them, wherever the cursor and its anchor are and however
\* they came there, but by the holes above: a selection that begins before
\* the prompt and is deleted by the menu, by a key with Ctrl or by a drag,
\* Backspace with Ctrl over a word that begins in the prompt, and a prompt
\* that is printed where the user has put the cursor in the meantime.
ProtectedText == [][doc'.text # doc.text /\ PromptStands /\ ~Kept => Hole]_qvars

\* What is shown is what is meant: while the zone is one block, what is recorded
\* is all of it without the prompt, also when the block is wrapped and the cursor
\* in a later line (where Return is ignored in the first columns, as in the prompt);
\* Up and Down put exactly a recorded command in its place, unless the block is
\* wrapped, leave the prompt, and change nothing only when no other command is
\* left on that side.
OneBlock == PromptStands /\ BlockNumber(doc.text, Len(doc.text)) = promptParagraph
Recalls == doc'.text # doc.text \/ historyIndex' # historyIndex
AllTheSame(from, to) == \A i \in from..to : history[i] = ZoneText
ShownIsMeant ==
  [][/\ history' # history /\ OneBlock => history' = Append(history, ZoneText)
     /\ Recalls /\ (Up \/ Down) /\ OneBlock /\ Fits(doc.text, ZoneStart) =>
          /\ Kept /\ ZoneText' = history[historyIndex' + 1]
          /\ ZoneText' = ZoneText =>
               /\ Up => AllTheSame(1, historyIndex)
               /\ Down => AllTheSame(historyIndex + 2, Len(history))]_qvars

\* "Delete only in the editing zone", says del() (QConsole.cpp:772): the menu's
\* Delete never changes what stands before the zone.
DeletesOnlyInZone == [][PromptStands /\ Del => Kept]_qvars
===============================================================================
