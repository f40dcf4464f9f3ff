-------------------------------- MODULE Memo --------------------------------
(***************************************************************************)
(* The text field with a growing buffer (sdk/TMemo.c, its twin and         *)
(* gui_draw_memo of gui.c) and the two programs built on it: the command   *)
(* line of terminal.c and the documents of editor.c.                       *)
(***************************************************************************)
EXTENDS Naturals, Sequences, FiniteSets, SequencesExt, FiniteSetsExt

CONSTANTS
    FirstSize,    \* AllocatedSize of a new memo, 2048
    LastSize,     \* bound: the size the user heap refuses to exceed
    CommandSize,  \* CMD_BUFFER_SIZE
    ReadLimit,    \* what the editor reads of a file, 4096
    FileLimit,    \* bound: the longest file
    RowsShown,    \* max_visible_lines
    MemoPrograms

ASSUME MemoAssumption ==
    /\ {FirstSize, LastSize, CommandSize, ReadLimit, FileLimit, RowsShown} \subseteq Nat \ {0}
    /\ FirstSize > 1 /\ FirstSize <= LastSize
    /\ MemoPrograms \subseteq {"terminal", "editor"}

\* "char" is any printable character, "prompt" the four of "C:\>", "notice" a message of
\* the program; a memo keeps no "tab" and takes a "return" for a "line".
Marks == {"char", "line", "return", "tab", "prompt", "notice"}
Nowhere == "empty"   \* the constant "" a cleared twin points to

VARIABLES
    who,       \* the program
    text,      \* Buffer, TextLength characters of it
    size,      \* AllocatedSize
    block,     \* the block of the heap Buffer is
    drawn,     \* TextPointer of the twin
    scroll,    \* ScrollY of the wrapper
    rolled,    \* ScrollY of the twin
    line,      \* cmd_buffer and cmd_idx of the terminal
    file,      \* the file whose path is in the edit of the editor
    clean,     \* history: nothing was typed since the file was read
    starved    \* history: realloc failed

memovars == <<who, text, size, block, drawn, scroll, rolled, line, file, clean, starved>>

Contents == UNION {[1 .. n -> {"char", "line", "return", "tab"}] : n \in 0 .. FileLimit}

MemoInit ==
    /\ who \in MemoPrograms
    /\ text = IF who = "terminal" THEN <<"prompt">> ELSE << >>
    /\ size = FirstSize /\ block = "first" /\ drawn = block
    /\ scroll = 0 /\ rolled = 0
    /\ line = << >>
    /\ file \in IF who = "editor" THEN Contents ELSE {<< >>}
    /\ clean = FALSE /\ starved = FALSE

-----------------------------------------------------------------------------
(* GUI_Memo_AddChar on a memo m == [text, size, block, drawn, starved] *)

Present == [text |-> text, size |-> size, block |-> block, drawn |-> drawn, starved |-> starved]

MovesTo(b) == IF b = "first" THEN "second" ELSE "first"

\* Mutant: the twin keeps pointing to the buffer that was there before it grew.
BadAddsMark(m, c) ==
    LET full  == Len(m.text) + 2 >= m.size
        grown == IF full THEN [m EXCEPT !.size = 2 * @, !.block = MovesTo(@)] ELSE m
    IN  IF full /\ 2 * m.size > LastSize THEN [m EXCEPT !.starved = TRUE]
        ELSE [grown EXCEPT !.text = Append(@, c)]

\* The buffer doubles, and may move, when two more do not fit.
AddsMark(m, c) ==
    LET full  == Len(m.text) + 2 >= m.size
        grown == IF full THEN [m EXCEPT !.size = 2 * @, !.block = MovesTo(@)] ELSE m
    IN  CASE c = "tab" -> [m EXCEPT !.drawn = m.block]
          [] c # "tab" /\ full /\ 2 * m.size > LastSize -> [m EXCEPT !.starved = TRUE]
          [] OTHER -> [grown EXCEPT !.text = Append(@, IF c = "return" THEN "line" ELSE c),
                                    !.drawn = grown.block]

ErasesMark(m) ==
    [m EXCEPT !.text = IF @ = << >> THEN @ ELSE Front(@), !.drawn = m.block]

\* GUI_Memo_AddStr.
AddsText(m, s) ==
    LET after[i \in 0 .. Len(s)] == IF i = 0 THEN m ELSE AddsMark(after[i - 1], s[i])
    IN  after[Len(s)]

\* GUI_Memo_Clear.
Cleared(m) == [m EXCEPT !.text = << >>, !.drawn = Nowhere]

Becomes(m) ==
    /\ text' = m.text /\ size' = m.size /\ block' = m.block
    /\ drawn' = m.drawn /\ starved' = m.starved

-----------------------------------------------------------------------------
(* Scrolling *)

\* GUI_Memo_SetScroll: only the lower bound is kept.
Scrolls(n) ==
    /\ scroll' = n /\ rolled' = n
    /\ UNCHANGED <<who, text, size, block, drawn, line, file, clean, starved>>

ClicksBar ==
    \/ scroll >= 2 /\ Scrolls(scroll - 2)
    \/ scroll = 1 /\ Scrolls(0)
    \/ scroll <= RowsShown + 1 /\ Scrolls(scroll + 2)   \* bound on the clicks in a row

Rows(t) ==
    LET ends == Cardinality({i \in DOMAIN t : t[i] = "line"})
    IN  Max({1, ends + (IF t # << >> /\ Last(t) # "line" THEN 1 ELSE 0)})

\* gui_draw_memo brings the scroll of the twin back to the text.
DrawsMemo ==
    /\ LET t == IF drawn = Nowhere THEN << >> ELSE text
       IN  rolled' = IF Rows(t) <= RowsShown THEN 0 ELSE Min({rolled, Rows(t) - RowsShown})
    /\ UNCHANGED <<who, text, size, block, drawn, scroll, line, file, clean, starved>>

-----------------------------------------------------------------------------
(* The terminal *)

\* Processar_Comando_Terminal: clear empties the screen, the others print.
Prints(m, command) ==
    IF command = "clear" THEN Cleared(m) ELSE AddsText(m, <<"notice", "line">>)

TerminalEnter ==
    /\ who = "terminal"
    /\ LET m == AddsMark(Present, "line")
       IN  \/ /\ line = << >>
             /\ Becomes(AddsMark(m, "prompt"))
             /\ UNCHANGED <<scroll, rolled>>
          \/ \E command \in {"clear", "other"} :
             /\ line # << >>
             /\ Becomes(AddsMark(Prints(m, command), "prompt"))
             /\ scroll' = IF command = "clear" THEN 0 ELSE scroll
             /\ rolled' = IF command = "clear" THEN 0 ELSE rolled
    /\ line' = << >>
    /\ UNCHANGED <<who, file, clean>>

TerminalTypes ==
    /\ who = "terminal" /\ Len(line) < CommandSize - 1
    /\ line' = Append(line, "char")
    /\ Becomes(AddsMark(Present, "char"))
    /\ UNCHANGED <<who, scroll, rolled, file, clean>>

TerminalErases ==
    /\ who = "terminal" /\ line # << >>
    /\ line' = Front(line)
    /\ Becomes(ErasesMark(Present))
    /\ UNCHANGED <<who, scroll, rolled, file, clean>>

-----------------------------------------------------------------------------
(* The editor *)

\* Mutant: the last character that was read is lost.
BadEditorLoads ==
    /\ who = "editor" /\ file # << >>
    /\ Becomes(AddsText(Cleared(Present), SubSeq(file, 1, Min({ReadLimit, Len(file)}) - 1)))
    /\ scroll' = 0 /\ rolled' = 0
    /\ clean' = TRUE
    /\ UNCHANGED <<who, line, file>>

\* OnBtnCarregarClick: the beginning of the file, or a notice in its place.
EditorLoads ==
    /\ who = "editor"
    /\ Becomes(AddsText(Cleared(Present),
                        IF file = << >> THEN <<"notice">>
                        ELSE SubSeq(file, 1, Min({ReadLimit, Len(file)}))))
    /\ scroll' = 0 /\ rolled' = 0
    /\ clean' = TRUE
    /\ UNCHANGED <<who, line, file>>

\* OnBtnSalvarClick: a failed write leaves its notice in the document.
EditorSaves ==
    /\ who = "editor"
    /\ file' = text
    /\ UNCHANGED <<who, text, size, block, drawn, scroll, rolled, line, clean, starved>>

EditorFails ==
    /\ who = "editor"
    /\ Becomes(AddsText(Present, <<"line", "notice">>))
    /\ clean' = FALSE
    /\ UNCHANGED <<who, scroll, rolled, line, file>>

\* GUI_ProcessKeyboard.
EditorTypes ==
    /\ who = "editor"
    /\ \/ \E c \in {"char", "return"} : Becomes(AddsMark(Present, c))
       \/ Becomes(ErasesMark(Present))
    /\ clean' = FALSE
    /\ UNCHANGED <<who, scroll, rolled, line, file>>

MemoNext ==
    \/ ClicksBar \/ DrawsMemo
    \/ TerminalEnter \/ TerminalTypes \/ TerminalErases
    \/ EditorLoads \/ EditorSaves \/ EditorFails \/ EditorTypes

MemoSpec == MemoInit /\ [][MemoNext]_memovars

-----------------------------------------------------------------------------
(* Properties *)

MemoTypeOK ==
    /\ who \in MemoPrograms
    /\ ToSet(text) \subseteq Marks /\ size \in FirstSize .. LastSize
    /\ block \in {"first", "second"} /\ drawn \in {"first", "second", Nowhere}
    /\ scroll \in 0 .. RowsShown + 3 /\ rolled \in 0 .. RowsShown + 3
    /\ {clean, starved} \subseteq BOOLEAN

\* The text and its end fit in the buffer, and the twin points into that buffer or, while
\* there is no text, at the constant "": never at the block realloc gave back (TMemo.c).
MemoTrue ==
    /\ Len(text) < size
    /\ drawn = Nowhere => text = << >>
    /\ drawn # Nowhere => drawn = block

\* The line the terminal will execute is the one on the screen, after the last prompt: the
\* program keeps the two apart (cmd_buffer and the memo).  realloc that fails breaks it.
LineTrue ==
    who = "terminal" /\ ~starved => IsSuffix(<<"prompt">> \o line, text)

\* Reading a file and saving it untouched changes nothing in it, when the file is no longer
\* than what is read and has neither tabs nor carriage returns (OnBtnCarregarClick).
SavesWhatItRead ==
    [][file' # file /\ clean =>
          \/ Len(file) > ReadLimit \/ file = << >> \/ starved
          \/ ToSet(file) \cap {"tab", "return"} # {}]_memovars

\* Both: the text in memory, on the screen and in the program is one (TMemo.c, terminal.c).
TextsTrue == MemoTrue /\ LineTrue
=============================================================================
