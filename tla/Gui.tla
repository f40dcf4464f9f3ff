-------------------------------- MODULE Gui --------------------------------
(***************************************************************************)
(* The window of a program: gui/wm.c, gui/z_order.c, gui_interaction.c,    *)
(* events/input_events.c and sdk/libgui.c, driven by the main loop of each *)
(* program of Runtime_sdk.  Every control exists twice: the wrapper the    *)
(* program holds (TGUIControl) and its twin (TControl), which is drawn.    *)
(* Both are told of a click on their own and each decides for itself.      *)
(* The explorer forwards clicks on the body of the window, but then moves  *)
(* the point of the click while the button is held, so that a program may  *)
(* read any point, the title bar and the outside included.                 *)
(***************************************************************************)
EXTENDS Naturals, FiniteSets

CONSTANTS
    TextLimit,    \* the longest text of a TEdit, 254
    CaptionSize   \* the bytes of the caption of its twin, 64

ASSUME TextAssumption == {TextLimit, CaptionSize} \subseteq Nat \ {0}

Radios == {"radio1", "radio2"}
Texts == {"edit", "memo"}
Controls == Radios \cup Texts \cup {"check", "button"}
Spots == Controls \cup {"close", "title", "form", "outside"}
Wrapper == "wrapper"   \* a wrapper passed where a twin belongs
None == "none"
Keys == {None, "char", "erase"}

Programs == {"temp", "tarefa", "exec", "gfile", "editor", "chip", "calc", "serial",
             "audio", "test_try", "dsg", "debug", "terminal", "gpci", "gtarefa"}

\* The programs that put the caret back where it last was.
Keepers == {"temp", "tarefa", "exec", "gfile", "editor", "chip", "calc"}

\* The programs that take the first of a run of clicks.
Debouncers == {"calc", "serial"}

\* The programs that place the caret in their first field, passing its wrapper.
Starters == Keepers \cup {"debug", "terminal"}

\* The loops that look at active_focus_slot.
LookAtFocus == {"exec", "gfile", "editor", "chip", "terminal", "gpci", "gtarefa"}

VARIABLES
    program,   \* whose form it is
    ui         \* its windows: see NewWindow

guivars == <<program, ui>>

\* wm_init, wm_add_window and GUI_InitApplication.
NewWindow(p) ==
    [listed   |-> TRUE,    \* the form is in the z-order
     dragging |-> FALSE,
     moved    |-> FALSE,   \* history: the form left its place in the buffer
     caret    |-> IF p \in Starters THEN Wrapper ELSE None,   \* g_focused_control
     kept     |-> IF p \in Starters THEN Wrapper ELSE None,   \* ultimo_controle_focado
     focus    |-> None,    \* ActiveFocus
     checked  |-> {},      \* Checked of the wrappers
     shown    |-> {},      \* Checked of the twins
     pressed  |-> {},      \* the twins whose State is 2
     text     |-> 0,       \* the length of the text of the edit
     caption  |-> 0,       \* and of the caption of its twin
     spilled  |-> FALSE,   \* history: a caption ran over the fields behind it
     down     |-> FALSE,   \* last_buttons
     hold     |-> 0,       \* mouse_hold_timer, or mouse_was_pressed
     at       |-> None,    \* last_x and last_y, while the button is down
     spot     |-> None]    \* ultimo_x and ultimo_y, likewise

GuiInit ==
    /\ program \in Programs
    /\ ui = NewWindow(program)

-----------------------------------------------------------------------------
(* The twins *)

\* gui_process_press, controls of the window.
Presses(u, s) ==
    CASE s = "check"     -> [u EXCEPT !.caret = s,
                                      !.shown = IF s \in @ THEN @ \ {s} ELSE @ \cup {s}]
      [] s \in Radios    -> [u EXCEPT !.caret = s,
                                      !.shown = IF s \in @ THEN @ ELSE (@ \ Radios) \cup {s}]
      [] s \in {"edit", "memo", "button"}
                         -> [u EXCEPT !.caret = s, !.pressed = @ \cup {s}]
      [] OTHER           -> [u EXCEPT !.caret = None]

\* EVENT_MOUSE_DOWN: the bar of the form takes what falls on it.
MouseDown(u, s) ==
    CASE ~u.listed \/ s = "outside" -> u
      [] u.listed /\ s = "close"    -> [u EXCEPT !.listed = FALSE]
      [] u.listed /\ s = "title"    -> [u EXCEPT !.dragging = TRUE]
      [] OTHER                      -> Presses(u, s)

MouseMove(u) == [u EXCEPT !.moved = @ \/ u.dragging]

\* Mutant: the release ends no drag.
BadMouseUp(u) == [u EXCEPT !.pressed = IF u.listed THEN {} ELSE @]

\* EVENT_MOUSE_UP and gui_process_release: the form under the pointer, or the active one.
MouseUp(u) ==
    [u EXCEPT !.dragging = FALSE,
              !.pressed = IF u.listed THEN {} ELSE @]

\* events_process_mouse: a move, then the edge of the button.
MouseEvent(u, s, button) ==
    LET v == IF u.at # None /\ s # u.at THEN MouseMove(u) ELSE u
        w == CASE button /\ ~u.down -> MouseDown(v, s)
               [] ~button /\ u.down -> MouseUp(v)
               [] OTHER             -> v
    IN  [w EXCEPT !.down = button, !.at = IF button THEN s ELSE None,
                   !.spot = IF button THEN s ELSE None]

-----------------------------------------------------------------------------
(* The wrappers *)

\* GUI_CheckBox_Toggle.
Toggles(u, c) == [u EXCEPT !.checked = IF c \in @ THEN @ \ {c} ELSE @ \cup {c}]

\* GUI_RadioButton_Select.
Selects(u, c) == [u EXCEPT !.checked = IF c \in @ THEN @ ELSE (@ \ Radios) \cup {c}]

\* GUI_ProcessMouseClick.
ClickReaches(u, s) ==
    CASE s = "check"    -> Toggles(u, s)
      [] s \in Radios   -> Selects(u, s)
      [] s \in Texts    -> [u EXCEPT !.focus = s, !.caret = s]
      [] s = "button"   -> u
      [] OTHER          -> [u EXCEPT !.focus = None, !.caret = None]

\* GUI_ProcessKeyboard, and strcpy of gui_set_prop into the caption of the twin.
Types(u, key) ==
    IF key = None \/ u.focus # "edit" THEN u
    ELSE LET n == CASE key = "erase" /\ u.text > 0        -> u.text - 1
                    [] key = "char" /\ u.text < TextLimit -> u.text + 1
                    [] OTHER                              -> u.text
         IN  [u EXCEPT !.text = n, !.caption = n, !.spilled = @ \/ n + 1 > CaptionSize]

-----------------------------------------------------------------------------
(* The main loops *)

\* Maintenance of the caret: gui_set_prop(ultimo_controle_focado, PROP_SET_FOCUS, 1).
Keeps(u) ==
    IF u.caret = None THEN [u EXCEPT !.caret = u.kept] ELSE [u EXCEPT !.kept = u.caret]

\* A click is taken when the timer is out, and dropped otherwise.
Hits(u, s) ==
    IF s = None \/ u.hold # 0 THEN u
    ELSE ClickReaches(MouseEvent([u EXCEPT !.hold = 2], s, TRUE), s)

\* Tratamento do mouse_hold_timer: the button goes up where it went down.
Releases(u) ==
    CASE u.hold = 1 -> [MouseEvent(u, u.spot, FALSE) EXCEPT !.hold = 0]
      [] u.hold = 2 -> [u EXCEPT !.hold = 1]
      [] OTHER      -> u

\* A click whose target was a control becomes the place the caret is put back to.
Remembers(u, s) ==
    IF s \in Controls /\ u.caret # None THEN [u EXCEPT !.kept = u.caret] ELSE u

TempLoop(u, key, s) ==
    LET v == Types(Keeps(u), key)
    IN  Releases(IF v.hold = 0 THEN Remembers(Hits(v, s), s) ELSE v)

TarefaLoop(u, key, s) ==
    LET v == Types(Keeps(u), key)
    IN  Releases(IF v.hold = 0 THEN Remembers(Hits(v, s), s) ELSE v)

\* Keys only while the desktop gives the window its focus; Enter starts the program.
ExecLoop(u, key, s, front) ==
    LET v == IF front THEN Types(Keeps(u), key) ELSE Keeps(u)
    IN  Releases(IF v.hold = 0 THEN Remembers(Hits(v, s), s) ELSE v)

GfileLoop(u, key, s, front) ==
    LET v == IF front THEN Types(Keeps(u), key) ELSE Keeps(u)
    IN  Releases(IF v.hold = 0 THEN Remembers(Hits(v, s), s) ELSE v)

\* Keys, clicks and the release only with the focus of the desktop.
EditorLoop(u, key, s, front) ==
    LET v == Types(Keeps(u), key)
    IN  IF ~front THEN Keeps(u)
        ELSE Releases(IF v.hold = 0 THEN Remembers(Hits(v, s), s) ELSE v)

\* A ROM that is running keeps the caret off.  The program forces it on its field after a
\* click within the field, off its right and lower border, and after a click on the button
\* whose read succeeds (OnBtnAbrirClick and gui_set_prop).
ChipLoop(u, key, s, front, rom, forced) ==
    LET k == IF u.caret = None /\ rom THEN u ELSE Keeps(u)
        v == IF front /\ k.caret = Wrapper THEN Types(k, key) ELSE k
        w == Hits(v, s)
    IN  Releases(CASE v.hold = 0 /\ forced /\ s = "edit" ->
                        [w EXCEPT !.caret = Wrapper, !.kept = Wrapper]
                   [] v.hold = 0 /\ forced /\ s = "button" -> [w EXCEPT !.caret = Wrapper]
                   [] OTHER -> w)

\* mouse_was_pressed: only the first of a run of clicks is taken, and the first pass
\* without a click ends the run.  The button goes up at the last of them.
Debounces(u, s) ==
    CASE s # None /\ u.hold = 0 -> ClickReaches(MouseEvent([u EXCEPT !.hold = 1], s, TRUE), s)
      [] s = None /\ u.hold = 1 -> [MouseEvent(u, u.spot, FALSE) EXCEPT !.hold = 0]
      [] s # None /\ u.hold = 1 -> [u EXCEPT !.spot = s]
      [] OTHER                  -> u

\* Digits and operators go to the calculator and not to the field.
CalcLoop(u, key, s) ==
    LET v == Types(Keeps(u), key)
    IN  IF v.hold = 0 THEN Remembers(Debounces(v, s), s) ELSE Debounces(v, s)

SerialLoop(u, key, s) == Debounces(Types(u, key), s)

AudioLoop(u, key, s)    == Releases(Hits(Types(u, key), s))
TestTryLoop(u, key, s)  == Releases(Hits(Types(u, key), s))
DsgLoop(u, key, s)      == Releases(Hits(Types(u, key), s))
DebugLoop(u, s)         == Releases(Hits(u, s))
TerminalLoop(u, s, front)     == IF front THEN Releases(Hits(u, s)) ELSE u
GpciLoop(u, key, s, front)    == IF front THEN Releases(Hits(Types(u, key), s)) ELSE u
GtarefaLoop(u, key, s, front) == IF front THEN Releases(Hits(Types(u, key), s)) ELSE u

\* One pass of the loop, with the key and the click that wait for it.
Passes(key, s, front, rom, forced) ==
    /\ ui' = CASE program = "temp"     -> TempLoop(ui, key, s)
               [] program = "tarefa"   -> TarefaLoop(ui, key, s)
               [] program = "exec"     -> ExecLoop(ui, key, s, front)
               [] program = "gfile"    -> GfileLoop(ui, key, s, front)
               [] program = "editor"   -> EditorLoop(ui, key, s, front)
               [] program = "chip"     -> ChipLoop(ui, key, s, front, rom, forced)
               [] program = "calc"     -> CalcLoop(ui, key, s)
               [] program = "serial"   -> SerialLoop(ui, key, s)
               [] program = "audio"    -> AudioLoop(ui, key, s)
               [] program = "test_try" -> TestTryLoop(ui, key, s)
               [] program = "dsg"      -> DsgLoop(ui, key, s)
               [] program = "debug"    -> DebugLoop(ui, s)
               [] program = "terminal" -> TerminalLoop(ui, s, front)
               [] program = "gpci"     -> GpciLoop(ui, key, s, front)
               [] program = "gtarefa"  -> GtarefaLoop(ui, key, s, front)
    /\ UNCHANGED program

\* Only some loops look at the focus of the desktop, one at its ROM and at its field; Types
\* loses a key that nothing has the focus for.
GuiNext ==
    \E key \in IF ui.focus = "edit" THEN Keys ELSE {None}, s \in Spots \cup {None},
       front \in IF program \in LookAtFocus THEN BOOLEAN ELSE {TRUE},
       rom \in IF program = "chip" THEN BOOLEAN ELSE {FALSE},
       forced \in IF program = "chip" THEN BOOLEAN ELSE {FALSE} :
           Passes(key, s, front, rom, forced)

GuiSpec == GuiInit /\ [][GuiNext]_guivars

-----------------------------------------------------------------------------
(* Properties *)

GuiTypeOK ==
    /\ program \in Programs
    /\ ui.checked \cup ui.shown \subseteq Radios \cup {"check"}
    /\ ui.pressed \subseteq Controls
    /\ {ui.caret, ui.kept} \subseteq Controls \cup {Wrapper, None}
    /\ ui.focus \in Texts \cup {None}
    /\ ui.text \in 0 .. TextLimit /\ ui.caption \in 0 .. TextLimit
    /\ ui.hold \in 0 .. 2

\* What is drawn is what the program holds, as long as the bar of the form was not hit on
\* its [X] or dragged (gui_process_press and GUI_ProcessMouseClick each mark the click on their
\* own) and no caption ran over.
TwinsAgree ==
    ui.listed /\ ~ui.moved /\ ~ui.spilled =>
        /\ ui.shown = ui.checked /\ ui.caption = ui.text
        /\ Cardinality(ui.shown \cap Radios) <= 1

\* No control stays pressed and no drag goes on once the button is up, and the form never
\* leaves its place in the buffer, which GUI_ProcessMouseClick relies on.  In the calculator
\* and the serial monitor it does: they let the button up where it was last seen.
NothingStuck ==
    /\ ui.pressed # {} \/ ui.dragging => ui.down /\ ui.hold # 0
    /\ ui.moved => program \in Debouncers

\* Where the caret is drawn in a field, the keys go to that field: g_focused_control and
\* ActiveFocus.  Not so in a program that puts the caret back (Keepers).
CaretTrue ==
    program \notin Keepers /\ ui.caret \in Texts => ui.focus = ui.caret

\* All three, in every program that has a form (GUI_ProcessMouseClick, wm.c).
FormsTrue == TwinsAgree /\ NothingStuck /\ CaretTrue
=============================================================================
