------------------------------- MODULE Chip8 -------------------------------
(***************************************************************************)
(* The CHIP-8 of chip.c between its program, its keys and its window.  Of  *)
(* the instructions those stay that touch the call stack, the wait for a   *)
(* key, the keypad and the timers; the others change registers, memory and *)
(* display that nothing else here depends on.  An address is one of a few. *)
(***************************************************************************)
EXTENDS Integers, Sequences

CONSTANTS
    StackDepth,      \* 16
    Addresses,
    Pads,            \* keys of the keypad
    Hold,            \* frames a key is held, 6
    Cycles,          \* of a frame, 10
    TimerTop         \* bound: 255

ASSUME Chip8Assumption ==
    /\ {StackDepth, Hold, Cycles, TimerTop} \subseteq Nat \ {0} /\ Addresses \subseteq Nat
    /\ StackDepth < 256   \* sp has eight bits

VARIABLES
    chip,        \* [pc, sp, stack, awaits, down, dt, st] of the machine
    keyHold,     \* key_hold: static, it outlives the program
    loaded,      \* rom_carregada
    form,        \* [caret, kept, listed]: g_focused_control, ultimo_controle_focado, and
                 \* whether the form is still in the z-order
    left,        \* cycles the frame still has; 0 between frames
    calls,       \* history: the addresses the program is to return to
    pressed,     \* history: frames that began since a key was pressed, up to Hold + 1
    since,       \* history: likewise since any key came, one off the keypad included
    touched,     \* history: the keys pressed since keys last stayed away for Hold frames
    smashed      \* history: a call or a return went past the stack

histories == <<pressed, since, touched>>
chipvars == <<chip, keyHold, loaded, form, left, calls, histories, smashed>>

\* Chip8_Init: the machine is all zero but for the font and its first address.
NewChip ==
    [pc |-> 0, sp |-> 0, stack |-> [i \in 0 .. StackDepth - 1 |-> 0], awaits |-> FALSE,
     down |-> {}, dt |-> 0, st |-> 0]

ChipInit ==
    /\ chip = NewChip /\ keyHold = [k \in Pads |-> 0]
    /\ loaded = FALSE /\ left = 0
    /\ form = [caret |-> "edit", kept |-> "edit", listed |-> TRUE]
    /\ pressed = [k \in Pads |-> Hold + 1] /\ since = Hold + 1 /\ touched = {}
    /\ calls = << >> /\ smashed = FALSE

-----------------------------------------------------------------------------
(* The window *)

\* The caret is on the field of the path, on the twin of that field or of the button, or
\* nowhere.  The loop remembers where it was and, without a program, puts it back there;
\* at least one turn of the loop lies between two clicks.
CaretKept(f, rom) ==
    CASE f.caret # "none"         -> [f EXCEPT !.kept = f.caret]
      [] f.caret = "none" /\ ~rom -> [f EXCEPT !.caret = f.kept]
      [] OTHER                    -> f

\* events_process_mouse, GUI_ProcessMouseClick and the lines after them: a click within the
\* field ends on the field, one on its right or lower border on its twin, any other takes
\* the caret away; the [X] of the form takes it out of the z-order.
ClicksForm(s) ==
    LET f == [form EXCEPT !.listed = @ /\ s # "close",
                          !.caret = CASE s = "within" -> "edit"
                                      [] s = "border" -> "twin"
                                      [] OTHER        -> "none"]
    IN  /\ left = 0
        /\ form' = CaretKept(f, loaded)
        /\ UNCHANGED <<chip, keyHold, loaded, left, calls, histories, smashed>>

\* The click on the button, and OnBtnAbrirClick: no path, no effect; otherwise the machine
\* is cleared before the read.  One that succeeds puts the caret on the field, whatever
\* value gui_set_prop is given; one that fails leaves no program and the caret where
\* gui_process_press put it.
OpensRom(outcome) ==
    LET pressedOn == IF form.listed THEN "button" ELSE form.caret
        f == [form EXCEPT !.caret = IF outcome = "reads" THEN "edit" ELSE pressedOn]
    IN  /\ left = 0
        /\ \/ outcome = "empty" /\ UNCHANGED <<chip, loaded, calls, smashed>>
           \/ /\ outcome \in {"fails", "reads"}
              /\ chip' = NewChip /\ loaded' = (outcome = "reads")
              /\ calls' = << >> /\ smashed' = FALSE
        /\ form' = CaretKept(f, loaded')
        /\ UNCHANGED <<keyHold, left, histories>>

-----------------------------------------------------------------------------
(* The keys *)

\* A key sets the frames of every key that is down.
Held(down) == [k \in Pads |-> IF k \in down THEN Hold ELSE keyHold[k]]

\* Process_KeyInput: a key the machine waits for ends the wait; one off the keypad does
\* nothing.
WithKeys(ks) == [chip EXCEPT !.down = @ \cup ks, !.awaits = @ /\ ks = {}]

\* One frame more, counted up to Hold + 1.
Frames(n) == IF n > Hold THEN Hold + 1 ELSE n + 1

\* A turn of the loop with the focus: no key, a key of the keypad or another one, which
\* also sets the hold of what is down; then the keys that are held, then the cycles.  While
\* the field has the caret the machine stands still.
BeginsFrame(ks, came) ==
    /\ left = 0 /\ loaded /\ form.caret # "edit" /\ (came \/ ks = {})
    /\ LET c == WithKeys(ks)
           h == IF came THEN Held(c.down) ELSE keyHold
       IN  /\ chip' = [c EXCEPT !.down = {k \in Pads : h[k] > 0}]
           /\ keyHold' = [k \in Pads |-> IF h[k] > 0 THEN h[k] - 1 ELSE 0]
    /\ pressed' = [k \in Pads |-> IF k \in ks THEN 1 ELSE Frames(pressed[k])]
    /\ since' = IF came THEN 1 ELSE Frames(since)
    /\ touched' = IF since' > Hold THEN {} ELSE touched \cup ks
    /\ left' = Cycles + 1
    /\ UNCHANGED <<loaded, form, calls, smashed>>

-----------------------------------------------------------------------------
(* Chip8_Cycle *)

\* A cycle that waits does nothing.
InCycle == left > 1 /\ left' = left - 1 /\ UNCHANGED <<keyHold, loaded, form, histories>>

Waits == InCycle /\ chip.awaits /\ UNCHANGED <<chip, calls, smashed>>

Runs == InCycle /\ ~chip.awaits

\* 1NNN and all that only moves on or jumps.
Jumps(a) == Runs /\ chip' = [chip EXCEPT !.pc = a] /\ UNCHANGED <<calls, smashed>>

\* 2NNN: the seventeenth call writes past the array.
Calls(a) ==
    /\ Runs
    /\ IF chip.sp \in 0 .. StackDepth - 1
       THEN /\ chip' = [chip EXCEPT !.stack[chip.sp] = chip.pc, !.sp = @ + 1, !.pc = a]
            /\ UNCHANGED smashed
       ELSE smashed' = TRUE /\ chip' = [chip EXCEPT !.sp = (@ + 1) % 256, !.pc = a]
    /\ calls' = Append(calls, chip.pc)

\* 00EE: a return without a call wraps the 8-bit sp and reads far past the array.
Returns ==
    /\ Runs
    /\ LET sp == (chip.sp + 255) % 256
       IN  IF sp \in 0 .. StackDepth - 1
           THEN chip' = [chip EXCEPT !.sp = sp, !.pc = chip.stack[sp]] /\ UNCHANGED smashed
           ELSE /\ \E a \in Addresses : chip' = [chip EXCEPT !.sp = sp, !.pc = a]
                /\ smashed' = TRUE
    /\ calls' = IF calls = << >> THEN calls ELSE SubSeq(calls, 1, Len(calls) - 1)

\* FX0A.
AwaitsKey == Runs /\ chip' = [chip EXCEPT !.awaits = TRUE] /\ UNCHANGED <<calls, smashed>>

\* FX15 and FX18.
SetsTimer(n) ==
    /\ Runs
    /\ chip' \in {[chip EXCEPT !.dt = n], [chip EXCEPT !.st = n]}
    /\ UNCHANGED <<calls, smashed>>

Down(n) == IF n > 0 THEN n - 1 ELSE 0

\* Chip8_UpdateTimers, also while the machine waits.
EndsFrame ==
    /\ left = 1 /\ left' = 0
    /\ chip' = [chip EXCEPT !.dt = Down(@), !.st = Down(@)]
    /\ UNCHANGED <<keyHold, loaded, form, calls, histories, smashed>>

ChipNext ==
    \/ \E outcome \in {"empty", "fails", "reads"} : OpensRom(outcome)
    \/ \E s \in {"within", "border", "elsewhere", "close"} : ClicksForm(s)
    \/ \E ks \in {{}} \cup {{k} : k \in Pads}, came \in BOOLEAN : BeginsFrame(ks, came)
    \/ \E a \in Addresses : Jumps(a) \/ Calls(a)
    \/ Waits \/ Returns \/ AwaitsKey \/ EndsFrame
    \/ \E n \in 1 .. TimerTop : SetsTimer(n)

ChipSpec == ChipInit /\ [][ChipNext]_chipvars

-----------------------------------------------------------------------------
(* Properties *)

ChipTypeOK ==
    /\ chip.sp \in 0 .. 255 /\ chip.pc \in Addresses \cup {0} /\ chip.down \subseteq Pads
    /\ chip.dt \in 0 .. TimerTop /\ chip.st \in 0 .. TimerTop
    /\ keyHold \in [Pads -> 0 .. Hold] /\ left \in 0 .. Cycles + 1
    /\ form.kept \in {"edit", "twin", "button"} /\ form.caret \in {form.kept, "none"}
    /\ since \in 1 .. Hold + 1 /\ touched \subseteq Pads

\* While a frame runs a key is down in the Hold frames that begin with its press, even when
\* another program was loaded or the field had the caret in between; after them it stays
\* down only as long as keys, on the keypad or off it, keep coming at most Hold frames
\* apart, since every key renews those that are down; without a program nothing waits and
\* the caret is where it last was; and until a call or a return leaves the stack, it holds
\* the addresses the program is to return to (main, Process_KeyInput and Chip8_Cycle).
ChipWhole ==
    /\ left > 0 => {k \in Pads : pressed[k] <= Hold} \subseteq chip.down
    /\ chip.down \subseteq touched
    /\ ~loaded => ~chip.awaits /\ left = 0 /\ form.caret = form.kept
    /\ ~smashed => /\ chip.sp = Len(calls)
                   /\ \A i \in 1 .. Len(calls) : chip.stack[i - 1] = calls[i]
=============================================================================
