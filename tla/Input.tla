-------------------------------- MODULE Input --------------------------------
(***************************************************************************)
(* Keyboard and mouse: the PS/2 controller, whose single output buffer     *)
(* both share (hw/ps2.c), the two interrupt handlers (keyboard.c, mouse.c) *)
(* and the readers of the key ring.  mouse_init polls for the answers of   *)
(* the mouse with interrupts on, so that the handler may take them first.  *)
(***************************************************************************)
EXTENDS Integers, FiniteSets, Ring

CONSTANTS
    Commands,  \* bytes mouse_init sends to the mouse and reads an answer for (8)
    Span,      \* what the 8 bits of a motion count to (256)
    Width,     \* screen_width
    Motion,    \* how far at most the mouse moves between two packets
    LineSize   \* CMD_BUFFER_SIZE of the shell

ASSUME InputAssumption ==
    /\ Commands \in Nat /\ Commands > 1
    /\ Span \in Nat /\ Motion \in Nat /\ Motion < Span
    /\ Width \in Nat \ {0} /\ LineSize \in Nat \ {0}

\* What abnt2_map and abnt2_shift_map tell apart.
Lower == 1
Upper == 2
Enter == 3
Erase == 4
Shifts == {"lshift", "rshift"}
Keys   == Shifts \cup {"caps", "letter", "enter", "erase"}

VARIABLES
    buffer,    \* the output buffer of the controller: who wrote it, and what
    coming,    \* the bytes of a packet the mouse has still to send
    commands,  \* the commands mouse_init has still to send
    awaiting,  \* mouse_init polls for an answer
    owed,      \* the mouse has an answer to send
    mouse,     \* mouse_cycle, mouse_byte, mouse_x, mouse_buttons
    keyboard,  \* shift_pressed, caps_lock_active
    keys,      \* circular_buffer
    foreground,\* is foreground_process set
    line,      \* how much of a line the shell has
    hand,      \* the shifts the user holds, and the parity of caps lock
    typed,     \* history: the characters that entered the ring and were not read
    moved,     \* history: position and buttons as the mouse meant them
    slipped,   \* history: the handler took a byte for another of its packet
    robbed     \* history: mouse_init took a scan code for an answer

inputvars == <<buffer, coming, commands, awaiting, owed, mouse, keyboard, keys, foreground,
               line, hand, typed, moved, slipped, robbed>>

\* A byte of the mouse: bit 3, bits 4 and 0 of the first byte, the motion, and which byte
\* of a packet the mouse means (4 for an answer, which is 0xFA).
Answer == [sync |-> TRUE, neg |-> TRUE, button |-> FALSE, motion |-> Span - 1, nth |-> 4]
Zero   == [sync |-> FALSE, neg |-> FALSE, button |-> FALSE, motion |-> 0, nth |-> 0]
Empty  == [from |-> "nobody", byte |-> Zero]

\* ps2_bus_init has emptied the buffer; init_idt has let both lines through.
InputInit ==
    /\ buffer = Empty
    /\ coming = << >>
    /\ commands = Commands
    /\ awaiting = FALSE
    /\ owed = FALSE
    /\ mouse = [cycle |-> 0, byte |-> [i \in 0 .. 2 |-> Zero], x |-> Width \div 2, button |-> FALSE]
    /\ keyboard = [shift |-> FALSE, caps |-> FALSE]
    /\ keys = EmptyRing
    /\ foreground = FALSE
    /\ line = 0
    /\ hand = [held |-> {}, caps |-> FALSE]
    /\ typed = << >>
    /\ moved = [x |-> Width \div 2, button |-> FALSE]
    /\ slipped = FALSE
    /\ robbed = FALSE

mousevars == <<mouse, moved, slipped>>
keyvars   == <<keyboard, keys, typed>>

Clamp(x) == IF x < 0 THEN 0 ELSE IF x >= Width THEN Width - 1 ELSE x

-----------------------------------------------------------------------------
(* The devices *)

\* A packet has three bytes until mouse_init has asked for the wheel, then four.
Packet(d, b) ==
    LET one == [Zero EXCEPT !.sync = TRUE, !.neg = d < 0, !.button = b]
        two == [Zero EXCEPT !.motion = d % Span, !.sync = d % 2 = 1, !.nth = 1]
        three == [Zero EXCEPT !.nth = 2]
    IN  IF commands > 0 THEN <<one, two, three>>
        ELSE <<one, two, three, [Zero EXCEPT !.nth = 3]>>

\* The mouse streams once it got its second command.
MouseMoves(d, b) ==
    /\ coming = << >> /\ ~owed /\ commands <= Commands - 2
    /\ coming' = Packet(d, b)
    /\ moved' = IF commands > 0 THEN moved ELSE [x |-> Clamp(moved.x + d), button |-> b]
    /\ UNCHANGED <<buffer, commands, awaiting, owed, mouse, slipped, keyvars, foreground, line,
                   hand, robbed>>

MouseSends ==
    /\ buffer = Empty
    /\ IF owed THEN /\ buffer' = [from |-> "mouse", byte |-> Answer]
                    /\ owed' = FALSE
                    /\ UNCHANGED coming
               ELSE /\ coming # << >>
                    /\ buffer' = [from |-> "mouse", byte |-> Head(coming)]
                    /\ coming' = Tail(coming)
                    /\ UNCHANGED owed
    /\ UNCHANGED <<commands, awaiting, mousevars, keyvars, foreground, line, hand, robbed>>

\* A shift goes down or up, another key down: the handler ignores how the others go up.
KeyMoves(k) ==
    /\ buffer = Empty
    /\ buffer' = [from |-> k, byte |-> Zero]
    /\ hand' = [held |-> IF k \in hand.held THEN hand.held \ {k} ELSE hand.held \cup ({k} \cap Shifts),
                caps |-> IF k = "caps" THEN ~hand.caps ELSE hand.caps]
    /\ UNCHANGED <<coming, commands, awaiting, owed, mousevars, keyvars, foreground, line, robbed>>

-----------------------------------------------------------------------------
(* mouse_init *)

\* mouse_write: a command stops the stream, whatever of a packet is left.
SendsCommand ==
    /\ commands > 0 /\ ~awaiting
    /\ commands' = commands - 1
    /\ awaiting' = TRUE
    /\ owed' = TRUE
    /\ coming' = << >>
    /\ UNCHANGED <<buffer, mousevars, keyvars, foreground, line, hand, robbed>>

\* mouse_read takes whatever the buffer holds, or gives up when a handler took the answer.
ReadsAnswer ==
    /\ awaiting
    /\ buffer # Empty \/ ~owed
    /\ awaiting' = FALSE
    /\ buffer' = Empty
    /\ robbed' = (robbed \/ buffer.from \in Keys)
    /\ slipped' = (slipped \/ (buffer.from = "mouse" /\ buffer.byte.nth # 4))
    /\ UNCHANGED <<coming, commands, owed, mouse, moved, keyvars, foreground, line, hand>>

-----------------------------------------------------------------------------
(* The handlers *)

\* mouse_handler: in the first place it waits for a byte with bit 3 set.
MouseHandler ==
    /\ buffer.from = "mouse"
    /\ buffer' = Empty
    /\ LET b == buffer.byte
           m == mouse
           first == m.byte[0]
           rel == IF first.neg THEN m.byte[1].motion - Span ELSE m.byte[1].motion
       IN  /\ slipped' = (slipped \/ (b.nth # m.cycle))
           /\ mouse' = IF m.cycle = 0 /\ ~b.sync THEN m
                       ELSE IF m.cycle < 3 THEN [m EXCEPT !.byte[m.cycle] = b, !.cycle = @ + 1]
                       ELSE [m EXCEPT !.cycle = 0, !.button = first.button, !.x = Clamp(@ + rel),
                                      !.byte = [i \in 0 .. 2 |-> Zero]]
    /\ UNCHANGED <<coming, commands, awaiting, owed, moved, keyvars, foreground, line, hand,
                   robbed>>

\* keyboard_handler.
CharOf(k) ==
    CASE k = "enter" -> Enter
      [] k = "erase" -> Erase
      [] OTHER -> IF keyboard.shift \/ keyboard.caps THEN Upper ELSE Lower

Fill(s, c) == IF Len(s) < RingSize - 1 THEN Append(s, c) ELSE s

KeyboardHandler ==
    /\ buffer.from \in Keys
    /\ buffer' = Empty
    /\ LET k == buffer.from
           char == k \notin Shifts \cup {"caps"}
       IN  /\ keyboard' = [keyboard EXCEPT !.shift = IF k \in Shifts THEN k \in hand.held ELSE @,
                                           !.caps = IF k = "caps" THEN ~@ ELSE @]
           /\ IF char /\ foreground
              THEN /\ keys' = RingPush(keys, CharOf(k))
                   /\ typed' = Fill(typed, CharOf(k))
              ELSE UNCHANGED <<keys, typed>>
    /\ UNCHANGED <<coming, commands, awaiting, owed, mousevars, foreground, line, hand, robbed>>

-----------------------------------------------------------------------------
(* The readers *)

\* keyboard_pop_char, for SYS_GET_KEY and for task_d, which drops what is there.
ProgramReads ==
    /\ ~RingIsEmpty(keys)
    /\ keys' = RingPop(keys)
    /\ typed' = Tail(typed)
    /\ UNCHANGED <<buffer, coming, commands, awaiting, owed, mousevars, keyboard, foreground, line,
                   hand, robbed>>

\* shell_task edits its line; what does not fit is dropped.
ShellReads ==
    /\ ~RingIsEmpty(keys)
    /\ LET c == RingHead(keys)
       IN  line' = CASE c = Enter -> 0
                     [] c = Erase -> IF line > 0 THEN line - 1 ELSE 0
                     [] OTHER -> IF line < LineSize - 1 THEN line + 1 ELSE line
    /\ keys' = RingPop(keys)
    /\ typed' = Tail(typed)
    /\ UNCHANGED <<buffer, coming, commands, awaiting, owed, mousevars, keyboard, foreground, hand, robbed>>

\* foreground_process is set when the boot creates the shell; from then on it changes its
\* owner, and never becomes NULL again.
ForegroundSet ==
    /\ ~foreground /\ commands = 0 /\ ~awaiting
    /\ foreground' = TRUE
    /\ UNCHANGED <<buffer, coming, commands, awaiting, owed, mousevars, keyvars, line, hand, robbed>>

InputNext ==
    \/ \E d \in (0 - Motion) .. Motion, b \in BOOLEAN : MouseMoves(d, b)
    \/ \E k \in Keys : KeyMoves(k)
    \/ MouseSends \/ SendsCommand \/ ReadsAnswer
    \/ MouseHandler \/ KeyboardHandler
    \/ ProgramReads \/ ShellReads \/ ForegroundSet

InputSpec == InputInit /\ [][InputNext]_inputvars

-----------------------------------------------------------------------------
(* Properties *)

InputTypeOK ==
    /\ awaiting \in BOOLEAN /\ owed \in BOOLEAN /\ commands \in 0 .. Commands
    /\ mouse.cycle \in 0 .. 3 /\ mouse.x \in 0 .. Width - 1
    /\ line \in 0 .. LineSize - 1 /\ hand.held \subseteq Shifts
    /\ {keys.head, keys.tail} \subseteq 0 .. RingSize - 1

\* Once the mouse streams and its bytes were handled, position and buttons are what it
\* reported, unless the handler once took a byte for another: an answer to mouse_init, or
\* one of the packets of three bytes sent before the wheel is on (mouse_init, mouse_handler).
MouseTrue ==
    (commands = 0 /\ ~slipped /\ coming = << >> /\ buffer.from # "mouse") =>
        mouse.x = moved.x /\ mouse.button = moved.button

\* Readers get the characters typed in order, whoever reads; caps lock follows its key, and
\* the keyboard shifts only while a shift is held, unless mouse_init took a scan code
\* (keyboard_handler, keyboard_pop_char).
KeysTrue ==
    /\ RingSeq(keys) = typed
    /\ (~robbed /\ buffer.from \notin Keys) =>
          /\ keyboard.caps = hand.caps
          /\ keyboard.shift => hand.held \cap Shifts # {}

\* Both: what the two handlers make of the bytes of one controller is what the user did
\* (keyboard_handler, mouse_handler).
InputTrue == MouseTrue /\ KeysTrue
=============================================================================
