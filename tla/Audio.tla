------------------------------- MODULE Audio -------------------------------
(***************************************************************************)
(* The AC97 driver and the programs that play on it.  A sound is copied    *)
(* into the driver's buffer, described to the device chunk by chunk, and   *)
(* played by the device while the program goes on.  Nobody owns the        *)
(* device: a play or a stop of one program ends the sound of another.  The *)
(* games hold their sounds back with gates of their own.                   *)
(* The device is the one the driver takes it for: a write to PO_CIV sends  *)
(* it back to the first entry.  On AC'97 hardware that register is read-   *)
(* only and only the reset bit of PO_CR clears it, which ac97.h:30 names   *)
(* as bit 0, the run bit, so that the driver resets nothing there.         *)
(***************************************************************************)
EXTENDS Integers, Sequences

CONSTANTS
    MaxEntries,    \* AC97_MAX_BDL_ENTRIES, 32
    Games,         \* of "space", "tetris" (with arkanoid's gate) and "snake"
    Sizes,         \* of the sounds, in chunks; 0 is what is refused: no buffer, an empty
                   \* one, a lone byte, an address of the kernel
    Cooldown,      \* 3, arkanoid 4
    LockFrames     \* snake's locks

ASSUME AudioAssumption ==
    /\ {MaxEntries, Cooldown, LockFrames} \subseteq Nat \ {0}
    /\ Games \subseteq {"space", "tetris", "snake"} /\ Sizes \subseteq Nat

Silence == <<"silence", 0>>
VARIABLES
    ready,     \* g_is_initialized
    bounce,    \* g_bounce_buffer, a chunk in each cell
    bdl,       \* g_bdl_table: whether an entry says anything
    civ, lvi,  \* the device's entry, as the driver believes to set it, and its last one
    running,   \* the device reads
    heard,     \* history: what was heard since the last play or stop
    asked,     \* history: the sound last taken, its number and chunks
    game,      \* the game that runs
    gate       \* [cool, busy, timer, frames, step] of the game

audiovars == <<ready, bounce, bdl, civ, lvi, running, heard, asked, game, gate>>
device == <<ready, bounce, bdl, civ, lvi, running, heard, asked>>

Cut(n) == IF n > MaxEntries THEN MaxEntries ELSE n
Chunks(id, n) == [i \in 1 .. Cut(n) |-> <<id, i>>]

AudioInit ==
    /\ ready = FALSE
    /\ bounce = [i \in 1 .. MaxEntries |-> Silence] /\ bdl = [i \in 1 .. MaxEntries |-> FALSE]
    /\ civ = 1 /\ lvi = 1 /\ running = FALSE
    /\ heard = << >> /\ asked = << >>
    /\ game \in Games
    /\ gate = [cool |-> 0, busy |-> FALSE, timer |-> 0, frames |-> 0, step |-> "keys"]

-----------------------------------------------------------------------------
(* The driver *)

\* ac97_pci_init and ac97_init, once, by the boot: no controller, no ports or no answer
\* leave it as it is.
Finds ==
    /\ ~ready /\ ready' = TRUE
    /\ UNCHANGED <<bounce, bdl, civ, lvi, running, heard, asked, game, gate>>

\* ac97_stop, by any program: ac97_reset_bus_master ends with a write to PO_CIV.
Stopped ==
    IF ~ready THEN UNCHANGED device
    ELSE /\ running' = FALSE /\ civ' = 1 /\ lvi' = 1
         /\ bounce' = [i \in 1 .. MaxEntries |-> Silence]
         /\ bdl' = [i \in 1 .. MaxEntries |-> FALSE]
         /\ heard' = << >> /\ asked' = << >>
         /\ UNCHANGED ready

\* Mutant: the last valid index is the number of entries.
BadLastValid(n) == n + 1
\* The last valid index is the last entry filled.
LastValid(n) == n

\* ac97_play_user_buffer: copied, described and started; the old sound is gone.
Started(id, size) ==
    IF ~ready \/ size = 0 THEN UNCHANGED device
    ELSE LET n == Cut(size)
         IN  /\ bounce' = [i \in 1 .. MaxEntries |-> IF i <= n THEN <<id, i>> ELSE Silence]
             /\ bdl' = [i \in 1 .. MaxEntries |-> i <= n]
             /\ civ' = 1 /\ lvi' = LastValid(n) /\ running' = TRUE
             /\ heard' = << >> /\ asked' = Chunks(id, n)
             /\ UNCHANGED ready

\* A play that stops first: the two calls change what the play alone does, unless it is
\* refused.
Forced(id, size) == IF size = 0 THEN Stopped ELSE Started(id, size)

\* The device: one entry, up to the last valid one.
Plays ==
    /\ running
    /\ heard' = Append(heard, IF civ <= MaxEntries /\ bdl[civ] THEN bounce[civ] ELSE Silence)
    /\ running' = (civ # lvi)
    /\ civ' = IF civ # lvi THEN civ + 1 ELSE civ
    /\ UNCHANGED <<ready, bounce, bdl, lvi, asked, game, gate>>

-----------------------------------------------------------------------------
(* The programs: a frame of a game is its keys, then its update, then the sounds of that *)

Open == gate.step # "closed"
Less(n) == IF n > 0 THEN n - 1 ELSE 0

\* The frame begins: space counts its own pause down here too and opens its gate every
\* third frame; snake counts its lock down.
FrameBegins ==
    /\ gate.step = "sounds"
    /\ gate' = [gate EXCEPT !.step = "keys",
                   !.cool = IF game \in {"space", "snake"} THEN Less(@) ELSE @,
                   !.frames = IF game = "space" THEN (@ + 1) % 3 ELSE @,
                   !.busy = IF game = "space" /\ gate.frames = 2 THEN FALSE ELSE @]
    /\ UNCHANGED <<device, game>>

\* update_audio_state; a game that is over or won returns before it.
Updates ==
    /\ gate.step = "keys"
    /\ \/ gate' = [gate EXCEPT !.step = "sounds"]
       \/ gate' = [gate EXCEPT !.step = "sounds",
                      !.cool = IF game = "snake" THEN @ ELSE Less(@),
                      !.timer = CASE ~gate.busy -> @ [] gate.busy /\ @ = 0 -> 2 [] OTHER -> @ - 1,
                      !.busy = @ /\ gate.timer # 1]
    /\ UNCHANGED <<device, game>>

Shut == gate.busy \/ gate.cool > 0

\* play_sound not forced, and space's shot: only through an open gate.
Sounds(size) ==
    /\ Open /\ ~Shut
    /\ Started(0, size)
    /\ gate' = [gate EXCEPT !.cool = IF game = "snake" THEN LockFrames ELSE Cooldown,
                            !.busy = game # "snake"]
    /\ UNCHANGED game

\* play_sound forced.
Forces(size) ==
    /\ Open
    /\ Forced(0, size)
    /\ gate' = [gate EXCEPT !.cool = IF game = "snake" THEN LockFrames ELSE Cooldown,
                            !.busy = game # "snake"]
    /\ UNCHANGED game

\* Reset_Full_Game.
StartsAgain ==
    /\ gate.step = "keys"
    /\ gate' = [gate EXCEPT !.cool = 0, !.busy = FALSE]
    /\ Stopped /\ UNCHANGED game

\* Next_Fase of space.
ClearsPause ==
    /\ gate.step = "keys" /\ game = "space"
    /\ gate' = [gate EXCEPT !.cool = 0]
    /\ UNCHANGED <<device, game>>

\* Tratar_Fechamento_Software.
ClosesGame ==
    /\ Open /\ gate' = [gate EXCEPT !.step = "closed", !.busy = FALSE]
    /\ Stopped /\ UNCHANGED game

\* Another program: audio.exe stops and plays, chip.exe beeps, with no gate.
OtherPlays(size) ==
    /\ Started(1, size) \/ Forced(1, size)
    /\ UNCHANGED <<game, gate>>
OtherStops == Stopped /\ UNCHANGED <<game, gate>>

AudioNext ==
    \/ Finds \/ Plays
    \/ FrameBegins \/ Updates \/ StartsAgain \/ ClearsPause \/ ClosesGame \/ OtherStops
    \/ \E size \in Sizes : Sounds(size) \/ Forces(size) \/ OtherPlays(size)

AudioSpec == AudioInit /\ [][AudioNext]_audiovars

-----------------------------------------------------------------------------
(* Properties *)

AudioTypeOK ==
    /\ ready \in BOOLEAN /\ running \in BOOLEAN
    /\ civ \in 1 .. MaxEntries /\ lvi \in 1 .. MaxEntries
    /\ game \in Games
    /\ gate.cool \in 0 .. IF Cooldown > LockFrames THEN Cooldown ELSE LockFrames
    /\ gate.timer \in 0 .. 2

\* What is heard after a sound is taken is that sound from its beginning, whatever ended
\* before it, whole when the device falls silent by itself, and nothing after a stop
\* (ac97_play_user_buffer, ac97_stop), on a device that takes the writes to PO_CIV.
SoundTrue ==
    /\ Len(heard) <= Len(asked) /\ heard = SubSeq(asked, 1, Len(heard))
    /\ ~running => heard = asked
=============================================================================
