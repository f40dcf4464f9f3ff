----------------------------- MODULE MCUserland -----------------------------
(***************************************************************************)
(* The bench of what runs in ring 3: the forms of the programs, memos and  *)
(* edits, lists, the sound and the games, and the serial ports they use,   *)
(* one of them in each behaviour.                                          *)
(***************************************************************************)
EXTENDS Gui, Memo, Lists, Audio, Serial, Snake, Tetris, Space, Arkanoid, Chip8, TLC

VARIABLE part

gamevars == <<snakevars, tetrisvars, war, brickvars, chipvars>>
vars == <<part, guivars, memovars, listvars, audiovars, serialvars, gamevars>>

GameParts == {"snake", "tetris", "space", "arkanoid", "chip"}

\* The parts that stand still start in one state of theirs.
Init ==
    /\ part \in {"forms", "texts", "lists", "sound", "serial"} \cup GameParts
    /\ GuiInit /\ (part # "forms" => program = "temp")
    /\ MemoInit /\ (part # "texts" => who = "terminal")
    /\ AudioInit /\ (part # "sound" => game = "space")
    /\ SerialInit /\ (part # "serial" => \A a \in Apps : object[a] = NewObject(1))
    /\ SnakeInit /\ (part # "snake" => food = <<0, 1>>)
    /\ TetrisInit /\ (part # "tetris" => piece.kind = "I" /\ upcoming = "I")
    /\ ListsInit /\ SpaceInit /\ ArkanoidInit /\ ChipInit

Only(here, next, others) == part = here /\ next /\ UNCHANGED <<part, others>>

OnlyGame(here, next, others) ==
    Only(here, next, <<guivars, memovars, listvars, audiovars, serialvars, others>>)

Next ==
    \/ Only("forms", GuiNext, <<memovars, listvars, audiovars, serialvars, gamevars>>)
    \/ Only("texts", MemoNext, <<guivars, listvars, audiovars, serialvars, gamevars>>)
    \/ Only("lists", ListsNext, <<guivars, memovars, audiovars, serialvars, gamevars>>)
    \/ Only("sound", AudioNext, <<guivars, memovars, listvars, serialvars, gamevars>>)
    \/ Only("serial", SerialNext, <<guivars, memovars, listvars, audiovars, gamevars>>)
    \/ OnlyGame("snake", SnakeNext, <<tetrisvars, war, brickvars, chipvars>>)
    \/ OnlyGame("tetris", TetrisNext, <<snakevars, war, brickvars, chipvars>>)
    \/ OnlyGame("space", SpaceNext, <<snakevars, tetrisvars, brickvars, chipvars>>)
    \/ OnlyGame("arkanoid", ArkanoidNext, <<snakevars, tetrisvars, war, chipvars>>)
    \/ OnlyGame("chip", ChipNext, <<snakevars, tetrisvars, war, brickvars>>)

Spec == Init /\ [][Next]_vars

\* Nothing is followed past a caption that ran over, a form that left its place, three
\* failures of realloc in a list, a call stack of the CHIP-8 that ran over, the second
\* port a dead program keeps, the third port ever opened, or a byte at a port never opened
\* (it makes no request, and the open drops it).
StateConstraint ==
    /\ ~ui.spilled /\ ~ui.moved
    /\ room <= 16
    /\ ~smashed
    /\ Cardinality(orphaned) <= 1
    /\ Cardinality({p \in Ports : port[p].known}) <= 2
    /\ \A p \in Ports : port[p].known \/ port[p].fifo = << >>

\* The programs with a serial port are alike.
Symmetry == Permutations(Apps)

UserTypeOK ==
    /\ GuiTypeOK /\ MemoTypeOK /\ ListsTypeOK /\ AudioTypeOK /\ SerialTypeOK
    /\ SnakeTypeOK /\ TetrisTypeOK /\ SpaceTypeOK /\ ArkanoidTypeOK /\ ChipTypeOK

\* The games keep their boards whole (snake.c, tetris.c, space.c, arkanoid.c, chip.c).
GamesWhole == SnakeWhole /\ PieceApart /\ ClearsLines /\ WarWhole /\ BricksWhole /\ ChipWhole
=============================================================================
