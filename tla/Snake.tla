------------------------------- MODULE Snake -------------------------------
(***************************************************************************)
(* The game of snake.c: the body as a sequence of cells, a turn the player *)
(* asked for and the walls that come with the third phase.  Cells of the   *)
(* array beyond snake_len keep what an earlier body left there, and a      *)
(* snake that grows takes the first of them for its tail until it moves.   *)
(***************************************************************************)
EXTENDS Integers

CONSTANTS
    GridWidth, GridHeight,
    StartX, StartY, StartLength,   \* Init_Snake: 12, 8, 4
    MaxLength,                     \* bound: the array has 100 cells
    FoodsToWin                     \* 16

ASSUME SnakeAssumption ==
    /\ {GridWidth, GridHeight, StartLength, MaxLength, FoodsToWin} \subseteq Nat \ {0}
    /\ StartX \in StartLength - 1 .. GridWidth - 1 /\ StartY \in 0 .. GridHeight - 1
    /\ StartLength > 1 /\ MaxLength >= StartLength

Cells == (0 .. GridWidth - 1) \X (0 .. GridHeight - 1)
Headings == {<<0, -1>>, <<0, 1>>, <<-1, 0>>, <<1, 0>>}
Phases == 1 .. 3

VARIABLES
    body,      \* snake_x and snake_y, MaxLength cells
    length,    \* snake_len
    heading,   \* dir_x and dir_y
    turned,    \* dir_changed
    food,
    walls,     \* obs_x and obs_y, num_obs of them
    phase,     \* fase
    foods,     \* foods_collected
    lives,     \* player_lives
    ended      \* "no", "won" or "over"

snakevars == <<body, length, heading, turned, food, walls, phase, foods, lives, ended>>

Covered(b, n) == {b[i] : i \in 1 .. n}

\* Spawn_Items: off the body, and the walls off the food and off each other.
Spawns(b, n, p) ==
    /\ food' \in Cells \ Covered(b, n)
    /\ walls' \in IF p < 3 THEN {{}}
                  ELSE {{c, d} : c, d \in Cells \ (Covered(b, n) \cup {food'})} \
                       {{c} : c \in Cells}

\* Init_Snake: the body lies to the left of its head; the cells behind it are not reset.
StartBody(b) ==
    [i \in 1 .. MaxLength |-> IF i <= StartLength THEN <<StartX - (i - 1), StartY>> ELSE b[i]]

SnakeStarts(b, p) ==
    /\ body' = StartBody(b) /\ length' = StartLength
    /\ heading' = <<1, 0>> /\ turned' = FALSE
    /\ Spawns(StartBody(b), StartLength, p)

\* The array is zero before the first game.
SnakeInit ==
    /\ body = StartBody([i \in 1 .. MaxLength |-> <<0, 0>>])
    /\ length = StartLength /\ heading = <<1, 0>> /\ turned = FALSE
    /\ food \in Cells \ Covered(body, StartLength)
    /\ walls = {} /\ phase = 1 /\ foods = 0 /\ lives = 3 /\ ended = "no"

-----------------------------------------------------------------------------
(* The keys *)

\* Mutant: two turns may come between two moves.
BadTurns(h) ==
    /\ \/ h[2] # 0 /\ heading[2] = 0
       \/ h[1] # 0 /\ heading[1] = 0
    /\ heading' = h /\ turned' = TRUE
    /\ UNCHANGED <<body, length, food, walls, phase, foods, lives, ended>>

\* A turn to a side, one for each move; also taken when the game has ended.
Turns(h) ==
    /\ ~turned
    /\ \/ h[2] # 0 /\ heading[2] = 0
       \/ h[1] # 0 /\ heading[1] = 0
    /\ heading' = h /\ turned' = TRUE
    /\ UNCHANGED <<body, length, food, walls, phase, foods, lives, ended>>

\* Next_Fase by the space bar, from a game that is won.
NextPhase ==
    /\ ended = "won"
    /\ phase' = IF phase < 3 THEN phase + 1 ELSE phase
    /\ foods' = 0 /\ ended' = "no"
    /\ SnakeStarts(body, phase')
    /\ UNCHANGED lives

\* Reset_Full_Game.
Restarts ==
    /\ phase' = 1 /\ foods' = 0 /\ ended' = "no" /\ lives' = 3
    /\ SnakeStarts(body, 1)

-----------------------------------------------------------------------------
(* Update_Game *)

Moved ==
    [i \in 1 .. MaxLength |->
        CASE i = 1      -> <<body[1][1] + heading[1], body[1][2] + heading[2]>>
          [] i \in 2 .. length -> body[i - 1]
          [] OTHER      -> body[i]]

Dies == \/ Moved[1] \notin Cells
        \/ \E i \in 2 .. length : Moved[i] = Moved[1]
        \/ Moved[1] \in walls

\* The last life leaves the body where it hit; another one starts again.
LosesLife ==
    /\ ended = "no" /\ Dies
    /\ lives' = lives - 1
    /\ \/ /\ lives = 1
          /\ ended' = "over" /\ body' = Moved /\ turned' = FALSE
          /\ UNCHANGED <<length, heading, food, walls>>
       \/ /\ lives > 1
          /\ SnakeStarts(Moved, phase) /\ UNCHANGED ended
    /\ UNCHANGED <<phase, foods>>

Crawls ==
    /\ ended = "no" /\ ~Dies /\ Moved[1] # food
    /\ body' = Moved /\ turned' = FALSE
    /\ UNCHANGED <<length, heading, food, walls, phase, foods, lives, ended>>

\* A food makes the snake longer; enough of them end the phase: the first goes on to the
\* second by itself, in the others the game is won and nothing is spawned.
Eats ==
    /\ ended = "no" /\ ~Dies /\ Moved[1] = food
    /\ LET n == IF length < MaxLength THEN length + 1 ELSE length
       IN  \/ /\ foods + 1 < FoodsToWin
              /\ body' = Moved /\ length' = n /\ turned' = FALSE /\ foods' = foods + 1
              /\ Spawns(Moved, n, phase)
              /\ UNCHANGED <<heading, phase, ended>>
           \/ /\ foods + 1 >= FoodsToWin /\ phase = 1
              /\ phase' = 2 /\ foods' = 0
              /\ SnakeStarts(Moved, 2)
              /\ UNCHANGED ended
           \/ /\ foods + 1 >= FoodsToWin /\ phase > 1
              /\ body' = Moved /\ length' = n /\ turned' = FALSE /\ foods' = foods + 1
              /\ ended' = "won"
              /\ UNCHANGED <<heading, food, walls, phase>>
    /\ UNCHANGED lives

SnakeNext ==
    \/ \E h \in Headings : Turns(h)
    \/ NextPhase \/ Restarts \/ LosesLife \/ Crawls \/ Eats

SnakeSpec == SnakeInit /\ [][SnakeNext]_snakevars

-----------------------------------------------------------------------------
(* Properties *)

SnakeTypeOK ==
    /\ length \in StartLength .. MaxLength /\ heading \in Headings /\ turned \in BOOLEAN
    /\ food \in Cells /\ walls \subseteq Cells /\ phase \in Phases
    /\ foods \in 0 .. FoodsToWin /\ lives \in 0 .. 3 /\ ended \in {"no", "won", "over"}

Touch(c, d) == <<d[1] - c[1], d[2] - c[2]>> \in Headings

\* While the game goes on the body is a path that never crosses itself, but for a tail it has
\* just grown; its second cell is never ahead of it, however fast the keys come; food and
\* walls lie off the body and off each other (Spawn_Items tests the stale tail too).
SnakeWhole ==
    ended = "no" =>
        /\ \A i \in 1 .. length - 2 : Touch(body[i], body[i + 1])
        /\ \A i, j \in 1 .. length - 1 : body[i] = body[j] => i = j
        /\ Moved[1] # body[2]
        /\ food \notin Covered(body, length) \cup walls
        /\ walls \cap Covered(body, length) = {}
=============================================================================
