------------------------------ MODULE Arkanoid ------------------------------
(***************************************************************************)
(* The game of arkanoid.c.  Of the ball only what the game depends on is   *)
(* kept: whether it flies, which way up, and whether it is up among the    *)
(* blocks or down by the paddle, which it never crosses in one frame.  The *)
(* blocks are counted while they are hit, the one hit included, so a game  *)
(* is won a frame after its last block.                                    *)
(***************************************************************************)
EXTENDS Integers

CONSTANT Bricks  \* the blocks

ASSUME BricksAssumption == Bricks # {}

VARIABLES
    standing,    \* the active blocks
    flying,      \* ball_active
    rise,        \* the sign of ball_dy, up is -1
    high,        \* the ball is among the blocks
    balls,       \* player_lives
    finish       \* [over, won]

brickvars == <<standing, flying, rise, high, balls, finish>>

Playing == ~finish.over /\ ~finish.won

ArkanoidInit ==
    /\ standing = Bricks /\ flying = FALSE /\ rise = 0 /\ high = FALSE
    /\ balls = 3 /\ finish = [over |-> FALSE, won |-> FALSE]

\* Reset_Ball.
BallBack == flying' = FALSE /\ rise' = 0 /\ high' = FALSE

\* Reset_Full_Game, by R at any time and by the launch key from a game that is over.
StartsBricks ==
    /\ standing' = Bricks /\ BallBack
    /\ balls' = 3 /\ finish' = [over |-> FALSE, won |-> FALSE]

\* Next_Fase.
NextBricks ==
    /\ finish.won
    /\ standing' = Bricks /\ BallBack
    /\ finish' = [finish EXCEPT !.won = FALSE]
    /\ UNCHANGED balls

Launches ==
    /\ Playing /\ ~flying
    /\ flying' = TRUE /\ rise' = -1
    /\ UNCHANGED <<standing, high, balls, finish>>

-----------------------------------------------------------------------------
(* Update_Game with the ball in flight; on the paddle it follows the paddle *)

Flies == Playing /\ flying

\* It falls past the paddle: nothing else of the frame runs, the blocks are not counted.
FallsOut ==
    /\ Flies /\ rise = 1 /\ ~high
    /\ balls' = balls - 1
    /\ \/ balls = 1 /\ finish' = [finish EXCEPT !.over = TRUE]
                    /\ UNCHANGED <<flying, rise, high>>
       \/ balls > 1 /\ BallBack /\ UNCHANGED finish
    /\ UNCHANGED standing

\* It moves on, off a wall or not; up or down by a zone, off the ceiling or off the paddle.
Travels ==
    /\ Flies
    /\ \/ UNCHANGED <<rise, high>>
       \/ high' = (rise = -1) /\ UNCHANGED rise
       \/ high /\ rise = -1 /\ rise' = 1 /\ UNCHANGED high
       \/ ~high /\ rise = 1 /\ rise' = -1 /\ UNCHANGED high

\* Mutant: the block that is hit is not counted.
BadCounted(hit) == standing \ hit
\* blocks_remaining: the loop stops at the block it hits, after counting it.
Counted(hit) == standing

\* The blocks of a frame: at most one is hit, from its side or from above or below.
Frame ==
    /\ Travels
    /\ finish' = IF Counted({}) = {} THEN [finish EXCEPT !.won = TRUE] ELSE finish
    /\ UNCHANGED <<standing, flying, balls>>

Breaks(b) ==
    /\ Flies /\ high
    /\ standing' = standing \ {b}
    /\ rise' \in {-1, 1}
    /\ finish' = IF Counted({b}) = {} THEN [finish EXCEPT !.won = TRUE] ELSE finish
    /\ UNCHANGED <<flying, high, balls>>

ArkanoidNext ==
    \/ StartsBricks \/ NextBricks \/ Launches \/ FallsOut \/ Frame
    \/ \E b \in standing : Breaks(b)

ArkanoidSpec == ArkanoidInit /\ [][ArkanoidNext]_brickvars

-----------------------------------------------------------------------------
(* Properties *)

ArkanoidTypeOK ==
    /\ standing \subseteq Bricks /\ rise \in -1 .. 1 /\ balls \in 0 .. 3

\* A game never ends both ways; it is over exactly when no ball is left and won only
\* without a block; the last block is always followed by the victory: until then the ball
\* is in flight and high enough not to be lost first; a ball in flight never stops
\* (Update_Game, Reset_Ball).
BricksWhole ==
    /\ ~(finish.over /\ finish.won)
    /\ finish.over <=> balls = 0
    /\ standing = {} => finish.won \/ (flying /\ high /\ ~finish.over)
    /\ flying => rise # 0
=============================================================================
