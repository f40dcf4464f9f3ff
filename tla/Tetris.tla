------------------------------- MODULE Tetris -------------------------------
(***************************************************************************)
(* The game of tetris.c: an arena of filled squares, the piece that falls  *)
(* and the one that comes next.  Colours, score, level and the speed they  *)
(* give are left out: gravity is an action that may happen at any time.    *)
(* A clear is modelled as the loop of checkLines runs it, so that it can   *)
(* be compared with what a clear should do.                                *)
(***************************************************************************)
EXTENDS Integers, FiniteSets

CONSTANTS
    ArenaWidth, ArenaHeight,   \* A_WIDTH, A_HEIGHT
    Pieces                     \* the rows of tetrominoes[] in use

T_WIDTH == 4

ASSUME TetrisAssumption ==
    /\ ArenaWidth \in Nat /\ ArenaWidth >= T_WIDTH
    /\ ArenaHeight \in Nat /\ ArenaHeight >= T_WIDTH
    /\ Pieces # {} /\ Pieces \subseteq {"I", "O", "S", "Z", "T", "L", "J"}

Columns == 0 .. ArenaWidth - 1
Lines == 0 .. ArenaHeight - 1

VARIABLES
    arena,       \* the filled squares, pairs of column and line
    piece,       \* currTetrominoIdx, currRotation, currX, currY
    upcoming,    \* nextTetrominoIdx
    over         \* gameOver

tetrisvars == <<arena, piece, upcoming, over>>

\* The four indices of each row of tetrominoes[] that hold a 1.
Tetrominoes ==
    [I |-> {4, 5, 6, 7},  O |-> {5, 6, 9, 10}, S |-> {6, 7, 9, 10}, Z |-> {4, 5, 9, 10},
     T |-> {5, 8, 9, 10}, L |-> {4, 8, 9, 10}, J |-> {7, 9, 10, 11}]

Rotated(x, y, r) ==
    CASE r = 0 -> x + y * T_WIDTH
      [] r = 1 -> 12 + y - x * T_WIDTH
      [] r = 2 -> 15 - y * T_WIDTH - x
      [] r = 3 -> 3 - y + x * T_WIDTH

Squares(p) ==
    {<<p.x + q[1], p.y + q[2]>> :
        q \in {d \in (0 .. T_WIDTH - 1) \X (0 .. T_WIDTH - 1) :
                   Rotated(d[1], d[2], p.turn) \in Tetrominoes[p.kind]}}

\* Mutant: the bottom is not tested.
BadValidPos(p, a) == \A s \in Squares(p) : s[1] \in Columns /\ s \notin a

\* Above the first line a square is free as long as it is between the walls.
ValidPos(p, a) ==
    \A s \in Squares(p) : s[1] \in Columns /\ s[2] < ArenaHeight /\ s \notin a

NewPiece(k) == [kind |-> k, turn |-> 0, x |-> (ArenaWidth \div 2) - 2, y |-> 0]

\* newTetromino; a piece that does not fit ends the game where it stands.
NewTetromino(k) ==
    /\ piece' = NewPiece(k)
    /\ upcoming' \in Pieces
    /\ over' = ~ValidPos(NewPiece(k), arena')

TetrisInit ==
    /\ arena = {} /\ over = FALSE /\ upcoming \in Pieces
    /\ piece \in {NewPiece(k) : k \in Pieces}

-----------------------------------------------------------------------------
(* The end of a fall *)

FullLine(a, y) == \A x \in Columns : <<x, y>> \in a

\* One pass over a full line: everything above comes down by one, line 0 is emptied.
LineTaken(a, y) ==
    {s \in a : s[2] > y} \cup {<<s[1], s[2] + 1>> : s \in {t \in a : t[2] < y}}

\* checkLines at the line at[1] of the arena at[2]: a line is looked at again once it has
\* been taken.
LooksAt(at) ==
    CASE at[1] < 0 -> at
      [] at[1] >= 0 /\ FullLine(at[2], at[1]) -> <<at[1], LineTaken(at[2], at[1])>>
      [] OTHER -> <<at[1] - 1, at[2]>>

\* From the bottom up: one look at every line, and one more for every line it takes.
LinesChecked(a) ==
    LET looks == 2 * ArenaHeight
        after[n \in 0 .. looks] ==
            IF n = 0 THEN <<ArenaHeight - 1, a>> ELSE LooksAt(after[n - 1])
    IN  after[looks][2]

\* addToArena drops what is outside the arena.
AddToArena(p) == arena \cup (Squares(p) \cap (Columns \X Lines))

MovedTo(dx, dy) == [piece EXCEPT !.x = @ + dx, !.y = @ + dy]

\* moveDown, or the piece is added and the next one comes: by gravity or by the player.
Falls ==
    /\ ~over
    /\ \/ /\ ValidPos(MovedTo(0, 1), arena)
          /\ piece' = MovedTo(0, 1)
          /\ UNCHANGED <<arena, upcoming, over>>
       \/ /\ ~ValidPos(MovedTo(0, 1), arena)
          /\ arena' = LinesChecked(AddToArena(piece))
          /\ NewTetromino(upcoming)

(* The player *)

MovesAside(dx) ==
    /\ ~over
    /\ ValidPos(MovedTo(dx, 0), arena) /\ piece' = MovedTo(dx, 0)
    /\ UNCHANGED <<arena, upcoming, over>>

TurnsPiece ==
    /\ ~over
    /\ LET next == [piece EXCEPT !.turn = (@ + 1) % 4]
       IN  ValidPos(next, arena) /\ piece' = next
    /\ UNCHANGED <<arena, upcoming, over>>

\* Reset_Game draws a next piece, and newTetromino takes it and draws another.
ResetGame ==
    /\ arena' = {}
    /\ \E k \in Pieces : piece' = NewPiece(k)
    /\ upcoming' \in Pieces /\ over' = FALSE

TetrisNext ==
    \/ Falls \/ TurnsPiece \/ ResetGame
    \/ \E dx \in {-1, 1} : MovesAside(dx)

TetrisSpec == TetrisInit /\ [][TetrisNext]_tetrisvars

-----------------------------------------------------------------------------
(* Properties *)

TetrisTypeOK ==
    /\ arena \subseteq Columns \X Lines /\ over \in BOOLEAN /\ upcoming \in Pieces
    /\ piece \in [kind : Pieces, turn : 0 .. 3, x : -3 .. ArenaWidth, y : 0 .. ArenaHeight]

\* While the game goes on the piece lies between the walls and on no filled square, whatever
\* was turned, moved or cleared, and every line that was filled is gone.
PieceApart ==
    /\ ~over => \A s \in Squares(piece) : s \in (Columns \X Lines) \ arena
    /\ \A y \in Lines : ~FullLine(arena, y)

\* What the loop of checkLines makes of a piece that has landed is what a clear promises:
\* the lines that are not full, in their order, pushed to the bottom.
Remaining(a) ==
    LET full == {y \in Lines : FullLine(a, y)}
    IN  {<<s[1], s[2] + Cardinality({y \in full : y > s[2]})>> :
             s \in {t \in a : t[2] \notin full}}
ClearsLines ==
    ~over /\ ~ValidPos(MovedTo(0, 1), arena) =>
        LinesChecked(AddToArena(piece)) = Remaining(arena \cup Squares(piece))
=============================================================================
