------------------------------- MODULE Space -------------------------------
(***************************************************************************)
(* The game of space.c.  Positions are left out: whether a laser leaves    *)
(* the field, hits something or flies on is a choice, and so is when the   *)
(* clock lets the aliens move and shoot; moving the ship changes nothing   *)
(* here.  A frame runs its parts in order over one record of the game, and *)
(* an end of the game that one part brings does not stop the next.         *)
(***************************************************************************)
EXTENDS Integers, FiniteSets

CONSTANTS
    AlienRows, AlienColumns,
    MaxLasers,               \* MAX_ALIEN_LASERS, 5
    Shields,                 \* the blocks of the barriers
    Strength,                \* 3
    LastPhase                \* bound: phases from the third on differ in speed only

ASSUME SpaceAssumption ==
    /\ {AlienRows, AlienColumns, MaxLasers, Strength, LastPhase} \subseteq Nat \ {0}
    /\ LastPhase >= 3

Aliens == (1 .. AlienRows) \X (1 .. AlienColumns)

VARIABLE war  \* [aliens, laser, ufo, bomb, lasers, shields, lives, over, won, stage]

Allowed(stage) == IF stage >= 3 THEN MaxLasers ELSE 1

-----------------------------------------------------------------------------
(* Init_Barriers, Init_Aliens and the two resets *)

NewShields(stage) == [s \in Shields |-> IF stage = 1 THEN 0 ELSE Strength]

\* Init_Aliens: it clears every laser but the saucer's bomb.
WithAliens(g) == [g EXCEPT !.aliens = Aliens, !.laser = FALSE, !.lasers = 0]

NewWar ==
    WithAliens([aliens |-> {}, laser |-> FALSE, ufo |-> FALSE, bomb |-> FALSE, lasers |-> 0,
                shields |-> NewShields(1), lives |-> 3, over |-> FALSE, won |-> FALSE,
                stage |-> 1])

\* Next_Fase: game_over and the lives stay as they are.
NextStage(g) ==
    LET n == IF g.stage < LastPhase THEN g.stage + 1 ELSE LastPhase
    IN  WithAliens([g EXCEPT !.stage = n, !.won = FALSE, !.ufo = FALSE, !.bomb = FALSE,
                             !.shields = NewShields(n)])

-----------------------------------------------------------------------------
(* The parts of Update_Game: the games each may leave *)

\* A shield takes a hit; the barriers stand from the second phase on.
Standing(g) == IF g.stage > 1 THEN {s \in Shields : g.shields[s] > 0} ELSE {}

Hurt(g) == [g EXCEPT !.lives = @ - 1, !.over = @ \/ g.lives <= 1]

\* The player's laser: it leaves, hits one thing, or flies on.
AfterShot(g) ==
    IF ~g.laser THEN {g}
    ELSE LET h == [g EXCEPT !.laser = FALSE]
         IN  {g, h} \cup {[h EXCEPT !.shields[s] = @ - 1] : s \in Standing(g)}
                    \cup (IF g.ufo THEN {[h EXCEPT !.ufo = FALSE]} ELSE {})
                    \cup {[h EXCEPT !.aliens = @ \ {a}, !.won = (g.aliens = {a})] : a \in g.aliens}

\* The saucer goes on or away and, in either case, may drop its bomb.
Saucer(g, stays, drops) == [g EXCEPT !.ufo = stays, !.bomb = @ \/ drops]

\* It comes, if it is not there.
AfterSaucer(g) ==
    IF ~g.ufo THEN {g, [g EXCEPT !.ufo = TRUE]}
    ELSE {Saucer(g, stays, drops) : stays, drops \in BOOLEAN}

AfterBomb(g) ==
    IF ~g.bomb THEN {g}
    ELSE LET h == [g EXCEPT !.bomb = FALSE]
         IN  {g, h, Hurt(h)} \cup {[h EXCEPT !.shields[s] = @ - 1] : s \in Standing(g)}

\* The aliens move; at an edge they come down, and one that lives may land.
Marched(g) == {g} \cup IF g.aliens # {} THEN {[g EXCEPT !.over = TRUE]} ELSE {}

\* Mutant: in every phase all the lasers are allowed.
BadRoom(g) == MaxLasers - g.lasers
Room(g) == IF g.lasers < Allowed(g.stage) THEN Allowed(g.stage) - g.lasers ELSE 0

\* When the clock lets them, every column with an alien shoots while there is room.
Volley(g) ==
    LET columns == Cardinality({a[2] : a \in g.aliens})
    IN  [g EXCEPT !.lasers = @ + IF columns < Room(g) THEN columns ELSE Room(g)]

\* The timer of the aliens is due or not.
AfterMarch(g) == {g} \cup UNION {{h, Volley(h)} : h \in Marched(g)}

OneLaser(g) ==
    LET h == [g EXCEPT !.lasers = @ - 1]
    IN  {g, h, Hurt(h)} \cup {[h EXCEPT !.shields[s] = @ - 1] : s \in Standing(g)}

\* Every alien laser in turn, those just shot too.
AfterLasers(g) ==
    LET after[n \in 0 .. MaxLasers] ==
            IF n = 0 THEN {g} ELSE UNION {OneLaser(h) : h \in after[n - 1]}
    IN  after[g.lasers]

-----------------------------------------------------------------------------
(* The frame and the keys *)

SpaceInit == war = NewWar

UpdatesWar ==
    /\ ~war.over /\ ~war.won
    /\ \E g1 \in AfterShot(war) : \E g2 \in AfterSaucer(g1) : \E g3 \in AfterBomb(g2) :
       \E g4 \in AfterMarch(g3) : war' \in AfterLasers(g4)

\* The key of the shot, when the game is neither won nor over.
Shoots == ~war.won /\ ~war.over /\ ~war.laser /\ war' = [war EXCEPT !.laser = TRUE]

\* The same key from a game that is won, whether or not it is over too.
GoesOn == war.won /\ war' = NextStage(war)

\* The same key from a game that is over, and R at any time.
StartsWar == war' = NewWar

SpaceNext == UpdatesWar \/ Shoots \/ GoesOn \/ StartsWar

SpaceSpec == SpaceInit /\ [][SpaceNext]_war

-----------------------------------------------------------------------------
(* Properties *)

\* A frame may take more lives than there are: one by the bomb, one by each laser.
SpaceTypeOK ==
    /\ war.aliens \subseteq Aliens /\ war.lasers \in 0 .. MaxLasers
    /\ war.lives \in -MaxLasers .. 3 /\ war.shields \in [Shields -> 0 .. Strength]

\* The game is won exactly when no alien is left, over when no life is, and never one more
\* laser flies than its phase allows, through every reset; a game both won and over, as a
\* last alien and a last life in one frame make it, has no life (Update_Game, Next_Fase).
WarWhole ==
    /\ war.won <=> war.aliens = {}
    /\ war.lives <= 0 => war.over
    /\ war.won /\ war.over => war.lives <= 0
    /\ war.lasers <= Allowed(war.stage)
    /\ war.stage = 1 => \A s \in Shields : war.shields[s] = 0
=============================================================================
