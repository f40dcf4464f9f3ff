-------------------------- MODULE Userland_proofs --------------------------
(***************************************************************************)
(* Theorems about the parts of the ring-3 library, for any sizes.          *)
(***************************************************************************)
EXTENDS MCUserland, Rings_proofs, FunctionTheorems

-----------------------------------------------------------------------------
(* The list and its bar.  ListsTrue is inductive but for the types of what the wrappers hold; *)
(* that the items fit needs to know that, until a realloc fails, the room the list believes   *)
(* it has is the array it has.                                                                *)

Bars == [position : Nat, max : Nat, page : Nat]

ListsTypes ==
    /\ items \in Nat /\ room \in Nat \ {0} /\ array \in Nat /\ item \in Int
    /\ bar \in Bars
    /\ choice \in Nat /\ choices \in Nat /\ refused \in BOOLEAN

ListsInv ==
    /\ ListsTypes /\ ListsTrue
    /\ ~refused => room = array /\ items <= room

LEMMA ListSizes == /\ FirstItems \in Nat \ {0} /\ LastItems \in Nat \ {0}
                   /\ RowsOfList \in Nat \ {0} /\ RollItems \in Nat \ {0}
BY ListsAssumption

\* The view whose twins show what its wrappers hold.
Shown(b, n, i, a) ==
    [bar |-> b, twinbar |-> b,
     twin |-> [items |-> n, item |-> i, scroll |-> b.position, array |-> a]]

\* GUI_ScrollBar_SetPosition keeps both twins with the wrapper and stays in the range.
LEMMA PositionShows ==
  ASSUME NEW b \in Bars, NEW n, NEW i, NEW a, NEW p \in Int
  PROVE  /\ Least(Most(p, 0), b.max) \in 0 .. b.max
         /\ [b EXCEPT !.position = Least(Most(p, 0), b.max)] \in Bars
         /\ SetPosition(Shown(b, n, i, a), p) =
              Shown([b EXCEPT !.position = Least(Most(p, 0), b.max)], n, i, a)
<1> DEFINE q == Least(Most(p, 0), b.max)
           c == [b EXCEPT !.position = q]
<1>1. q \in 0 .. b.max /\ q \in Nat
  BY DEF Least, Most, Bars
<1>2. c \in Bars /\ c.position = q
  BY <1>1 DEF Bars
<1>3. CASE q = b.position
  <2>1. c = b
    BY <1>3 DEF Bars
  <2> QED BY <1>1, <1>2, <1>3, <2>1 DEF SetPosition, Shown
<1>4. CASE q # b.position
  <2>1. SetPosition(Shown(b, n, i, a), p) =
          [Shown(b, n, i, a) EXCEPT !.bar = c, !.twinbar = c, !.twin.scroll = q]
    BY <1>4 DEF SetPosition, Shown
  <2> QED BY <1>1, <1>2, <2>1 DEF Shown
<1> QED BY <1>3, <1>4

\* A new bar for the wrapper and for its twin.
LEMMA TwoBars ==
  ASSUME NEW b, NEW c, NEW T
  PROVE  [[bar |-> b, twinbar |-> b, twin |-> T] EXCEPT !.bar = c, !.twinbar = c]
           = [bar |-> c, twinbar |-> c, twin |-> T]
<1> DEFINE W == [bar : {b, c}, twinbar : {b, c}, twin : {T}]
<1>1. [bar |-> b, twinbar |-> b, twin |-> T] \in W
  OBVIOUS
<1>2. [bar |-> c, twinbar |-> c, twin |-> T] \in W
  OBVIOUS
<1> QED BY <1>1, <1>2

LEMMA NewRange ==
  ASSUME NEW b \in Bars, NEW T, NEW x, NEW y
  PROVE  [[bar |-> b, twinbar |-> b, twin |-> T]
             EXCEPT !.bar.max = x, !.bar.page = y, !.twinbar.max = x, !.twinbar.page = y]
           = [bar |-> [b EXCEPT !.max = x, !.page = y],
              twinbar |-> [b EXCEPT !.max = x, !.page = y], twin |-> T]
<1> DEFINE c == [b EXCEPT !.max = x, !.page = y]
           v == [bar |-> b, twinbar |-> b, twin |-> T]
<1>1. [v EXCEPT !.bar.max = x, !.bar.page = y, !.twinbar.max = x, !.twinbar.page = y]
        = [v EXCEPT !.bar = c, !.twinbar = c]
  OBVIOUS
<1> HIDE DEF c
<1>2. [v EXCEPT !.bar = c, !.twinbar = c] = [bar |-> c, twinbar |-> c, twin |-> T]
  BY TwoBars, Zenon DEF v
<1> QED BY <1>1, <1>2 DEF c

\* GUI_ScrollBar_SetRange does too, and takes the bar back to its new end.
LEMMA RangeShows ==
  ASSUME NEW b \in Bars, NEW n, NEW i, NEW a, NEW m \in Nat, NEW g \in Int
  PROVE  \E c \in Bars :
           /\ SetRange(Shown(b, n, i, a), m, g) = Shown(c, n, i, a)
           /\ c.max = m /\ c.position = Least(b.position, m)
<1> DEFINE mx == Most(m, 0)
           pg == Most(g, 1)
           r == [b EXCEPT !.max = mx, !.page = pg]
           w == Shown(r, n, i, a)
<1>1. mx = m /\ mx \in Nat /\ pg \in Nat
  BY DEF Most
<1> HIDE DEF mx, pg
<1>2. r \in Bars /\ r.position = b.position /\ r.max = m
  BY <1>1 DEF Bars
<1>3. [Shown(b, n, i, a) EXCEPT !.bar.max = mx, !.bar.page = pg,
                               !.twinbar.max = mx, !.twinbar.page = pg] = w
  <2> DEFINE T == [items |-> n, item |-> i, scroll |-> b.position, array |-> a]
  <2>1. Shown(b, n, i, a) = [bar |-> b, twinbar |-> b, twin |-> T]
    BY DEF Shown
  <2>2. w = [bar |-> r, twinbar |-> r, twin |-> T]
    BY <1>2 DEF Shown
  <2>3. [[bar |-> b, twinbar |-> b, twin |-> T]
           EXCEPT !.bar.max = mx, !.bar.page = pg, !.twinbar.max = mx, !.twinbar.page = pg]
          = [bar |-> r, twinbar |-> r, twin |-> T]
    <3> DEFINE X(u, x, y) == [[bar |-> b, twinbar |-> b, twin |-> u]
                 EXCEPT !.bar.max = x, !.bar.page = y, !.twinbar.max = x, !.twinbar.page = y]
               Y(u, x, y) == [bar |-> [b EXCEPT !.max = x, !.page = y],
                 twinbar |-> [b EXCEPT !.max = x, !.page = y], twin |-> u]
    <3>1. \A u, x, y : X(u, x, y) = Y(u, x, y)
      BY NewRange
    <3> HIDE DEF X, Y
    <3>2. X(T, mx, pg) = Y(T, mx, pg)
      BY ONLY <3>1, Zenon
    <3> QED BY ONLY <3>2 DEF X, Y, r
  <2> HIDE DEF T, w, r
  <2> QED BY <2>1, <2>2, <2>3, Zenon
<1>4. w.bar = r
  BY DEF Shown
<1>5. SetRange(Shown(b, n, i, a), m, g) =
        IF w.bar.position > w.bar.max THEN SetPosition(w, w.bar.max) ELSE w
  <2> DEFINE x == [Shown(b, n, i, a) EXCEPT !.bar.max = mx, !.bar.page = pg,
                                            !.twinbar.max = mx, !.twinbar.page = pg]
  <2>1. SetRange(Shown(b, n, i, a), m, g) =
          IF x.bar.position > x.bar.max THEN SetPosition(x, x.bar.max) ELSE x
    BY DEF SetRange, mx, pg
  <2> HIDE DEF x, w
  <2>2. x = w
    BY <1>3 DEF x
  <2> QED BY <2>1, <2>2
<1> HIDE DEF w, r
<1>6. b.position \in Nat
  BY DEF Bars
<1>7. CASE b.position > m
  <2>1. Least(Most(m, 0), m) = m /\ Least(b.position, m) = m
    BY <1>6, <1>7 DEF Least, Most
  <2> DEFINE c == [r EXCEPT !.position = m]
  <2>2. SetPosition(w, m) = Shown(c, n, i, a) /\ c \in Bars
    BY <1>2, <2>1, PositionShows DEF w
  <2>3. c.max = m /\ c.position = m
    BY <1>2 DEF Bars
  <2>4. SetRange(Shown(b, n, i, a), m, g) = SetPosition(w, m)
    BY <1>2, <1>4, <1>5, <1>7
  <2> HIDE DEF c
  <2> QED BY <2>1, <2>2, <2>3, <2>4
<1>8. CASE b.position <= m
  <2>1. SetRange(Shown(b, n, i, a), m, g) = w
    BY <1>2, <1>4, <1>5, <1>6, <1>8
  <2>2. Least(b.position, m) = b.position
    BY <1>6, <1>8 DEF Least
  <2> QED BY <1>2, <2>1, <2>2 DEF w
<1> QED BY <1>6, <1>7, <1>8

\* What the view shows is what the wrappers hold.
LEMMA Viewed == ListsInv => View = Shown(bar, items, item, array)
BY DEF ListsInv, ListsTrue, View, Shown

\* A row of the view given other items and another array.
FilledView(v, k, c) == [v EXCEPT !.twin.items = k, !.twin.array = c]

LEMMA FilledViewShows ==
  ASSUME NEW b, NEW n, NEW i, NEW a, NEW k, NEW c
  PROVE  FilledView(Shown(b, n, i, a), k, c) = Shown(b, k, i, c)
<1> DEFINE T == [items |-> n, item |-> i, scroll |-> b.position, array |-> a]
           U == [items |-> k, item |-> i, scroll |-> b.position, array |-> c]
           W == [items : {n, k}, item : {i}, scroll : {b.position}, array : {a, c}]
           X == [bar : {b}, twinbar : {b}, twin : {T, U}]
<1>1. [T EXCEPT !.items = k, !.array = c] = U
  <2>1. T \in W /\ U \in W
    OBVIOUS
  <2> QED BY <2>1
<1>2. [Shown(b, n, i, a) EXCEPT !.twin = U] = Shown(b, k, i, c)
  <2>1. /\ Shown(b, n, i, a) \in X /\ Shown(b, k, i, c) \in X
        /\ Shown(b, k, i, c).twin = U
    BY DEF Shown
  <2> HIDE DEF T, U
  <2> QED BY <2>1
<1>3. FilledView(Shown(b, n, i, a), k, c)
        = [Shown(b, n, i, a) EXCEPT !.twin = [T EXCEPT !.items = k, !.array = c]]
  BY DEF Shown, FilledView
<1> HIDE DEF T, U
<1> QED BY <1>1, <1>2, <1>3

\* A row of the view given other items and another choice.
ClearedView(v, k, j) == [v EXCEPT !.twin.items = k, !.twin.item = j]

LEMMA ClearedViewShows ==
  ASSUME NEW b, NEW n, NEW i, NEW a, NEW k, NEW j
  PROVE  ClearedView(Shown(b, n, i, a), k, j) = Shown(b, k, j, a)
<1> DEFINE T == [items |-> n, item |-> i, scroll |-> b.position, array |-> a]
           U == [items |-> k, item |-> j, scroll |-> b.position, array |-> a]
           W == [items : {n, k}, item : {i, j}, scroll : {b.position}, array : {a}]
           X == [bar : {b}, twinbar : {b}, twin : {T, U}]
<1>1. [T EXCEPT !.items = k, !.item = j] = U
  <2>1. T \in W /\ U \in W
    OBVIOUS
  <2> QED BY <2>1
<1>2. [Shown(b, n, i, a) EXCEPT !.twin = U] = Shown(b, k, j, a)
  <2>1. /\ Shown(b, n, i, a) \in X /\ Shown(b, k, j, a) \in X
        /\ Shown(b, k, j, a).twin = U
    BY DEF Shown
  <2> HIDE DEF T, U
  <2> QED BY <2>1
<1>3. ClearedView(Shown(b, n, i, a), k, j)
        = [Shown(b, n, i, a) EXCEPT !.twin = [T EXCEPT !.items = k, !.item = j]]
  BY DEF Shown, ClearedView
<1> HIDE DEF T, U
<1> QED BY <1>1, <1>2, <1>3

\* The parts of ListsTrue: the bar, and the rolling choice.
BarTrue ==
    /\ twinbar = bar
    /\ twin = [items |-> items, item |-> item, scroll |-> bar.position, array |-> array]
    /\ bar.position \in 0 .. bar.max /\ bar.max = Overflow(items)

ChoiceTrue == choices > 0 => choice < choices /\ shown = choice + 1

LEMMA ListsParts == ListsTrue <=> BarTrue /\ item \in -1 .. items - 1 /\ ChoiceTrue
BY DEF ListsTrue, BarTrue, ChoiceTrue

\* A step that shows a bar in its range shows the truth.
LEMMA FromView ==
  ASSUME NEW c \in Bars, Views(Shown(c, items', item', array')),
         c.position \in 0 .. c.max, c.max = Overflow(items')
  PROVE  bar' \in Bars /\ BarTrue'
BY DEF Views, Shown, BarTrue, Overflow

LEMMA OverflowNat == ASSUME NEW n \in Nat PROVE Overflow(n) \in Nat
BY ListSizes DEF Overflow

\* Filling: the new range is that of one more item.
LEMMA AddsItemStep == ASSUME ListsInv, AddsItem PROVE ListsInv'
<1>1. /\ items \in Nat /\ room \in Nat \ {0} /\ array \in Nat /\ item \in Int /\ bar \in Bars
      /\ item \in -1 .. items - 1
  BY ListsParts DEF ListsInv, ListsTypes
<1>2. /\ items' = items + 1 /\ item' = item
      /\ \/ items < room /\ room' = room /\ array' = array
         \/ items >= room /\ room' = 2 * room /\ array' = 2 * room
      /\ choice' = choice /\ shown' = shown /\ choices' = choices /\ refused' = refused
  BY DEF AddsItem
<1>3. /\ items' \in Nat /\ room' \in Nat \ {0} /\ array' \in Nat /\ item' \in Int
      /\ item' \in -1 .. items' - 1
      /\ (~refused => room = array /\ items <= room) => (~refused => room' = array' /\ items' <= room')
  <2>1. items' \in Nat /\ item' \in Int /\ item' \in -1 .. items' - 1
    BY <1>1, <1>2
  <2>2. /\ room' \in Nat \ {0} /\ array' \in Nat
        /\ (~refused => room = array /\ items <= room) => (~refused => room' = array' /\ items' <= room')
    BY ONLY <1>1, <1>2
  <2> QED BY <2>1, <2>2
<1> DEFINE m == Overflow(items + 1)
           g == Least(RowsOfList, items + 1)
           v == [View EXCEPT !.twin.items = items + 1, !.twin.array = array']
<1>4. m \in Nat /\ g \in Int
  BY <1>1, ListSizes, OverflowNat DEF Least
<1>5. v = Shown(bar, items', item', array')
  <2>1. View = Shown(bar, items, item, array)
    BY Viewed
  <2>2. v = FilledView(View, items + 1, array')
    BY DEF FilledView
  <2>3. v = Shown(bar, items + 1, item, array')
    BY ONLY <2>1, <2>2, FilledViewShows
  <2> QED BY <1>2, <2>3
<1>6. Views(SetRange(v, m, g))
  BY DEF AddsItem
<1> HIDE DEF m, g, v
<1>7. PICK c \in Bars : /\ SetRange(v, m, g) = Shown(c, items', item', array')
                        /\ c.max = m /\ c.position = Least(bar.position, m)
  BY <1>1, <1>4, <1>5, RangeShows
<1>8. bar.position \in Nat
  BY <1>1 DEF Bars
<1>9. c.position \in 0 .. c.max /\ c.max = Overflow(items')
  BY <1>2, <1>4, <1>7, <1>8 DEF m, Least
<1>10. bar' \in Bars /\ BarTrue'
  BY <1>6, <1>7, <1>9, FromView
<1>11. ChoiceTrue' /\ choice' \in Nat /\ choices' \in Nat /\ refused' \in BOOLEAN
  BY <1>2, ListsParts DEF ListsInv, ListsTypes, ChoiceTrue
<1>12. ListsTrue'
  BY <1>3, <1>10, <1>11, ListsParts DEF ListsTrue, BarTrue, ChoiceTrue
<1> QED BY <1>2, <1>3, <1>10, <1>11, <1>12 DEF ListsInv, ListsTypes

\* A failed realloc: only what the list believes changes.
LEMMA AddFailsStep == ASSUME ListsInv, AddFails PROVE ListsInv'
<1>1. room' \in Nat \ {0} /\ refused' = TRUE
  BY DEF AddFails, ListsInv, ListsTypes
<1>2. ListsTrue'
  BY DEF AddFails, ListsInv, ListsTrue, Overflow
<1> QED BY <1>1, <1>2 DEF AddFails, ListsInv, ListsTypes

\* Clearing: the bar is taken back to the top before its range is taken away.
LEMMA ClearsListStep == ASSUME ListsInv, ClearsList PROVE ListsInv'
<1>1. bar \in Bars /\ items' = 0 /\ item' = -1 /\ array' = array /\ room' = room
  BY DEF ClearsList, ListsInv, ListsTypes
<1> DEFINE v == [View EXCEPT !.twin.items = 0, !.twin.item = -1]
           w == SetPosition(v, 0)
<1>2. v = Shown(bar, items', item', array')
  <2>1. View = Shown(bar, items, item, array)
    BY Viewed
  <2>2. v = ClearedView(View, 0, -1)
    BY DEF ClearedView
  <2>3. v = Shown(bar, 0, -1, array)
    BY ONLY <2>1, <2>2, ClearedViewShows
  <2> QED BY <1>1, <2>3
<1>3. Views(SetRange(w, 0, RowsOfList))
  BY DEF ClearsList
<1> HIDE DEF v
<1>4. \E b \in Bars : w = Shown(b, items', item', array')
  <2>1. SetPosition(Shown(bar, items', item', array'), 0)
          = Shown([bar EXCEPT !.position = Least(Most(0, 0), bar.max)], items', item', array')
    BY <1>1, PositionShows
  <2>2. [bar EXCEPT !.position = Least(Most(0, 0), bar.max)] \in Bars
    BY <1>1, PositionShows
  <2> QED BY <1>2, <2>1, <2>2
<1> HIDE DEF w
<1>5. PICK b \in Bars : w = Shown(b, items', item', array')
  BY <1>4
<1>6. PICK c \in Bars : /\ SetRange(w, 0, RowsOfList) = Shown(c, items', item', array')
                        /\ c.max = 0 /\ c.position = Least(b.position, 0)
  BY <1>5, ListSizes, RangeShows
<1>7. c.position \in 0 .. c.max /\ c.max = Overflow(items')
  <2>1. b.position \in Nat
    BY DEF Bars
  <2> QED BY <1>1, <1>6, <2>1, ListSizes DEF Least, Overflow
<1>8. bar' \in Bars /\ BarTrue'
  BY <1>3, <1>6, <1>7, FromView
<1>9. /\ choice' = choice /\ shown' = shown /\ choices' = choices /\ refused' = refused
  BY DEF ClearsList
<1>10. ChoiceTrue' /\ item' \in -1 .. items' - 1
  BY <1>1, <1>9, ListsParts DEF ListsInv, ChoiceTrue
<1>11. ListsTrue'
  BY <1>8, <1>10 DEF ListsTrue, BarTrue, ChoiceTrue
<1> QED BY <1>1, <1>8, <1>9, <1>11 DEF ListsInv, ListsTypes

\* Selecting: the twin knows as many items as the wrapper.
LEMMA SelectsRowStep ==
  ASSUME ListsInv, NEW r \in 0 .. RowsOfList - 1, SelectsRow(r) PROVE ListsInv'
<1>1. /\ twin = [items |-> items, item |-> item, scroll |-> bar.position, array |-> array]
      /\ bar \in Bars /\ items \in Nat /\ bar.position \in Nat
  BY DEF ListsInv, ListsTypes, ListsTrue, Bars
<1> DEFINE i == Least(r + twin.scroll, twin.items - 1)
<1>2. i \in -1 .. items - 1
  BY <1>1, ListSizes DEF Least
<1>3. item' = i /\ twin' = [twin EXCEPT !.item = i]
  BY DEF SelectsRow
<1> HIDE DEF i
<1>4. twin' = [items |-> items, item |-> item', scroll |-> bar.position, array |-> array]
  <2> DEFINE W == [items : {items}, item : {item, i}, scroll : {bar.position}, array : {array}]
  <2>1. twin \in W /\ [items |-> items, item |-> i, scroll |-> bar.position, array |-> array] \in W
    BY <1>1
  <2> QED BY <1>1, <1>3, <2>1
<1>5. UNCHANGED <<items, room, array, bar, twinbar, choice, shown, choices, refused>>
  BY DEF SelectsRow
<1>6. ListsTrue'
  BY <1>2, <1>3, <1>4, <1>5 DEF ListsInv, ListsTrue, Overflow
<1> QED BY <1>2, <1>3, <1>5, <1>6 DEF ListsInv, ListsTypes

\* A page of the bar, held in its range.
LEMMA ClicksHalfStep == ASSUME ListsInv, NEW up \in BOOLEAN, ClicksHalf(up) PROVE ListsInv'
<1> DEFINE p == IF up THEN bar.position - bar.page ELSE bar.position + bar.page
<1>1. bar \in Bars /\ p \in Int
  BY DEF ListsInv, ListsTypes, Bars
<1>2. /\ items' = items /\ item' = item /\ array' = array /\ room' = room
      /\ choice' = choice /\ shown' = shown /\ choices' = choices /\ refused' = refused
      /\ Views(SetPosition(View, p))
  BY DEF ClicksHalf
<1> HIDE DEF p
<1> DEFINE c == [bar EXCEPT !.position = Least(Most(p, 0), bar.max)]
<1>3. /\ Least(Most(p, 0), bar.max) \in 0 .. bar.max
      /\ c \in Bars
      /\ SetPosition(View, p) = Shown(c, items', item', array')
  BY <1>1, <1>2, Viewed, PositionShows
<1>4. c.position \in 0 .. c.max /\ c.max = Overflow(items')
  BY <1>1, <1>2, <1>3 DEF Bars, ListsInv, ListsTrue, Overflow
<1> HIDE DEF c
<1>5. bar' \in Bars /\ BarTrue'
  BY <1>2, <1>3, <1>4, FromView
<1>6. ChoiceTrue' /\ item' \in -1 .. items' - 1
  BY <1>2, ListsParts DEF ListsInv, ChoiceTrue
<1>7. ListsTrue'
  BY <1>5, <1>6 DEF ListsTrue, BarTrue, ChoiceTrue
<1> QED BY <1>2, <1>5, <1>7 DEF ListsInv, ListsTypes

LEMMA AddsChoiceStep == ASSUME ListsInv, AddsChoice PROVE ListsInv'
<1>1. BarTrue' /\ item' \in -1 .. items' - 1
  BY ListsParts DEF AddsChoice, ListsInv, BarTrue, Overflow
<1>2. ChoiceTrue' /\ choice' \in Nat /\ choices' \in Nat
  <2>1. choice \in Nat /\ choices \in Nat /\ ChoiceTrue
    BY ListsParts DEF ListsInv, ListsTypes
  <2>2. CASE choices = 0
    BY <2>1, <2>2 DEF AddsChoice, ChoiceTrue
  <2>3. CASE choices # 0
    BY <2>1, <2>3 DEF AddsChoice, ChoiceTrue
  <2> QED BY <2>2, <2>3
<1>3. ListsTrue'
  BY <1>1, <1>2 DEF ListsTrue, BarTrue, ChoiceTrue
<1> QED BY <1>2, <1>3 DEF AddsChoice, ListsInv, ListsTypes

LEMMA RotatesStep == ASSUME ListsInv, Rotates PROVE ListsInv'
<1>1. BarTrue' /\ item' \in -1 .. items' - 1
  BY ListsParts DEF Rotates, ListsInv, BarTrue, Overflow
<1>2. choice \in Nat /\ choices \in Nat \ {0}
  BY DEF Rotates, ListsInv, ListsTypes
<1>3. (choice + 1) % choices \in 0 .. choices - 1
  BY <1>2
<1>4. ChoiceTrue' /\ choice' \in Nat /\ choices' \in Nat
  BY <1>2, <1>3 DEF Rotates, ChoiceTrue
<1>5. ListsTrue'
  BY <1>1, <1>4 DEF ListsTrue, BarTrue, ChoiceTrue
<1> QED BY <1>4, <1>5 DEF Rotates, ListsInv, ListsTypes

LEMMA ListsStarts == ListsInit => ListsInv
<1> SUFFICES ASSUME ListsInit PROVE ListsInv
  OBVIOUS
<1>1. ListsTypes
  <2>1. EmptyBar \in Bars
    <3>1. 0 \in Nat /\ RowsOfList \in Nat
      BY ListSizes
    <3> QED BY <3>1 DEF Bars, EmptyBar
  <2>2. items \in Nat /\ room \in Nat \ {0} /\ array \in Nat /\ item \in Int
    BY ListSizes DEF ListsInit
  <2>3. choice \in Nat /\ choices \in Nat /\ refused \in BOOLEAN
    BY DEF ListsInit
  <2> QED BY <2>1, <2>2, <2>3, Zenon DEF ListsInit, ListsTypes
<1>2. ListsTrue
  BY ListSizes DEF ListsInit, ListsTrue, EmptyBar, Overflow
<1> QED BY <1>1, <1>2, ListSizes DEF ListsInit, ListsInv

LEMMA ListsStep == ListsInv /\ [ListsNext]_listvars => ListsInv'
<1> SUFFICES ASSUME ListsInv, [ListsNext]_listvars PROVE ListsInv'
  OBVIOUS
<1>1. CASE AddsItem
  BY <1>1, AddsItemStep
<1>2. CASE AddFails
  BY <1>2, AddFailsStep
<1>3. CASE ClearsList
  BY <1>3, ClearsListStep
<1>4. CASE \E r \in 0 .. RowsOfList - 1 : SelectsRow(r)
  BY <1>4, SelectsRowStep
<1>5. CASE \E up \in BOOLEAN : ClicksHalf(up)
  BY <1>5, ClicksHalfStep
<1>6. CASE AddsChoice
  BY <1>6, AddsChoiceStep
<1>7. CASE Rotates
  BY <1>7, RotatesStep
<1>8. CASE UNCHANGED listvars
  BY <1>8 DEF listvars, ListsInv, ListsTypes, ListsTrue, Overflow
<1> QED BY <1>1, <1>2, <1>3, <1>4, <1>5, <1>6, <1>7, <1>8 DEF ListsNext

(* The lists and the rolling choice of every window show what their wrappers hold, for any    *)
(* numbers of items, rows and choices and in any order of filling, clearing, selecting,       *)
(* scrolling and rotating; and until a realloc fails the items fit in their array             *)
(* (TListView.c, TScrollBar.c, TComboBox.c).                                                  *)
THEOREM ListsAreTrue == ListsSpec => []ListsHold
<1>1. ListsInv => ListsHold
  BY DEF ListsInv, ListsHold, ItemsFit
<1> QED BY <1>1, ListsStarts, ListsStep, PTL DEF ListsSpec

\* Neither the list nor the rolling choice ever grows beyond its bound.
ListsBounds ==
    /\ items <= LastItems /\ array # 0
    /\ choices <= RollItems /\ choice <= RollItems /\ shown \in 0 .. RollItems

LEMMA BoundsStay ==
  ASSUME ListsInv, ListsBounds, [ListsNext]_listvars PROVE ListsBounds'
<1>1. /\ items \in Nat /\ room \in Nat \ {0} /\ array \in Nat /\ choice \in Nat /\ choices \in Nat
      /\ choices > 0 => choice < choices /\ shown = choice + 1
  BY DEF ListsInv, ListsTypes, ListsTrue
<1>2. LastItems \in Nat /\ RollItems \in Nat
  BY ListSizes
<1>3. CASE AddsItem
  BY <1>1, <1>2, <1>3 DEF AddsItem, ListsBounds
<1>4. CASE AddFails
  BY <1>4 DEF AddFails, ListsBounds
<1>5. CASE ClearsList
  BY <1>2, <1>5 DEF ClearsList, ListsBounds
<1>6. CASE \E r \in 0 .. RowsOfList - 1 : SelectsRow(r)
  BY <1>6 DEF SelectsRow, ListsBounds
<1>7. CASE \E up \in BOOLEAN : ClicksHalf(up)
  BY <1>7 DEF ClicksHalf, ListsBounds
<1>8. CASE AddsChoice
  BY <1>1, <1>2, <1>8 DEF AddsChoice, ListsBounds
<1>9. CASE Rotates
  <2>1. (choice + 1) % choices \in 0 .. choices - 1
    BY <1>1, <1>9 DEF Rotates
  <2> QED BY <1>1, <1>2, <1>9, <2>1 DEF Rotates, ListsBounds
<1>10. CASE UNCHANGED listvars
  BY <1>10 DEF listvars, ListsBounds
<1> QED BY <1>3, <1>4, <1>5, <1>6, <1>7, <1>8, <1>9, <1>10 DEF ListsNext

\* The list, its bar and the choice stay of their types (TListView.c, TScrollBar.c, TComboBox.c).
THEOREM ListsTypesHold == ListsSpec => []ListsTypeOK
<1>1. ListsInit => ListsInv /\ ListsBounds
  BY ListsStarts, ListSizes DEF ListsInit, ListsBounds
<1>2. (ListsInv /\ ListsBounds) /\ [ListsNext]_listvars => (ListsInv /\ ListsBounds)'
  BY ListsStep, BoundsStay
<1>3. ListsInv /\ ListsBounds => ListsTypeOK
  <2> SUFFICES ASSUME ListsInv, ListsBounds PROVE ListsTypeOK
    OBVIOUS
  <2>1. LastItems \in Nat /\ RollItems \in Nat
    BY ListSizes
  <2>2. twin.items = items /\ item \in -1 .. items - 1
    BY DEF ListsInv, ListsTrue
  <2> QED BY <2>1, <2>2 DEF ListsInv, ListsTypes, ListsBounds, ListsTypeOK
<1> QED BY <1>1, <1>2, <1>3, PTL DEF ListsSpec

-----------------------------------------------------------------------------
(* The sound: what was heard is a beginning of what was asked; the device reads the chunks    *)
(* where the driver put them, one after the other up to the last.                             *)

Entries == 1 .. MaxEntries
Slices == {0, 1} \X Entries

SoundTypes ==
    /\ ready \in BOOLEAN /\ running \in BOOLEAN
    /\ civ \in Entries /\ lvi \in Entries
    /\ bounce \in [Entries -> Slices \cup {Silence}] /\ bdl \in [Entries -> BOOLEAN]
    /\ heard \in Seq(Slices \cup {Silence}) /\ asked \in Seq(Slices)

\* With a sound taken, the device stands at the chunk after the last one heard.
Follows ==
    IF asked = << >> THEN ~running /\ heard = << >>
    ELSE /\ Len(asked) = lvi /\ civ <= lvi
         /\ \A i \in 1 .. lvi : bdl[i] /\ bounce[i] = asked[i]
         /\ Len(heard) = (IF running THEN civ - 1 ELSE lvi)
         /\ \A i \in 1 .. Len(heard) : heard[i] = asked[i]

SoundInv == SoundTypes /\ Follows

LEMMA SoundSizes == MaxEntries \in Nat /\ MaxEntries > 0 /\ Sizes \subseteq Nat
BY AudioAssumption

\* The state of a device that was stopped, or never played.
LEMMA Silent ==
  ASSUME bounce' = [i \in 1 .. MaxEntries |-> Silence], bdl' = [i \in 1 .. MaxEntries |-> FALSE],
         civ' = 1, lvi' = 1, ~running', running' \in BOOLEAN, ready' \in BOOLEAN,
         heard' = << >>, asked' = << >>
  PROVE  SoundInv'
<1>1. 1 \in Entries
  BY SoundSizes DEF Entries
<1>2. bounce' \in [Entries -> Slices \cup {Silence}]
  BY DEF Entries
<1>3. bdl' \in [Entries -> BOOLEAN]
  BY DEF Entries
<1>4. heard' \in Seq(Slices \cup {Silence}) /\ asked' \in Seq(Slices)
  OBVIOUS
<1>5. SoundTypes'
  BY <1>1, <1>2, <1>3, <1>4 DEF SoundTypes
<1> QED BY <1>5 DEF SoundInv, Follows

LEMMA StoppedSound == ASSUME SoundInv, Stopped PROVE SoundInv'
<1>1. CASE ~ready
  BY <1>1 DEF Stopped, device, SoundInv, SoundTypes, Follows
<1>2. CASE ready
  <2>1. ready' \in BOOLEAN /\ running' = FALSE
    BY <1>2 DEF Stopped, SoundInv, SoundTypes
  <2> QED BY <1>2, <2>1, Silent DEF Stopped
<1> QED BY <1>1, <1>2

LEMMA StartedSound ==
  ASSUME SoundInv, NEW id \in {0, 1}, NEW bytes \in Nat, Started(id, bytes)
  PROVE  SoundInv'
<1>1. CASE ~ready \/ bytes = 0
  BY <1>1 DEF Started, device, SoundInv, SoundTypes, Follows
<1>2. CASE ready /\ bytes # 0
  <2> DEFINE n == Cut(bytes)
  <2>1. n \in Entries /\ n \in Nat /\ n > 0
    BY <1>2, SoundSizes DEF Cut, Entries
  <2>2. /\ bounce' = [i \in Entries |-> IF i <= n THEN <<id, i>> ELSE Silence]
        /\ bdl' = [i \in Entries |-> i <= n]
        /\ civ' = 1 /\ lvi' = n /\ running' = TRUE
        /\ heard' = << >> /\ asked' = Chunks(id, n) /\ ready' = ready
    BY <1>2 DEF Started, LastValid, Entries
  <2>3. Chunks(id, n) = [i \in 1 .. n |-> <<id, i>>]
    BY <2>1, SoundSizes DEF Chunks, Cut, Entries
  <2> HIDE DEF n
  <2>4. \A i \in 1 .. n : i \in Entries
    BY <2>1, SoundSizes DEF Entries
  <2>5. asked' \in Seq(Slices) /\ Len(asked') = n /\ asked' # << >>
    <3>1. \A i \in 1 .. n : <<id, i>> \in Slices
      BY <2>4 DEF Slices
    <3>2. asked' = [i \in 1 .. n |-> <<id, i>>]
      BY <2>2, <2>3
    <3>3. asked' \in Seq(Slices) /\ Len(asked') = n
      BY <2>1, <3>1, <3>2
    <3> QED BY <2>1, <3>3
  <2>6. SoundTypes'
    <3>1. 1 \in Entries
      BY SoundSizes DEF Entries
    <3>2. bounce' \in [Entries -> Slices \cup {Silence}]
      BY <2>2 DEF Slices
    <3>3. bdl' \in [Entries -> BOOLEAN]
      BY <2>2
    <3>4. heard' \in Seq(Slices \cup {Silence})
      BY <2>2
    <3> QED BY <2>1, <2>2, <2>5, <3>1, <3>2, <3>3, <3>4 DEF SoundTypes, SoundInv
  <2>7. \A i \in 1 .. n : bdl'[i] /\ bounce'[i] = asked'[i]
    <3> TAKE i \in 1 .. n
    <3>1. i \in Entries /\ i <= n
      BY <2>1, <2>4
    <3>2. bounce'[i] = asked'[i]
      BY <2>2, <2>3, <3>1
    <3>3. bdl'[i] = (i <= n)
      BY <2>2, <3>1
    <3> QED BY <3>1, <3>2, <3>3
  <2>8. Len(heard') = 0 /\ heard' = << >> /\ 1 <= n
    BY <2>1, <2>2
  <2>9. /\ Len(asked') = lvi' /\ civ' <= lvi' /\ running' /\ Len(heard') = civ' - 1
        /\ \A i \in 1 .. lvi' : bdl'[i] /\ bounce'[i] = asked'[i]
        /\ \A i \in 1 .. Len(heard') : heard'[i] = asked'[i]
    <3>1. lvi' = n /\ civ' = 1 /\ running'
      BY <2>2
    <3>2. \A i \in 1 .. lvi' : bdl'[i] /\ bounce'[i] = asked'[i]
      BY <2>7, <3>1
    <3>3. \A i \in 1 .. Len(heard') : heard'[i] = asked'[i]
      BY <2>8
    <3> QED BY <2>5, <2>8, <3>1, <3>2, <3>3
  <2> QED BY <2>5, <2>6, <2>9 DEF SoundInv, Follows
<1> QED BY <1>1, <1>2

LEMMA PlaysSound == ASSUME SoundInv, Plays PROVE SoundInv'
<1> DEFINE c == IF civ <= MaxEntries /\ bdl[civ] THEN bounce[civ] ELSE Silence
<1>1. /\ running /\ asked # << >> /\ Len(asked) = lvi /\ civ <= lvi
      /\ \A i \in 1 .. lvi : bdl[i] /\ bounce[i] = asked[i]
      /\ Len(heard) = civ - 1 /\ \A i \in 1 .. Len(heard) : heard[i] = asked[i]
  BY DEF SoundInv, Follows, Plays
<1>2. /\ heard' = Append(heard, c) /\ running' = (civ # lvi)
      /\ civ' = (IF civ # lvi THEN civ + 1 ELSE civ)
      /\ UNCHANGED <<ready, bounce, bdl, lvi, asked>>
  BY DEF Plays
<1>3. c = asked[civ] /\ c \in Slices \cup {Silence}
  BY <1>1, SoundSizes DEF SoundInv, SoundTypes, Entries
<1> HIDE DEF c
<1>4. /\ heard' \in Seq(Slices \cup {Silence}) /\ Len(heard') = civ
      /\ \A i \in 1 .. civ : heard'[i] = asked[i]
  BY <1>1, <1>2, <1>3 DEF SoundInv, SoundTypes, Entries
<1>5. SoundTypes'
  BY <1>1, <1>2, <1>4, SoundSizes DEF SoundInv, SoundTypes, Entries
<1>6. Len(heard') = (IF running' THEN civ' - 1 ELSE lvi)
  <2>1. civ \in Nat /\ lvi \in Nat
    BY SoundSizes DEF SoundInv, SoundTypes, Entries
  <2>2. CASE civ # lvi
    <3>1. running' = TRUE /\ civ' = civ + 1
      BY <1>2, <2>2
    <3> QED BY <1>4, <2>1, <3>1
  <2>3. CASE civ = lvi
    <3>1. running' = FALSE
      BY <1>2, <2>3
    <3> QED BY <1>4, <2>3, <3>1
  <2> QED BY <2>2, <2>3
<1>7. civ' <= lvi /\ \A i \in 1 .. Len(heard') : heard'[i] = asked'[i]
  BY <1>1, <1>2, <1>4 DEF SoundInv, SoundTypes, Entries
<1> QED BY <1>1, <1>2, <1>5, <1>6, <1>7 DEF SoundInv, Follows

LEMMA SoundStep == SoundInv /\ [AudioNext]_audiovars => SoundInv'
<1> SUFFICES ASSUME SoundInv, [AudioNext]_audiovars PROVE SoundInv'
  OBVIOUS
<1>1. CASE UNCHANGED device
  BY <1>1 DEF device, SoundInv, SoundTypes, Follows
<1>2. CASE Finds
  BY <1>2 DEF Finds, SoundInv, SoundTypes, Follows
<1>3. CASE Plays
  BY <1>3, PlaysSound
<1>4. CASE Stopped
  BY <1>4, StoppedSound
<1>5. ASSUME NEW id \in {0, 1}, NEW bytes \in Sizes, Started(id, bytes) PROVE SoundInv'
  BY <1>5, StartedSound, SoundSizes
<1>6. ASSUME NEW id \in {0, 1}, NEW bytes \in Sizes, Forced(id, bytes) PROVE SoundInv'
  BY <1>4, <1>5, <1>6 DEF Forced
<1> QED
  BY <1>1, <1>2, <1>3, <1>4, <1>5, <1>6
     DEF AudioNext, FrameBegins, Updates, StartsAgain, ClearsPause, ClosesGame, OtherStops,
         Sounds, Forces, OtherPlays, audiovars, device

LEMMA SoundStarts == AudioInit => SoundInv
<1> SUFFICES ASSUME AudioInit PROVE SoundInv
  OBVIOUS
<1>1. 1 \in Entries
  BY SoundSizes DEF Entries
<1>2. bounce \in [Entries -> Slices \cup {Silence}]
  BY DEF AudioInit, Entries
<1>3. bdl \in [Entries -> BOOLEAN]
  BY DEF AudioInit, Entries
<1>4. heard \in Seq(Slices \cup {Silence}) /\ asked \in Seq(Slices)
  BY DEF AudioInit
<1> QED BY <1>1, <1>2, <1>3, <1>4 DEF AudioInit, SoundInv, SoundTypes, Follows

(* However plays, stops and the device's own steps of any programs follow each other, what is *)
(* heard is the sound last taken, from its beginning, and whole when the device stops by      *)
(* itself; for any number of descriptors and sizes of sounds (ac97_play_user_buffer,          *)
(* ac97_stop).                                                                                *)
THEOREM SoundIsTrue == AudioSpec => []SoundTrue
<1>1. SoundInv => SoundTrue
  <2> SUFFICES ASSUME SoundInv PROVE SoundTrue
    OBVIOUS
  <2>1. heard \in Seq(Slices \cup {Silence}) /\ asked \in Seq(Slices) /\ lvi \in Nat /\ civ \in Nat /\ civ > 0
    BY SoundSizes DEF SoundInv, SoundTypes, Entries
  <2>2. Len(heard) <= Len(asked) /\ (~running => Len(heard) = Len(asked))
    BY <2>1 DEF SoundInv, Follows
  <2>3. \A i \in 1 .. Len(heard) : heard[i] = asked[i]
    BY <2>1 DEF SoundInv, Follows
  <2>4. SubSeq(asked, 1, Len(heard)) \in Seq(Slices) /\ Len(SubSeq(asked, 1, Len(heard))) = Len(heard)
    BY <2>1, <2>2
  <2>5. \A i \in 1 .. Len(heard) : SubSeq(asked, 1, Len(heard))[i] = asked[i]
    BY <2>1, <2>2
  <2>6. heard = SubSeq(asked, 1, Len(heard))
    BY <2>1, <2>3, <2>4, <2>5
  <2>7. ~running => heard = asked
    BY <2>1, <2>2, <2>3
  <2> QED BY <2>2, <2>6, <2>7 DEF SoundTrue
<1> QED BY <1>1, SoundStarts, SoundStep, PTL DEF AudioSpec

\* The gate of the game that plays: its pause is that of one of the games.
GateInv ==
    /\ game \in Games
    /\ gate \in [cool : 0 .. IF Cooldown > LockFrames THEN Cooldown ELSE LockFrames,
                 busy : BOOLEAN, timer : 0 .. 2, frames : 0 .. 2,
                 step : {"keys", "sounds", "closed"}]

LEMMA GateStays == ASSUME GateInv, [AudioNext]_audiovars PROVE GateInv'
<1> DEFINE longest == IF Cooldown > LockFrames THEN Cooldown ELSE LockFrames
           GateSets == [cool : 0 .. longest, busy : BOOLEAN, timer : 0 .. 2, frames : 0 .. 2,
                     step : {"keys", "sounds", "closed"}]
<1>1. /\ longest \in Nat /\ Cooldown \in 0 .. longest /\ LockFrames \in 0 .. longest
  BY AudioAssumption
<1> HIDE DEF longest
<1>2. gate \in GateSets /\ game \in Games
  BY DEF GateInv, longest
<1>3. SUFFICES gate' \in GateSets /\ game' = game
  BY <1>2 DEF GateInv, longest
<1>4. \A n \in 0 .. longest : Less(n) \in 0 .. longest
  BY <1>1 DEF Less
<1>5. CASE UNCHANGED <<game, gate>>
  BY <1>2, <1>5
<1>6. CASE FrameBegins
  <2> DEFINE c == IF game \in {"space", "snake"} THEN Less(gate.cool) ELSE gate.cool
             f == IF game = "space" THEN (gate.frames + 1) % 3 ELSE gate.frames
             b == IF game = "space" /\ gate.frames = 2 THEN FALSE ELSE gate.busy
  <2>1. c \in 0 .. longest /\ f \in 0 .. 2 /\ b \in BOOLEAN
    <3>1. gate.cool \in 0 .. longest /\ gate.frames \in 0 .. 2 /\ gate.busy \in BOOLEAN
      BY <1>2
    <3>2. c \in 0 .. longest
      BY <1>4, <3>1
    <3>3. f \in 0 .. 2
      BY <3>1
    <3>4. b \in BOOLEAN
      BY <3>1
    <3> QED BY <3>2, <3>3, <3>4
  <2>2. /\ gate' = [gate EXCEPT !.step = "keys", !.cool = c, !.frames = f, !.busy = b]
        /\ game' = game
    BY <1>6 DEF FrameBegins
  <2> HIDE DEF c, f, b
  <2> QED BY <1>2, <2>1, <2>2
<1>7. CASE Updates
  <2> DEFINE t == CASE ~gate.busy -> gate.timer [] gate.busy /\ gate.timer = 0 -> 2 [] OTHER -> gate.timer - 1
  <2>1. t \in 0 .. 2
    BY <1>2
  <2>2. \/ gate' = [gate EXCEPT !.step = "sounds"]
        \/ gate' = [gate EXCEPT !.step = "sounds",
                      !.cool = IF game = "snake" THEN @ ELSE Less(@),
                      !.timer = t,
                      !.busy = @ /\ gate.timer # 1]
    BY <1>7 DEF Updates
  <2> HIDE DEF t
  <2>3. (gate.busy /\ gate.timer # 1) \in BOOLEAN
    BY <1>2
  <2> QED BY <1>2, <1>4, <1>7, <2>1, <2>2, <2>3 DEF Updates
<1>8. CASE \E bytes \in Sizes : Sounds(bytes) \/ Forces(bytes)
  <2>1. (game # "snake") \in BOOLEAN
    OBVIOUS
  <2> QED BY <1>1, <1>2, <1>8, <2>1 DEF Sounds, Forces
<1>9. CASE StartsAgain \/ ClearsPause \/ ClosesGame
  <2>1. 0 \in 0 .. longest
    BY <1>1
  <2>2. CASE StartsAgain
    BY <1>2, <2>1, <2>2 DEF StartsAgain
  <2>3. CASE ClearsPause
    BY <1>2, <2>1, <2>3 DEF ClearsPause, device
  <2>4. CASE ClosesGame
    BY <1>2, <2>1, <2>4 DEF ClosesGame
  <2> QED BY <1>9, <2>2, <2>3, <2>4
<1> QED BY <1>5, <1>6, <1>7, <1>8, <1>9
        DEF AudioNext, Finds, Plays, OtherStops, OtherPlays, audiovars

\* The entries of the device and the pauses of the games stay in their ranges (ac97_play_user_buffer, play_sound).
THEOREM AudioTypesHold == AudioSpec => []AudioTypeOK
<1>1. AudioInit => SoundInv /\ GateInv
  <2> SUFFICES ASSUME AudioInit PROVE GateInv
    BY SoundStarts
  <2>1. {Cooldown, LockFrames} \subseteq Nat
    BY AudioAssumption
  <2> QED BY <2>1 DEF AudioInit, GateInv
<1>2. (SoundInv /\ GateInv) /\ [AudioNext]_audiovars => (SoundInv /\ GateInv)'
  BY SoundStep, GateStays
<1>3. SoundInv /\ GateInv => AudioTypeOK
  BY DEF SoundInv, SoundTypes, Entries, GateInv, AudioTypeOK
<1> QED BY <1>1, <1>2, <1>3, PTL DEF AudioSpec

-----------------------------------------------------------------------------
(* The forms.  A click changes the twin and then the wrapper, so the invariant is one of whole *)
(* passes of the loop: the two are told of the same spot, as long as the form is listed.       *)

Places == Controls \cup {Wrapper, None}
Checks == Radios \cup {"check"}
Points == Spots \cup {None}

Windows ==
    [listed : BOOLEAN, dragging : BOOLEAN, moved : BOOLEAN, caret : Places, kept : Places,
     focus : Texts \cup {None}, checked : SUBSET Checks, shown : SUBSET Checks,
     pressed : SUBSET Controls, text : 0 .. TextLimit, caption : 0 .. TextLimit,
     spilled : BOOLEAN, down : BOOLEAN, hold : 0 .. 2, at : Points, spot : Points]

\* The button is down from the click that is taken to the pass that releases it; programs that
\* do not debounce release it where it went down.
ButtonTrue(p, u) ==
    /\ u.down <=> u.hold # 0
    /\ ~u.down => u.at = None
    /\ u.pressed # {} \/ u.dragging => u.down
    /\ u.pressed # {} => u.listed
    /\ p \notin Debouncers => ~u.moved /\ u.at = u.spot

OneRadio(marks) == ~("radio1" \in marks /\ "radio2" \in marks)

Twins(u) ==
    /\ u.caption = u.text
    /\ u.listed => u.shown = u.checked /\ OneRadio(u.shown)

Caret(p, u) == p \notin Keepers /\ u.caret \in Texts => u.focus = u.caret

Form(p, u) == u \in Windows /\ ButtonTrue(p, u) /\ Twins(u) /\ Caret(p, u)

LEMMA TextSize == TextLimit \in Nat
BY TextAssumption

\* Fields that the invariant does not relate to the others.
LEMMA KeptOnly ==
  ASSUME NEW p, NEW u, NEW x \in Places, Form(p, u)
  PROVE  Form(p, [u EXCEPT !.kept = x])
BY DEF Form, Windows, ButtonTrue, Twins, Caret

LEMMA CaretOnly ==
  ASSUME NEW p \in Keepers, NEW u, NEW x \in Places, Form(p, u)
  PROVE  Form(p, [u EXCEPT !.caret = x])
BY DEF Form, Windows, ButtonTrue, Twins, Caret

LEMMA TypesForm ==
  ASSUME NEW p, NEW u, NEW key \in Keys, Form(p, u)
  PROVE  Form(p, Types(u, key)) /\ Types(u, key).hold = u.hold
<1>1. CASE key = None \/ u.focus # "edit"
  BY <1>1 DEF Types
<1>2. CASE ~(key = None \/ u.focus # "edit")
  <2>1. PICK n \in 0 .. TextLimit :
          Types(u, key) = [u EXCEPT !.text = n, !.caption = n, !.spilled = @ \/ n + 1 > CaptionSize]
    <3> DEFINE n == CASE key = "erase" /\ u.text > 0        -> u.text - 1
                      [] key = "char" /\ u.text < TextLimit -> u.text + 1
                      [] OTHER                              -> u.text
    <3>1. n \in 0 .. TextLimit
      BY TextSize DEF Form, Windows, Keys
    <3> QED BY <1>2, <3>1 DEF Types
  <2>2. (u.spilled \/ n + 1 > CaptionSize) \in BOOLEAN
    BY DEF Form, Windows
  <2> HIDE DEF Types
  <2> QED BY <2>1, <2>2 DEF Form, Windows, ButtonTrue, Twins, Caret
<1> QED BY <1>1, <1>2

LEMMA KeepsForm ==
  ASSUME NEW p \in Keepers, NEW u, Form(p, u)
  PROVE  Form(p, Keeps(u)) /\ Keeps(u).hold = u.hold
<1>1. u.kept \in Places /\ u.caret \in Places
  BY DEF Form, Windows
<1>2. CASE u.caret = None
  BY <1>1, <1>2, CaretOnly DEF Keeps, Form, Windows
<1>3. CASE u.caret # None
  BY <1>1, <1>3, KeptOnly DEF Keeps, Form, Windows
<1> QED BY <1>2, <1>3

LEMMA RemembersForm ==
  ASSUME NEW p, NEW u, NEW s, Form(p, u)
  PROVE  Form(p, Remembers(u, s)) /\ Remembers(u, s).hold = u.hold
<1>1. u.caret \in Places
  BY DEF Form, Windows
<1> QED BY <1>1, KeptOnly DEF Remembers, Form, Windows

LEMMA Spotted == \A s \in Spots : s \in Points /\ s # None
BY DEF Points, Spots, Controls, Radios, Texts, None

\* What a click leaves alone, until the wrapper is told.
Alike(u, v) ==
    /\ v.moved <=> u.moved
    /\ v.spilled <=> u.spilled
    /\ v.checked = u.checked /\ v.focus = u.focus /\ v.kept = u.kept
    /\ v.text = u.text /\ v.caption = u.caption

\* The check or the radio at s, ticked or not.
Ticked(marks, s) ==
    CASE s = "check"   -> IF s \in marks THEN marks \ {s} ELSE marks \cup {s}
      [] s \in Radios -> IF s \in marks THEN marks ELSE (marks \ Radios) \cup {s}
      [] OTHER         -> marks

LEMMA TickedOne == ASSUME NEW marks, NEW s, OneRadio(marks) PROVE OneRadio(Ticked(marks, s))
BY DEF OneRadio, Ticked, Radios

\* The twins are told of a click on s: the window goes from u to r.
Pressed(u, s, r) ==
    /\ r \in Windows /\ Alike(u, r)
    /\ r.listed <=> u.listed
    /\ r.hold = u.hold
    /\ r.caret = (IF s \in Controls THEN s ELSE None)
    /\ r.shown = Ticked(u.shown, s)

LEMMA Presses1 == ASSUME NEW u \in Windows, NEW s \in Spots PROVE Pressed(u, s, Presses(u, s))
<1>1. CASE s = "check"
  BY <1>1 DEF Pressed, Ticked, Presses, Windows, Alike, Places, Controls, Checks, Radios, Texts
<1>2. CASE s \in Radios
  BY <1>2 DEF Pressed, Ticked, Presses, Windows, Alike, Places, Controls, Checks, Radios, Texts
<1>3. CASE s \in {"edit", "memo", "button"}
  BY <1>3 DEF Pressed, Ticked, Presses, Windows, Alike, Places, Controls, Checks, Radios, Texts
<1>4. CASE s \in {"close", "title", "form", "outside"}
  BY <1>4 DEF Pressed, Ticked, Presses, Windows, Alike, Places, Controls, Checks, Radios, Texts, None
<1> QED BY <1>1, <1>2, <1>3, <1>4 DEF Spots, Controls, Texts

\* So is the bar of the form.
Downed(u, s, r) ==
    /\ r \in Windows /\ Alike(u, r)
    /\ r.hold = u.hold
    /\ r.listed <=> s # "close"
    /\ s = "close" => r.pressed = u.pressed
    /\ s \in {"close", "title"} => r.caret = u.caret /\ r.shown = u.shown
    /\ s \notin {"close", "title"} => Pressed(u, s, r)

LEMMA Downs ==
  ASSUME NEW u \in Windows, NEW s \in Spots, u.listed, s # "outside"
  PROVE  Downed(u, s, MouseDown(u, s))
<1>1. CASE s = "close"
  BY <1>1 DEF Downed, MouseDown, Windows, Alike
<1>2. CASE s = "title"
  BY <1>2 DEF Downed, MouseDown, Windows, Alike
<1>3. CASE s \notin {"close", "title"}
  <2>1. MouseDown(u, s) = Presses(u, s)
    BY <1>3 DEF MouseDown
  <2>2. Pressed(u, s, MouseDown(u, s))
    BY <2>1, Presses1
  <2> HIDE DEF MouseDown
  <2> QED BY <1>3, <2>2 DEF Downed, Pressed
<1> QED BY <1>1, <1>2, <1>3

\* The wrapper is told of a click on s: it goes from m to r.
Told(m, s, r) ==
    /\ r \in Windows
    /\ r.listed <=> m.listed
    /\ r.dragging <=> m.dragging
    /\ r.moved <=> m.moved
    /\ r.down <=> m.down
    /\ r.pressed = m.pressed /\ r.shown = m.shown /\ r.text = m.text /\ r.caption = m.caption
    /\ r.hold = m.hold /\ r.at = m.at /\ r.spot = m.spot
    /\ r.checked = Ticked(m.checked, s)
    /\ s \in Texts => r.caret = s /\ r.focus = s
    /\ s \in {"check", "button"} \cup Radios => r.caret = m.caret /\ r.focus = m.focus
    /\ s \notin Controls => r.caret = None

LEMMA Reached == ASSUME NEW m \in Windows, NEW s \in Spots PROVE Told(m, s, ClickReaches(m, s))
<1>1. CASE s = "check"
  BY <1>1 DEF Told, Ticked, ClickReaches, Toggles, Windows, Places, Controls, Checks, Radios, Texts
<1>2. CASE s \in Radios
  BY <1>2 DEF Told, Ticked, ClickReaches, Selects, Windows, Places, Controls, Checks, Radios, Texts
<1>3. CASE s \in Texts
  BY <1>3 DEF Told, Ticked, ClickReaches, Windows, Places, Controls, Checks, Radios, Texts
<1>4. CASE s = "button"
  BY <1>4 DEF Told, Ticked, ClickReaches, Windows, Places, Controls, Checks, Radios, Texts
<1>5. CASE s \in {"close", "title", "form", "outside"}
  <2>1. ClickReaches(m, s) = [m EXCEPT !.focus = None, !.caret = None]
    BY <1>5 DEF ClickReaches, Radios, Texts
  <2>2. s \notin Controls /\ s \notin Texts /\ s \notin {"check", "button"} \cup Radios
    BY <1>5 DEF Controls, Radios, Texts
  <2>3. Ticked(m.checked, s) = m.checked
    BY <2>2 DEF Ticked
  <2> HIDE DEF ClickReaches
  <2> QED BY <2>1, <2>2, <2>3 DEF Told, Windows, Places
<1> QED BY <1>1, <1>2, <1>3, <1>4, <1>5 DEF Spots, Controls

\* The twins and the wrappers are told of one click.
Clicked(u, s, h) == ClickReaches(MouseEvent([u EXCEPT !.hold = h], s, TRUE), s)

LEMMA ClickForm ==
  ASSUME NEW p, NEW u, NEW s \in Spots, NEW h \in {1, 2}, Form(p, u), u.hold = 0
  PROVE  Form(p, Clicked(u, s, h))
<1> DEFINE v == [u EXCEPT !.hold = h]
           w == IF u.listed /\ s # "outside" THEN MouseDown(v, s) ELSE v
           m == [w EXCEPT !.down = TRUE, !.at = s, !.spot = s]
           r == ClickReaches(m, s)
<1>1. /\ u \in Windows /\ ~u.down /\ u.at = None /\ u.pressed = {} /\ ~u.dragging
      /\ p \notin Debouncers => ~u.moved
  BY DEF Form, ButtonTrue
<1>2. v \in Windows /\ v.hold = h /\ (v.listed <=> u.listed) /\ v.shown = u.shown /\ v.caret = u.caret
      /\ Alike(u, v) /\ v.pressed = {} /\ ~v.down /\ v.at = None
  BY <1>1 DEF Windows, Alike
<1>3. MouseEvent(v, s, TRUE) = m
  <2>1. MouseDown(v, s) = w
    BY <1>2 DEF MouseDown
  <2> HIDE DEF w, v
  <2> QED BY <1>2, <2>1 DEF MouseEvent
<1> HIDE DEF v
<1>4. /\ u.listed /\ s # "outside" => Downed(v, s, w)
      /\ ~u.listed \/ s = "outside" => w = v
  BY <1>2, Downs
<1> HIDE DEF w
<1>a. w \in Windows /\ Alike(v, w) /\ w.hold = h /\ (~w.listed => w.pressed = {})
  BY <1>2, <1>4 DEF Downed, Alike
<1>5. /\ m \in Windows /\ Alike(v, m) /\ m.hold = h /\ m.down /\ m.at = s /\ m.spot = s
      /\ (m.listed <=> w.listed) /\ m.pressed = w.pressed /\ m.caret = w.caret /\ m.shown = w.shown
  BY <1>a, Spotted DEF Windows, Alike
<1> HIDE DEF m
<1>6. Told(m, s, r)
  BY <1>5, Reached
<1> HIDE DEF r
<1>7. ButtonTrue(p, r)
  BY <1>1, <1>2, <1>a, <1>5, <1>6 DEF ButtonTrue, Told, Alike
<1>8. Twins(r)
  <2>1. r.caption = r.text
    BY <1>2, <1>5, <1>6 DEF Told, Alike, Form, Twins
  <2>2. CASE ~r.listed
    BY <2>1, <2>2 DEF Twins
  <2>3. CASE r.listed
    <3>1. u.listed /\ r.shown = w.shown /\ r.checked = Ticked(u.checked, s)
      BY <1>2, <1>4, <1>5, <1>6, <2>3 DEF Told, Alike
    <3>2. u.shown = u.checked /\ OneRadio(u.shown)
      BY <3>1 DEF Form, Twins
    <3>3. OneRadio(Ticked(u.checked, s))
      BY <3>2, TickedOne
    <3>4. CASE s \in {"outside", "close", "title"}
      <4>1. w.shown = u.shown
        BY <1>2, <1>4, <3>1, <3>4 DEF Downed
      <4>2. Ticked(u.checked, s) = u.checked
        BY <3>4 DEF Ticked, Radios
      <4> QED BY <2>1, <3>1, <3>2, <4>1, <4>2 DEF Twins
    <3>5. CASE s \notin {"outside", "close", "title"}
      <4>1. w.shown = Ticked(u.shown, s)
        BY <1>2, <1>4, <3>1, <3>5 DEF Downed, Pressed
      <4> QED BY <2>1, <3>1, <3>2, <3>3, <4>1 DEF Twins
    <3> QED BY <3>4, <3>5
  <2> QED BY <2>2, <2>3
<1>9. Caret(p, r)
  <2> SUFFICES ASSUME p \notin Keepers, r.caret \in Texts PROVE r.focus = r.caret
    BY DEF Caret
  <2>1. CASE s \in Texts
    BY <1>6, <2>1 DEF Told
  <2>2. CASE s \notin Controls
    BY <1>6, <2>2 DEF Told, Texts, None
  <2>3. CASE s \in {"check", "button"} \cup Radios
    <3>1. r.caret = w.caret /\ r.focus = u.focus
      BY <1>2, <1>5, <1>6, <2>3 DEF Told, Alike
    <3>2. CASE w = v
      BY <1>2, <3>1, <3>2 DEF Form, Caret
    <3>3. CASE w # v
      <4>1. Downed(v, s, w)
        BY <1>4, <3>3
      <4>2. w.caret = s
        BY <2>3, <4>1 DEF Downed, Pressed, Controls, Radios
      <4> QED BY <2>3, <3>1, <4>2 DEF Texts, Radios
    <3> QED BY <3>2, <3>3
  <2> QED BY <2>1, <2>2, <2>3 DEF Controls
<1>10. Form(p, r)
  BY <1>6, <1>7, <1>8, <1>9 DEF Told, Form
<1> QED BY <1>3, <1>10 DEF Clicked, r, v

\* The button goes up: at the spot the program remembers.
Lifted(u) == [MouseEvent(u, u.spot, FALSE) EXCEPT !.hold = 0]

LEMMA UpForm ==
  ASSUME NEW p, NEW u, Form(p, u), u.hold = 1
  PROVE  Form(p, Lifted(u))
<1> DEFINE v == IF u.at # None /\ u.spot # u.at THEN MouseMove(u) ELSE u
           w == MouseUp(v)
           x == [w EXCEPT !.down = FALSE, !.at = None, !.spot = None]
           r == [x EXCEPT !.hold = 0]
<1>1. u \in Windows /\ u.down
  BY DEF Form, ButtonTrue
<1>2. /\ v \in Windows /\ v.down /\ (v.listed <=> u.listed) /\ v.pressed = u.pressed
      /\ p \notin Debouncers => ~v.moved
      /\ v.caret = u.caret /\ v.focus = u.focus /\ v.text = u.text /\ v.caption = u.caption
      /\ v.shown = u.shown /\ v.checked = u.checked
  BY <1>1 DEF MouseMove, Windows, Form, ButtonTrue
<1>3. Lifted(u) = r
  BY <1>1 DEF MouseEvent, Lifted
<1> HIDE DEF v
<1>4. /\ w \in Windows /\ (w.listed <=> u.listed) /\ w.pressed = {} /\ ~w.dragging
      /\ p \notin Debouncers => ~w.moved
      /\ w.caret = u.caret /\ w.focus = u.focus /\ w.text = u.text /\ w.caption = u.caption
      /\ w.shown = u.shown /\ w.checked = u.checked
  BY <1>2 DEF MouseUp, Windows, Form, ButtonTrue
<1> HIDE DEF w
<1>6. /\ r \in Windows /\ (r.listed <=> u.listed) /\ r.pressed = {} /\ ~r.dragging
      /\ p \notin Debouncers => ~r.moved
      /\ r.caret = u.caret /\ r.focus = u.focus /\ r.text = u.text /\ r.caption = u.caption
      /\ r.shown = u.shown /\ r.checked = u.checked
      /\ ~r.down /\ r.hold = 0 /\ r.at = None /\ r.spot = None
  <2>1. x \in Windows /\ ~x.down /\ x.at = None /\ x.spot = None
        /\ x.caret = w.caret /\ x.focus = w.focus /\ x.text = w.text /\ x.caption = w.caption
        /\ x.shown = w.shown /\ x.checked = w.checked /\ x.pressed = w.pressed
        /\ (x.listed <=> w.listed) /\ (x.dragging <=> w.dragging) /\ (x.moved <=> w.moved)
    BY <1>4 DEF Windows, Points
  <2> HIDE DEF x
  <2> QED BY <1>4, <2>1 DEF Windows
<1> HIDE DEF r
<1>7. Form(p, r)
  BY <1>6 DEF Form, ButtonTrue, Twins, Caret
<1> QED BY <1>3, <1>7

LEMMA HitsForm ==
  ASSUME NEW p, NEW u, NEW s \in Points, Form(p, u)
  PROVE  Form(p, Hits(u, s))
<1>1. CASE s = None \/ u.hold # 0
  BY <1>1 DEF Hits
<1>2. CASE s # None /\ u.hold = 0
  <2>1. Hits(u, s) = Clicked(u, s, 2)
    BY <1>2 DEF Hits, Clicked
  <2> QED BY <1>2, <2>1, ClickForm DEF Points
<1> QED BY <1>1, <1>2

LEMMA ReleasesForm ==
  ASSUME NEW p, NEW u, Form(p, u)
  PROVE  Form(p, Releases(u))
<1>1. CASE u.hold = 1
  <2>1. Releases(u) = Lifted(u)
    BY <1>1 DEF Releases, Lifted
  <2> QED BY <1>1, <2>1, UpForm
<1>2. CASE u.hold = 2
  BY <1>2 DEF Releases, Form, Windows, ButtonTrue, Twins, Caret
<1>3. CASE u.hold \notin {1, 2}
  BY <1>3 DEF Releases
<1> QED BY <1>1, <1>2, <1>3

\* Only in the programs that debounce does the remembered spot follow the pointer.
LEMMA DebouncesForm ==
  ASSUME NEW p \in Debouncers, NEW u, NEW s \in Points, Form(p, u)
  PROVE  Form(p, Debounces(u, s))
<1>1. CASE s # None /\ u.hold = 0
  <2>1. Debounces(u, s) = Clicked(u, s, 1)
    BY <1>1 DEF Debounces, Clicked
  <2> QED BY <1>1, <2>1, ClickForm DEF Points
<1>2. CASE s = None /\ u.hold = 1
  <2>1. Debounces(u, s) = Lifted(u)
    BY <1>2 DEF Debounces, Lifted
  <2> QED BY <1>2, <2>1, UpForm
<1>3. CASE s # None /\ u.hold = 1
  BY <1>3 DEF Debounces, Form, Windows, ButtonTrue, Twins, Caret
<1>4. CASE ~(s # None /\ u.hold = 0) /\ ~(s = None /\ u.hold = 1) /\ ~(s # None /\ u.hold = 1)
  BY <1>4 DEF Debounces
<1> QED BY <1>1, <1>2, <1>3, <1>4

\* The click, what is remembered of it, and the release, as most loops end.
LEMMA EndsForm ==
  ASSUME NEW p, NEW u, NEW s \in Points, Form(p, u)
  PROVE  /\ Form(p, Releases(IF u.hold = 0 THEN Remembers(Hits(u, s), s) ELSE u))
         /\ Form(p, Releases(Hits(u, s)))
<1>1. Form(p, Hits(u, s)) /\ Form(p, Remembers(Hits(u, s), s))
  BY HitsForm, RemembersForm
<1>2. Form(p, IF u.hold = 0 THEN Remembers(Hits(u, s), s) ELSE u)
  BY <1>1
<1> QED BY <1>1, <1>2, ReleasesForm

FormInv == program \in Programs /\ Form(program, ui)

LEMMA PassesForm ==
  ASSUME FormInv, NEW key \in Keys, NEW s \in Points, NEW front \in BOOLEAN, NEW rom \in BOOLEAN,
         NEW forced \in BOOLEAN, Passes(key, s, front, rom, forced)
  PROVE  FormInv'
<1>0. Form(program, ui) /\ program' = program
  BY DEF FormInv, Passes
<1>1. Form(program, Types(ui, key))
  BY <1>0, TypesForm
<1>2. program \in Keepers => /\ Form(program, Keeps(ui)) /\ Form(program, Types(Keeps(ui), key))
  BY <1>0, KeepsForm, TypesForm
<1>3. CASE program \in {"temp", "tarefa"}
  <2>1. Form(program, TempLoop(ui, key, s)) /\ Form(program, TarefaLoop(ui, key, s))
    BY <1>2, <1>3, EndsForm DEF TempLoop, TarefaLoop, Keepers
  <2> QED BY <1>0, <1>3, <2>1 DEF Passes, FormInv
<1>4. CASE program \in {"exec", "gfile"}
  <2>1. Form(program, IF front THEN Types(Keeps(ui), key) ELSE Keeps(ui))
    BY <1>2, <1>4 DEF Keepers
  <2>2. Form(program, ExecLoop(ui, key, s, front)) /\ Form(program, GfileLoop(ui, key, s, front))
    BY <2>1, EndsForm DEF ExecLoop, GfileLoop
  <2> QED BY <1>0, <1>4, <2>2 DEF Passes, FormInv
<1>5. CASE program = "editor"
  <2>1. Form(program, EditorLoop(ui, key, s, front))
    BY <1>2, <1>5, EndsForm DEF EditorLoop, Keepers
  <2> QED BY <1>0, <1>5, <2>1 DEF Passes, FormInv
<1>6. CASE program = "chip"
  <2> DEFINE k == IF ui.caret = None /\ rom THEN ui ELSE Keeps(ui)
             v == IF front /\ k.caret = Wrapper THEN Types(k, key) ELSE k
             w == Hits(v, s)
  <2>1. Form(program, k)
    BY <1>0, <1>2, <1>6 DEF Keepers
  <2> HIDE DEF k
  <2>2. Form(program, v)
    BY <2>1, TypesForm
  <2> HIDE DEF v
  <2>3. Form(program, w)
    BY <2>2, HitsForm
  <2> HIDE DEF w
  <2>4. /\ Form(program, [w EXCEPT !.caret = Wrapper, !.kept = Wrapper])
        /\ Form(program, [w EXCEPT !.caret = Wrapper])
    BY <1>6, <2>3 DEF Form, Windows, ButtonTrue, Twins, Caret, Places, Keepers
  <2> DEFINE x == CASE v.hold = 0 /\ forced /\ s = "edit" ->
                         [w EXCEPT !.caret = Wrapper, !.kept = Wrapper]
                    [] v.hold = 0 /\ forced /\ s = "button" -> [w EXCEPT !.caret = Wrapper]
                    [] OTHER -> w
  <2>5. ChipLoop(ui, key, s, front, rom, forced) = Releases(x)
    BY Zenon DEF ChipLoop, k, v, w
  <2>6. Form(program, x)
    BY <2>3, <2>4
  <2> HIDE DEF x
  <2>7. Form(program, ChipLoop(ui, key, s, front, rom, forced))
    BY <2>5, <2>6, ReleasesForm
  <2> QED BY <1>0, <1>6, <2>7 DEF Passes, FormInv
<1>7. CASE program = "calc"
  <2> DEFINE v == Types(Keeps(ui), key)
  <2>1. Form(program, v)
    BY <1>2, <1>7 DEF Keepers
  <2> HIDE DEF v
  <2>2. Form(program, Debounces(v, s)) /\ Form(program, Remembers(Debounces(v, s), s))
    BY <1>7, <2>1, DebouncesForm, RemembersForm DEF Debouncers
  <2>3. Form(program, CalcLoop(ui, key, s))
    BY <2>2 DEF CalcLoop, v
  <2> QED BY <1>0, <1>7, <2>3 DEF Passes, FormInv
<1>8. CASE program = "serial"
  <2>1. Form(program, SerialLoop(ui, key, s))
    BY <1>1, <1>8, DebouncesForm DEF SerialLoop, Debouncers
  <2> QED BY <1>0, <1>8, <2>1 DEF Passes, FormInv
<1>9. CASE program \in {"audio", "test_try", "dsg", "debug"}
  <2>1. /\ Form(program, AudioLoop(ui, key, s)) /\ Form(program, TestTryLoop(ui, key, s))
        /\ Form(program, DsgLoop(ui, key, s)) /\ Form(program, DebugLoop(ui, s))
    BY <1>0, <1>1, EndsForm DEF AudioLoop, TestTryLoop, DsgLoop, DebugLoop
  <2> QED BY <1>0, <1>9, <2>1 DEF Passes, FormInv
<1>10. CASE program \in {"terminal", "gpci", "gtarefa"}
  <2>1. /\ Form(program, TerminalLoop(ui, s, front)) /\ Form(program, GpciLoop(ui, key, s, front))
        /\ Form(program, GtarefaLoop(ui, key, s, front))
    BY <1>0, <1>1, EndsForm DEF TerminalLoop, GpciLoop, GtarefaLoop
  <2> QED BY <1>0, <1>10, <2>1 DEF Passes, FormInv
<1> QED BY <1>3, <1>4, <1>5, <1>6, <1>7, <1>8, <1>9, <1>10 DEF FormInv, Programs

LEMMA FormStarts == GuiInit => FormInv
<1> SUFFICES ASSUME GuiInit PROVE Form(program, ui)
  BY DEF GuiInit, FormInv
<1> DEFINE c == IF program \in Starters THEN Wrapper ELSE None
<1>1. c \in Places /\ c \notin Texts /\ None \in Points /\ 0 \in 0 .. TextLimit
  BY TextSize DEF Places, Points, Texts, Wrapper, None
<1>2. ui = [listed |-> TRUE, dragging |-> FALSE, moved |-> FALSE, caret |-> c, kept |-> c,
            focus |-> None, checked |-> {}, shown |-> {}, pressed |-> {}, text |-> 0, caption |-> 0,
            spilled |-> FALSE, down |-> FALSE, hold |-> 0, at |-> None, spot |-> None]
  BY DEF GuiInit, NewWindow
<1> HIDE DEF c
<1>3. ui \in Windows
  BY <1>1, <1>2 DEF Windows
<1> QED BY <1>1, <1>2, <1>3 DEF Form, ButtonTrue, Twins, Caret, OneRadio

LEMMA FormStep == FormInv /\ [GuiNext]_guivars => FormInv'
<1>1. ASSUME FormInv, UNCHANGED guivars PROVE FormInv'
  BY <1>1 DEF FormInv, guivars
<1>2. ASSUME FormInv, GuiNext PROVE FormInv'
  <2>1. PICK key \in Keys, s \in Points, front \in BOOLEAN, rom \in BOOLEAN, forced \in BOOLEAN :
           Passes(key, s, front, rom, forced)
    BY <1>2 DEF GuiNext, Keys, Points
  <2> QED BY <1>2, <2>1, PassesForm
<1> QED BY <1>1, <1>2

(* In every program that has a form, for any lengths of texts and captions: what is drawn is  *)
(* what the program holds, nothing stays pressed or dragged once the button is up, and the    *)
(* caret stands where the keys go (gui_process_press, GUI_ProcessMouseClick, the main loops). *)
THEOREM FormsAreTrue == GuiSpec => []FormsTrue
<1>1. FormInv => FormsTrue
  <2> SUFFICES ASSUME FormInv PROVE FormsTrue
    OBVIOUS
  <2>1. ui.shown \cap Radios \in SUBSET Radios /\ Form(program, ui)
    BY DEF FormInv
  <2>2. ASSUME ui.listed PROVE ui.shown = ui.checked /\ Cardinality(ui.shown \cap Radios) <= 1
    <3>1. ui.shown = ui.checked /\ OneRadio(ui.shown)
      BY <2>1, <2>2 DEF Form, Twins
    <3>2. ui.shown \cap Radios \in {{}, {"radio1"}, {"radio2"}}
      BY <3>1 DEF OneRadio, Radios
    <3>3. Cardinality({}) = 0 /\ Cardinality({"radio1"}) = 1 /\ Cardinality({"radio2"}) = 1
      BY FS_EmptySet, FS_Singleton
    <3> QED BY <3>1, <3>2, <3>3
  <2>3. TwinsAgree
    BY <2>1, <2>2 DEF TwinsAgree, Form, Twins
  <2>4. NothingStuck
    BY <2>1 DEF NothingStuck, Form, ButtonTrue
  <2>5. CaretTrue
    BY <2>1 DEF CaretTrue, Form, Caret
  <2> QED BY <2>3, <2>4, <2>5 DEF FormsTrue
<1> QED BY <1>1, FormStarts, FormStep, PTL DEF GuiSpec

\* What a form keeps stays of its types, for any lengths of texts (gui.c, libgui.c).
THEOREM GuiTypesHold == GuiSpec => []GuiTypeOK
<1>1. FormInv => GuiTypeOK
  BY DEF FormInv, Form, Windows, Places, Checks, GuiTypeOK
<1> QED BY <1>1, FormStarts, FormStep, PTL DEF GuiSpec

-----------------------------------------------------------------------------
(* Induction over the naturals, for sets: every set of naturals that is not empty has a least  *)
(* member, because < is well founded.                                                          *)

LEMMA LeastOf == ASSUME NEW T \in SUBSET Nat, T # {} PROVE \E m \in T : \A k \in T : ~(k < m)
<1>1. IsWellFoundedOn({ss \in Nat \X Nat : ss[1] < ss[2]}, Nat)
  BY NatLessThanWellFounded DEF OpToRel
<1>2. PICK m \in T : \A k \in T : <<k, m>> \notin {ss \in Nat \X Nat : ss[1] < ss[2]}
  BY <1>1, WFMin
<1> QED BY <1>2

LEMMA StepByStep ==
  ASSUME NEW n \in Nat, NEW S, 0 \in S, \A i \in 0 .. n : i \in S /\ i < n => i + 1 \in S
  PROVE  \A i \in 0 .. n : i \in S
<1> DEFINE T == {i \in 0 .. n : i \notin S}
<1> SUFFICES ASSUME T # {} PROVE FALSE
  OBVIOUS
<1>0. T \in SUBSET Nat
  OBVIOUS
<1>1. PICK m \in T : \A k \in T : ~(k < m)
  <2> HIDE DEF T
  <2> QED BY <1>0, LeastOf
<1>2. m # 0 /\ m - 1 \in 0 .. n /\ m - 1 < m /\ m - 1 < n
  BY <1>1
<1>3. m - 1 \in S
  BY <1>1, <1>2
<1>4. (m - 1) + 1 \in S
  BY <1>2, <1>3
<1> QED BY <1>1, <1>4

\* A step may be taken n times.
Steps(f, n, a, h) == f[0] = a /\ \A i \in 1 .. n : f[i] = h[<<f[i - 1], i>>]

LEMMA Iterated ==
  ASSUME NEW n \in Nat, NEW A, NEW a \in A, NEW h \in [A \X (1 .. n) -> A]
  PROVE  \E f \in [0 .. n -> A] : Steps(f, n, a, h)
<1> DEFINE Done(k, f) == f[0] = a /\ \A i \in 1 .. k : f[i] = h[<<f[i - 1], i>>]
           S == {k \in 0 .. n : \E f \in [0 .. k -> A] : Done(k, f)}
<1>1. 0 \in S
  <2> DEFINE g == [i \in 0 .. 0 |-> a]
  <2>1. g \in [0 .. 0 -> A] /\ Done(0, g)
    OBVIOUS
  <2> HIDE DEF g, Done
  <2>2. \E f \in [0 .. 0 -> A] : Done(0, f)
    BY <2>1
  <2> QED BY <2>2
<1>2. ASSUME NEW k \in 0 .. n, k \in S, k < n PROVE k + 1 \in S
  <2>1. PICK f \in [0 .. k -> A] : Done(k, f)
    BY <1>2
  <2> DEFINE g == [i \in 0 .. k + 1 |-> IF i <= k THEN f[i] ELSE h[<<f[k], k + 1>>]]
  <2>2. k + 1 \in 1 .. n /\ k \in 0 .. k /\ f[k] \in A
    BY <1>2
  <2>3. h[<<f[k], k + 1>>] \in A
    BY <2>2
  <2>4. g \in [0 .. k + 1 -> A]
    BY <2>3
  <2>5. g[0] = a
    BY <2>1
  <2>6. ASSUME NEW i \in 1 .. k + 1 PROVE g[i] = h[<<g[i - 1], i>>]
    <3>1. i - 1 \in 0 .. k /\ g[i - 1] = f[i - 1]
      BY <2>6
    <3>2. CASE i <= k
      BY <2>1, <3>1, <3>2
    <3>3. CASE i = k + 1
      <4>1. i - 1 = k /\ i \in 0 .. k + 1 /\ ~(i <= k)
        BY <3>3
      <4>2. g[i] = h[<<f[k], k + 1>>] /\ g[i - 1] = f[k]
        BY <3>1, <4>1
      <4> HIDE DEF g
      <4> QED BY <3>3, <4>2
    <3> QED BY <3>2, <3>3
  <2>7. Done(k + 1, g)
    BY <2>5, <2>6
  <2> HIDE DEF g, Done
  <2>8. \E e \in [0 .. k + 1 -> A] : Done(k + 1, e)
    BY <2>4, <2>7
  <2> QED BY <2>2, <2>8
<1> HIDE DEF S
<1>3. n \in S
  BY <1>1, <1>2, StepByStep
<1> QED BY <1>3 DEF S, Steps

-----------------------------------------------------------------------------
(* The memo. *)

Memos == [text : Seq(Marks), size : Nat, block : {"first", "second"},
          drawn : {"first", "second", Nowhere}, starved : BOOLEAN]

LEMMA MemoSizes == FirstSize \in Nat /\ LastSize \in Nat /\ FirstSize > 1 /\ FirstSize <= LastSize
BY MemoAssumption

\* MemoTrue, of any memo, whose buffer has one of the sizes it grows through.
Sound(m) ==
    /\ m \in Memos /\ FirstSize <= m.size /\ m.size <= LastSize
    /\ Len(m.text) < m.size
    /\ m.drawn = Nowhere => m.text = << >>
    /\ m.drawn # Nowhere => m.drawn = m.block

Kept(c) == IF c = "return" THEN "line" ELSE c

LEMMA AddedMark ==
  ASSUME NEW m, NEW c \in Marks, Sound(m)
  PROVE  /\ Sound(AddsMark(m, c))
         /\ m.starved => AddsMark(m, c).starved
         /\ c # "tab" /\ ~AddsMark(m, c).starved => AddsMark(m, c).text = Append(m.text, Kept(c))
<1> DEFINE full  == Len(m.text) + 2 >= m.size
           grown == IF full THEN [m EXCEPT !.size = 2 * @, !.block = MovesTo(@)] ELSE m
<1>0. /\ m \in Memos /\ m.text \in Seq(Marks) /\ Len(m.text) \in Nat /\ m.size \in Nat /\ Len(m.text) < m.size
      /\ FirstSize <= m.size /\ m.size <= LastSize
  BY DEF Sound, Memos
<1>1. CASE c = "tab"
  <2>1. AddsMark(m, c) = [m EXCEPT !.drawn = m.block]
    BY <1>1 DEF AddsMark
  <2>2. m.block # Nowhere
    BY <1>0 DEF Memos, Nowhere
  <2> QED BY <1>0, <1>1, <2>1, <2>2 DEF Sound, Memos
<1>2. CASE c # "tab" /\ full /\ 2 * m.size > LastSize
  <2>1. AddsMark(m, c) = [m EXCEPT !.starved = TRUE]
    BY <1>2 DEF AddsMark
  <2> QED BY <1>0, <2>1 DEF Sound, Memos
<1>3. CASE c # "tab" /\ ~(full /\ 2 * m.size > LastSize)
  <2>1. AddsMark(m, c) = [grown EXCEPT !.text = Append(@, Kept(c)), !.drawn = grown.block]
    BY <1>3 DEF AddsMark, Kept
  <2>2. /\ grown \in Memos /\ grown.text = m.text /\ Len(m.text) + 1 < grown.size
        /\ grown.block # Nowhere /\ (grown.starved <=> m.starved)
        /\ FirstSize <= grown.size /\ grown.size <= LastSize
    <3>a. MovesTo(m.block) \in {"first", "second"} /\ Nowhere \notin {"first", "second"}
      BY DEF MovesTo, Nowhere
    <3>1. CASE full
      <4>1. grown = [m EXCEPT !.size = 2 * m.size, !.block = MovesTo(m.block)]
        BY <3>1
      <4>2. /\ 2 * m.size \in Nat /\ Len(m.text) + 1 < 2 * m.size
            /\ FirstSize <= 2 * m.size /\ 2 * m.size <= LastSize
        BY <1>0, <1>3, <3>1, MemoSizes
      <4> HIDE DEF grown
      <4> QED BY <1>0, <3>a, <4>1, <4>2 DEF Memos
    <3>2. CASE ~full
      BY <1>0, <3>2 DEF Memos, MovesTo, Nowhere
    <3> QED BY <3>1, <3>2
  <2> HIDE DEF grown
  <2>3. Kept(c) \in Marks
    BY DEF Kept, Marks
  <2>4. Append(m.text, Kept(c)) \in Seq(Marks) /\ Len(Append(m.text, Kept(c))) = Len(m.text) + 1
    BY <1>0, <2>3
  <2> DEFINE r == [grown EXCEPT !.text = Append(m.text, Kept(c)), !.drawn = grown.block]
  <2>5. /\ r \in Memos /\ r.text = Append(m.text, Kept(c)) /\ r.size = grown.size
        /\ r.drawn = grown.block /\ r.block = grown.block /\ (r.starved <=> m.starved)
    BY <2>2, <2>4 DEF Memos
  <2>6. AddsMark(m, c) = r
    BY <2>1, <2>2
  <2> HIDE DEF r
  <2> QED BY <2>2, <2>4, <2>5, <2>6 DEF Sound
<1> QED BY <1>1, <1>2, <1>3

LEMMA AddedText ==
  ASSUME NEW m, Sound(m), NEW s \in Seq(Marks)
  PROVE  \E f \in [0 .. Len(s) -> Memos] :
           /\ f[0] = m /\ f[Len(s)] = AddsText(m, s)
           /\ \A i \in 1 .. Len(s) : f[i] = AddsMark(f[i - 1], s[i])
           /\ \A i \in 0 .. Len(s) : Sound(f[i])
<1> DEFINE n == Len(s)
           A == {x \in Memos : Sound(x)}
           h == [x \in A \X (1 .. n) |-> AddsMark(x[1], s[x[2]])]
           D(g) == g = [i \in 0 .. n |-> IF i = 0 THEN m ELSE AddsMark(g[i - 1], s[i])]
<1>0. n \in Nat /\ m \in A /\ \A i \in 1 .. n : s[i] \in Marks
  BY DEF Sound
<1>1. h \in [A \X (1 .. n) -> A]
  <2>1. \A x \in A \X (1 .. n) : x[1] \in A /\ s[x[2]] \in Marks
    BY <1>0
  <2>2. \A x \in A \X (1 .. n) : AddsMark(x[1], s[x[2]]) \in A
    BY <2>1, AddedMark DEF Sound
  <2> QED BY <2>2
<1> HIDE DEF A, D, h
<1>a. PICK f \in [0 .. n -> A] : Steps(f, n, m, h)
  <2> HIDE DEF n
  <2> QED BY <1>0, <1>1, Iterated
<1>2. f[0] = m /\ \A i \in 1 .. n : f[i] = h[<<f[i - 1], i>>]
  BY <1>a DEF Steps
<1>3. \A i \in 1 .. n : f[i] = AddsMark(f[i - 1], s[i])
  <2>1. \A i \in 1 .. n : f[i - 1] \in A
    BY <1>2
  <2> QED BY <1>2, <2>1 DEF h
<1>4. D(f)
  BY <1>2, <1>3 DEF D
<1>5. D(CHOOSE g : D(g))
  BY <1>4
<1> DEFINE g == CHOOSE x : D(x)
<1>6. g = [i \in 0 .. n |-> IF i = 0 THEN m ELSE AddsMark(g[i - 1], s[i])]
  BY <1>5 DEF D
<1>7. AddsText(m, s) = g[n]
  BY DEF AddsText, D
<1> HIDE DEF g
<1>8. g[0] = m /\ \A i \in 1 .. n : g[i] = AddsMark(g[i - 1], s[i])
  BY <1>0, <1>6
<1> DEFINE S == {i \in 0 .. n : g[i] \in A}
<1>9. \A i \in 0 .. n : i \in S
  <2>1. 0 \in S
    BY <1>0, <1>8
  <2>2. ASSUME NEW i \in 0 .. n, i \in S, i < n PROVE i + 1 \in S
    <3>1. g[i + 1] = AddsMark(g[i], s[i + 1]) /\ s[i + 1] \in Marks /\ g[i] \in A
      BY <1>0, <1>8, <2>2
    <3>2. g[i + 1] \in A
      BY <3>1, AddedMark DEF A, Sound
    <3> QED BY <2>2, <3>2
  <2> HIDE DEF S
  <2> QED BY <1>0, <2>1, <2>2, StepByStep
<1>10. g \in [0 .. n -> Memos] /\ \A i \in 0 .. n : Sound(g[i])
  BY <1>6, <1>9 DEF A
<1> QED BY <1>7, <1>8, <1>10

\* A text without tabs and returns is added as it is, unless a realloc fails.
LEMMA AddedWhole ==
  ASSUME NEW m, Sound(m), m.text = << >>, NEW s \in Seq(Marks), ToSet(s) \cap {"tab", "return"} = {},
         ~AddsText(m, s).starved
  PROVE  AddsText(m, s).text = s
<1> DEFINE n == Len(s)
<1>0. n \in Nat /\ \A i \in 1 .. n : s[i] \in Marks /\ s[i] # "tab" /\ Kept(s[i]) = s[i]
  BY DEF ToSet, Kept
<1>1. PICK f \in [0 .. n -> Memos] :
        /\ f[0] = m /\ f[n] = AddsText(m, s)
        /\ \A i \in 1 .. n : f[i] = AddsMark(f[i - 1], s[i])
        /\ \A i \in 0 .. n : Sound(f[i])
  BY AddedText
<1> HIDE DEF n
<1> DEFINE S == {i \in 0 .. n : ~f[i].starved => f[i].text = SubSeq(s, 1, i)}
<1>2. 0 \in S
  <2>1. SubSeq(s, 1, 0) = << >>
    OBVIOUS
  <2>2. f[0].text = SubSeq(s, 1, 0)
    BY <1>1, <2>1
  <2> QED BY <1>0, <2>2
<1>3. ASSUME NEW i \in 0 .. n, i \in S, i < n PROVE i + 1 \in S
  <2>1. /\ f[i + 1] = AddsMark(f[i], s[i + 1]) /\ i + 1 \in 1 .. n
        /\ Sound(f[i]) /\ s[i + 1] \in Marks /\ s[i + 1] # "tab" /\ Kept(s[i + 1]) = s[i + 1]
    BY <1>0, <1>1, <1>3
  <2>2. SUFFICES ASSUME ~f[i + 1].starved PROVE f[i + 1].text = SubSeq(s, 1, i + 1)
    BY <2>1
  <2>3. ~f[i].starved /\ f[i + 1].text = Append(f[i].text, s[i + 1])
    BY <2>1, <2>2, AddedMark
  <2>4. Append(SubSeq(s, 1, i), s[i + 1]) = SubSeq(s, 1, i + 1)
    BY <2>1 DEF n
  <2> QED BY <1>3, <2>3, <2>4
<1>4. n \in S
  <2> HIDE DEF S
  <2>1. \A i \in 0 .. n : i \in S /\ i < n => i + 1 \in S
    BY <1>3
  <2>2. \A i \in 0 .. n : i \in S
    BY <1>0, <1>2, <2>1, StepByStep
  <2> QED BY <1>0, <2>2
<1> HIDE DEF S
<1>5. AddsText(m, s).text = SubSeq(s, 1, n)
  BY <1>1, <1>4 DEF S
<1> QED BY <1>5 DEF n

LEMMA TextSounds == ASSUME NEW m, Sound(m), NEW s \in Seq(Marks) PROVE Sound(AddsText(m, s))
<1>1. PICK f \in [0 .. Len(s) -> Memos] :
        f[Len(s)] = AddsText(m, s) /\ \A i \in 0 .. Len(s) : Sound(f[i])
  BY AddedText
<1> QED BY <1>1

LEMMA ClearedSounds == ASSUME NEW m, Sound(m) PROVE Sound(Cleared(m)) /\ Cleared(m).text = << >>
<1> DEFINE r == [m EXCEPT !.text = << >>, !.drawn = Nowhere]
<1>1. << >> \in Seq(Marks) /\ Len(<< >>) = 0
  OBVIOUS
<1>2. m \in Memos /\ Len(m.text) \in Nat /\ Len(m.text) < m.size /\ m.size \in Nat
  BY DEF Sound, Memos
<1>3. r \in Memos /\ r.text = << >> /\ r.size = m.size /\ r.drawn = Nowhere
  BY <1>1, <1>2 DEF Memos
<1>4. Cleared(m) = r
  BY DEF Cleared
<1> HIDE DEF r
<1> QED BY <1>1, <1>2, <1>3, <1>4 DEF Sound

LEMMA ErasedSounds ==
  ASSUME NEW m, Sound(m)
  PROVE  /\ Sound(ErasesMark(m)) /\ (ErasesMark(m).starved <=> m.starved)
         /\ m.text # << >> => ErasesMark(m).text = Front(m.text)
<1> DEFINE t == IF m.text = << >> THEN m.text ELSE Front(m.text)
           r == [m EXCEPT !.text = t, !.drawn = m.block]
<1>1. m \in Memos /\ m.block # Nowhere
  BY DEF Sound, Memos, Nowhere
<1>2. t \in Seq(Marks) /\ Len(t) <= Len(m.text) /\ Len(t) \in Nat
  BY <1>1 DEF Memos, Front
<1>3. ErasesMark(m) = r
  BY DEF ErasesMark
<1>4. m.text # << >> => t = Front(m.text)
  OBVIOUS
<1> HIDE DEF t
<1>5. r \in Memos /\ r.text = t /\ r.size = m.size /\ r.drawn = m.block /\ r.block = m.block
      /\ (r.starved <=> m.starved)
  BY <1>1, <1>2 DEF Memos
<1> HIDE DEF r
<1> QED BY <1>1, <1>2, <1>3, <1>4, <1>5 DEF Sound, Memos

\* What a text ends with.
EndsWith(s, t) == Len(s) <= Len(t) /\ \A i \in 1 .. Len(s) : s[i] = t[(Len(t) - Len(s)) + i]

LEMMA SuffixIs ==
  ASSUME NEW s \in Seq(Marks), NEW t \in Seq(Marks), EndsWith(s, t)
  PROVE  IsSuffix(s, t)
<1> DEFINE p == Reverse(s)
           q == Reverse(t)
<1>1. p \in Seq(Marks) /\ Len(p) = Len(s) /\ \A i \in 1 .. Len(s) : p[i] = s[(Len(s) - i) + 1]
  BY DEF Reverse
<1>2. q \in Seq(Marks) /\ Len(q) = Len(t) /\ \A i \in 1 .. Len(t) : q[i] = t[(Len(t) - i) + 1]
  BY DEF Reverse
<1>3. Len(s) \in Nat /\ Len(t) \in Nat /\ Len(s) <= Len(t)
  BY DEF EndsWith
<1> HIDE DEF p, q
<1>4. \A i \in 1 .. Len(s) : p[i] = q[i]
  <2> TAKE i \in 1 .. Len(s)
  <2> DEFINE j == (Len(s) - i) + 1
  <2>1. j \in 1 .. Len(s) /\ i \in 1 .. Len(t) /\ (Len(t) - Len(s)) + j = (Len(t) - i) + 1
    BY <1>3
  <2>2. s[j] = t[(Len(t) - Len(s)) + j]
    BY <2>1 DEF EndsWith
  <2> QED BY <1>1, <1>2, <2>1, <2>2
<1>5. SubSeq(p, 1, Len(p)) = SubSeq(q, 1, Len(p))
  <2>1. /\ SubSeq(p, 1, Len(p)) \in Seq(Marks) /\ Len(SubSeq(p, 1, Len(p))) = Len(s)
        /\ \A i \in 1 .. Len(s) : SubSeq(p, 1, Len(p))[i] = p[i]
    BY <1>1, <1>3
  <2>2. /\ SubSeq(q, 1, Len(p)) \in Seq(Marks) /\ Len(SubSeq(q, 1, Len(p))) = Len(s)
        /\ \A i \in 1 .. Len(s) : SubSeq(q, 1, Len(p))[i] = q[i]
    BY <1>1, <1>2, <1>3
  <2> QED BY <1>4, <2>1, <2>2
<1> QED BY <1>1, <1>2, <1>3, <1>5 DEF IsSuffix, IsPrefix, p, q

LEMMA EndsAppend ==
  ASSUME NEW s \in Seq(Marks), NEW t \in Seq(Marks), NEW c \in Marks, EndsWith(s, t)
  PROVE  EndsWith(Append(s, c), Append(t, c))
<1>1. Len(s) \in Nat /\ Len(t) \in Nat /\ Len(s) <= Len(t)
  BY DEF EndsWith
<1>2. Len(Append(s, c)) = Len(s) + 1 /\ Len(Append(t, c)) = Len(t) + 1
  OBVIOUS
<1>3. ASSUME NEW i \in 1 .. Len(s) + 1
      PROVE  Append(s, c)[i] = Append(t, c)[(Len(t) - Len(s)) + i]
  <2>1. CASE i <= Len(s)
    <3>1. i \in 1 .. Len(s) /\ (Len(t) - Len(s)) + i \in 1 .. Len(t)
      BY <1>1, <2>1
    <3>2. s[i] = t[(Len(t) - Len(s)) + i]
      BY <3>1 DEF EndsWith
    <3> QED BY <3>1, <3>2
  <2>2. CASE i = Len(s) + 1
    <3>1. (Len(t) - Len(s)) + i = Len(t) + 1
      BY <1>1, <2>2
    <3> QED BY <2>2, <3>1
  <2> QED BY <1>1, <2>1, <2>2
<1>4. (Len(t) + 1) - (Len(s) + 1) = Len(t) - Len(s) /\ Len(s) + 1 <= Len(t) + 1
  BY <1>1
<1> QED BY <1>2, <1>3, <1>4 DEF EndsWith

LEMMA FrontIs ==
  ASSUME NEW s \in Seq(Marks), s # << >>
  PROVE  /\ Front(s) \in Seq(Marks) /\ Len(Front(s)) = Len(s) - 1 /\ Len(s) \in Nat \ {0}
         /\ \A i \in 1 .. Len(s) - 1 : Front(s)[i] = s[i]
<1>1. Len(s) \in Nat /\ Len(s) > 0
  OBVIOUS
<1>2. Front(s) = SubSeq(s, 1, Len(s) - 1)
  BY DEF Front
<1>3. SubSeq(s, 1, Len(s) - 1) \in Seq(Marks) /\ Len(SubSeq(s, 1, Len(s) - 1)) = Len(s) - 1
  <2>1. ASSUME NEW k \in Nat, k <= Len(s) PROVE SubSeq(s, 1, k) \in Seq(Marks) /\ Len(SubSeq(s, 1, k)) = k
    BY <2>1
  <2>2. Len(s) - 1 \in Nat /\ Len(s) - 1 <= Len(s)
    BY <1>1
  <2> QED BY <2>1, <2>2
<1>4. \A i \in 1 .. Len(s) - 1 : SubSeq(s, 1, Len(s) - 1)[i] = s[i]
  BY <1>1
<1> QED BY <1>1, <1>2, <1>3, <1>4

LEMMA EndsFront ==
  ASSUME NEW s \in Seq(Marks), NEW t \in Seq(Marks), s # << >>, EndsWith(s, t)
  PROVE  t # << >> /\ EndsWith(Front(s), Front(t))
<1>1. Len(s) \in Nat /\ Len(t) \in Nat /\ Len(s) > 0 /\ Len(s) <= Len(t)
  BY DEF EndsWith
<1>2. /\ Len(Front(s)) = Len(s) - 1 /\ \A i \in 1 .. Len(s) - 1 : Front(s)[i] = s[i]
      /\ Len(Front(t)) = Len(t) - 1 /\ \A i \in 1 .. Len(t) - 1 : Front(t)[i] = t[i]
  <2>1. t # << >>
    BY <1>1
  <2> QED BY <2>1, FrontIs
<1>3. ASSUME NEW i \in 1 .. Len(s) - 1
      PROVE  Front(s)[i] = Front(t)[((Len(t) - 1) - (Len(s) - 1)) + i]
  <2>1. i \in 1 .. Len(s) /\ ((Len(t) - 1) - (Len(s) - 1)) + i = (Len(t) - Len(s)) + i
        /\ (Len(t) - Len(s)) + i \in 1 .. Len(t) - 1
    BY <1>1
  <2>2. s[i] = t[(Len(t) - Len(s)) + i]
    BY <2>1 DEF EndsWith
  <2> QED BY <1>2, <2>1, <2>2
<1>4. EndsWith(Front(s), Front(t))
  BY <1>1, <1>2, <1>3 DEF EndsWith
<1> QED BY <1>1, <1>4

Prompted(l) == <<"prompt">> \o l

LEMMA PromptedIs ==
  ASSUME NEW l \in Seq({"char"})
  PROVE  /\ Prompted(l) \in Seq(Marks) /\ Prompted(l) # << >>
         /\ Prompted(Append(l, "char")) = Append(Prompted(l), "char")
         /\ l # << >> => Prompted(Front(l)) = Front(Prompted(l)) /\ Front(l) \in Seq({"char"})
<1>0. l \in Seq(Marks) /\ <<"prompt">> \in Seq(Marks)
  BY DEF Marks
<1>1. Prompted(l) \in Seq(Marks) /\ Len(Prompted(l)) = Len(l) + 1
  BY <1>0 DEF Prompted
<1>2. Prompted(Append(l, "char")) = Append(Prompted(l), "char")
  BY <1>0 DEF Prompted
<1>3. l # << >> => Prompted(Front(l)) = Front(Prompted(l)) /\ Front(l) \in Seq({"char"})
  BY <1>0, <1>1 DEF Prompted, Front
<1> QED BY <1>1, <1>2, <1>3

LEMMA PromptEnds ==
  ASSUME NEW t \in Seq(Marks)
  PROVE  EndsWith(Prompted(<< >>), Append(t, "prompt"))
<1>1. Prompted(<< >>) = <<"prompt">>
  BY DEF Prompted
<1>2. Len(<<"prompt">>) = 1 /\ <<"prompt">>[1] = "prompt"
  OBVIOUS
<1>3. Len(Append(t, "prompt")) = Len(t) + 1 /\ Append(t, "prompt")[Len(t) + 1] = "prompt" /\ Len(t) \in Nat
  OBVIOUS
<1>4. (Len(Append(t, "prompt")) - Len(<<"prompt">>)) + 1 = Len(t) + 1
      /\ Len(<<"prompt">>) <= Len(Append(t, "prompt"))
  BY <1>2, <1>3
<1>5. \A i \in 1 .. Len(<<"prompt">>) : i = 1
  BY <1>2
<1>6. EndsWith(<<"prompt">>, Append(t, "prompt"))
  BY <1>2, <1>3, <1>4, <1>5 DEF EndsWith
<1> QED BY <1>1, <1>6

LEMMA MinOf == ASSUME NEW a \in Nat, NEW b \in Nat PROVE Min({a, b}) = IF a <= b THEN a ELSE b
<1>1. \E x \in {a, b} : \A y \in {a, b} : x <= y
  OBVIOUS
<1>2. Min({a, b}) \in {a, b} /\ \A y \in {a, b} : Min({a, b}) <= y
  BY <1>1 DEF Min
<1> QED BY <1>2

LEMMA MaxOf == ASSUME NEW a \in Nat, NEW b \in Nat PROVE Max({a, b}) \in {a, b}
<1>1. \E x \in {a, b} : \A y \in {a, b} : x >= y
  OBVIOUS
<1> QED BY <1>1 DEF Max

-----------------------------------------------------------------------------
(* The invariant, and every action. *)

\* What was read is what is shown, while nothing was typed.
Faithful(f, t) ==
    f # << >> /\ Len(f) <= ReadLimit /\ ToSet(f) \cap {"tab", "return"} = {} => t = f

MemoInv ==
    /\ who \in {"terminal", "editor"} /\ clean \in BOOLEAN
    /\ line \in Seq({"char"}) /\ file \in Seq(Marks)
    /\ Sound(Present)
    /\ who = "terminal" => ~clean
    /\ who = "terminal" /\ ~starved => EndsWith(Prompted(line), text)
    /\ clean /\ ~starved => Faithful(file, text)

LEMMA PresentFields ==
    /\ Present.text = text /\ (Present.starved <=> starved)
    /\ (Present.size = size /\ Present.block = block /\ Present.drawn = drawn)
BY DEF Present

LEMMA InBuffer == Sound(Present) => MemoTrue /\ text \in Seq(Marks) /\ starved \in BOOLEAN
<1>1. Present.text = text /\ Present.size = size /\ Present.block = block /\ Present.drawn = drawn
      /\ Present.starved = starved
  BY DEF Present
<1> QED BY <1>1 DEF Sound, Memos, MemoTrue

LEMMA BecomesSound ==
  ASSUME NEW m, Sound(m), Becomes(m)
  PROVE  Sound(Present)' /\ text' = m.text /\ (starved' <=> m.starved)
<1>1. m = [text |-> m.text, size |-> m.size, block |-> m.block, drawn |-> m.drawn, starved |-> m.starved]
  BY DEF Sound, Memos
<1>2. Present' = [text |-> m.text, size |-> m.size, block |-> m.block, drawn |-> m.drawn, starved |-> m.starved]
  BY DEF Becomes, Present
<1>3. Present' = m
  BY <1>1, <1>2
<1>4. Sound(Present')
  BY <1>3
<1>5. Sound(Present)'
  BY <1>4 DEF Sound, Memos, Marks, Nowhere
<1>6. m.starved \in BOOLEAN /\ starved' = m.starved
  BY DEF Sound, Memos, Becomes
<1> QED BY <1>5, <1>6 DEF Becomes

LEMMA InitInv == ASSUME MemoAssumption, MemoInit PROVE MemoInv
<1>1. who \in {"terminal", "editor"} /\ clean = FALSE /\ starved = FALSE /\ line = << >>
  BY DEF MemoInit, MemoAssumption
<1>2. line \in Seq({"char"})
  BY <1>1
<1>3. file \in Seq(Marks)
  <2>0. << >> \in Seq(Marks)
    OBVIOUS
  <2>1. ASSUME NEW n \in 0 .. FileLimit, NEW g \in [1 .. n -> {"char", "line", "return", "tab"}]
        PROVE  g \in Seq(Marks)
    <3>1. n \in Nat /\ g \in [1 .. n -> Marks]
      BY <2>1 DEF Marks, MemoAssumption
    <3> QED BY <3>1
  <2>2. file = << >> \/ file \in Contents
    BY DEF MemoInit
  <2> QED BY <2>0, <2>1, <2>2 DEF Contents
<1>4. Sound(Present)
  <2>1. text \in Seq(Marks) /\ Len(text) <= 1
    <3>1. << >> \in Seq(Marks) /\ Len(<< >>) = 0
      OBVIOUS
    <3>2. <<"prompt">> \in Seq(Marks) /\ Len(<<"prompt">>) = 1
      BY DEF Marks
    <3> QED BY <3>1, <3>2 DEF MemoInit
  <2>2. size \in Nat /\ size > 1
    BY DEF MemoInit, MemoAssumption
  <2>3. block = "first" /\ drawn = "first" /\ "first" # Nowhere
    BY DEF MemoInit, Nowhere
  <2>4. Present \in Memos
    BY <1>1, <2>1, <2>2, <2>3 DEF Present, Memos
  <2>5. Present.text = text /\ Present.size = size /\ Present.block = block /\ Present.drawn = drawn
    BY DEF Present
  <2>6. Len(Present.text) < Present.size
    <3>0. Len(text) \in Nat
      BY <2>1
    <3>1. Len(text) < size
      <4> DEFINE k == Len(text)
      <4>1. k \in Nat /\ k <= 1 /\ size \in Nat /\ size > 1
        BY <2>1, <2>2, <3>0
      <4> HIDE DEF k
      <4>2. k < size
        BY <4>1
      <4> QED BY <4>2 DEF k
    <3> QED BY <2>5, <3>1
  <2>7. Present.drawn # Nowhere /\ Present.drawn = Present.block
    BY <2>3, <2>5
  <2>8. FirstSize <= Present.size /\ Present.size <= LastSize
    BY <2>5, MemoSizes DEF MemoInit
  <2> QED BY <2>4, <2>6, <2>7, <2>8 DEF Sound
<1>5. who = "terminal" => EndsWith(Prompted(line), text)
  <2>1. SUFFICES ASSUME who = "terminal" PROVE EndsWith(Prompted(<< >>), Append(<< >>, "prompt"))
    <3>1. who = "terminal" => text = <<"prompt">>
      BY DEF MemoInit
    <3>2. Append(<< >>, "prompt") = <<"prompt">>
      OBVIOUS
    <3> QED BY <1>1, <3>1, <3>2
  <2>2. << >> \in Seq(Marks)
    OBVIOUS
  <2> QED BY <2>2, PromptEnds
<1> QED BY <1>1, <1>2, <1>3, <1>4, <1>5 DEF MemoInv

\* The terminal.
LEMMA EnterInv == ASSUME MemoInv, TerminalEnter PROVE MemoInv'
<1> DEFINE m == AddsMark(Present, "line")
<1>0. "line" \in Marks /\ "prompt" \in Marks /\ "notice" \in Marks /\ Kept("prompt") = "prompt"
  BY DEF Marks, Kept
<1>1. Sound(m)
  BY <1>0, AddedMark DEF MemoInv
<1>2. ASSUME NEW e, Sound(e), Becomes(AddsMark(e, "prompt"))
      PROVE  Sound(Present)' /\ (~starved' => EndsWith(Prompted(<< >>), text'))
  <2>1. Sound(AddsMark(e, "prompt")) /\ e.text \in Seq(Marks)
        /\ (~AddsMark(e, "prompt").starved => AddsMark(e, "prompt").text = Append(e.text, "prompt"))
    BY <1>0, <1>2, AddedMark DEF Sound, Memos
  <2>2. Sound(Present)' /\ text' = AddsMark(e, "prompt").text /\ (starved' <=> AddsMark(e, "prompt").starved)
    BY <1>2, <2>1, BecomesSound
  <2>3. EndsWith(Prompted(<< >>), Append(e.text, "prompt"))
    BY <2>1, PromptEnds
  <2> QED BY <2>1, <2>2, <2>3
<1>3. Sound(Prints(m, "clear")) /\ Sound(Prints(m, "other"))
  <2>1. Prints(m, "clear") = Cleared(m) /\ Prints(m, "other") = AddsText(m, <<"notice", "line">>)
    BY DEF Prints
  <2>2. <<"notice", "line">> \in Seq(Marks)
    BY <1>0
  <2> HIDE DEF m
  <2> QED BY <1>1, <2>1, <2>2, ClearedSounds, TextSounds
<1>4. Sound(Present)' /\ (~starved' => EndsWith(Prompted(<< >>), text'))
  <2>1. Becomes(AddsMark(m, "prompt")) \/ Becomes(AddsMark(Prints(m, "clear"), "prompt"))
        \/ Becomes(AddsMark(Prints(m, "other"), "prompt"))
    BY DEF TerminalEnter
  <2> HIDE DEF m
  <2> QED BY <1>1, <1>2, <1>3, <2>1
<1>5. line' = << >> /\ who' = who /\ file' = file /\ clean' = clean /\ who = "terminal"
  BY DEF TerminalEnter
<1>6. << >> \in Seq({"char"})
  OBVIOUS
<1>7. ~starved' => EndsWith(Prompted(line), text)'
  BY <1>4, <1>5 DEF EndsWith, Prompted
<1> QED BY <1>4, <1>5, <1>6, <1>7 DEF MemoInv

LEMMA TypesInv == ASSUME MemoInv, TerminalTypes PROVE MemoInv'
<1>0. "char" \in Marks /\ Kept("char") = "char" /\ "char" # "tab"
  BY DEF Marks, Kept
<1>1. /\ line' = Append(line, "char") /\ who' = who /\ file' = file /\ clean' = clean
      /\ who = "terminal" /\ Becomes(AddsMark(Present, "char"))
  BY DEF TerminalTypes
<1>2. line \in Seq({"char"}) /\ Sound(Present) /\ text \in Seq(Marks)
  BY InBuffer DEF MemoInv
<1>3. /\ Sound(AddsMark(Present, "char")) /\ (starved => AddsMark(Present, "char").starved)
      /\ (~AddsMark(Present, "char").starved => AddsMark(Present, "char").text = Append(text, "char"))
  BY <1>0, <1>2, AddedMark, PresentFields
<1>4. /\ Sound(Present)' /\ text' = AddsMark(Present, "char").text
      /\ (starved' <=> AddsMark(Present, "char").starved)
  BY <1>1, <1>3, BecomesSound
<1>5. /\ Prompted(line) \in Seq(Marks)
      /\ Prompted(Append(line, "char")) = Append(Prompted(line), "char")
  BY <1>2, PromptedIs
<1>6. ~starved' => EndsWith(Prompted(Append(line, "char")), text')
  <2>1. SUFFICES ASSUME ~starved' PROVE EndsWith(Append(Prompted(line), "char"), Append(text, "char"))
    BY <1>3, <1>4, <1>5
  <2>2. EndsWith(Prompted(line), text)
    BY <1>1, <1>3, <1>4, <2>1 DEF MemoInv
  <2> QED BY <1>0, <1>2, <1>5, <2>2, EndsAppend
<1>7. ~starved' => EndsWith(Prompted(line), text)'
  BY <1>1, <1>6 DEF EndsWith, Prompted
<1>8. Append(line, "char") \in Seq({"char"})
  BY <1>2
<1> QED BY <1>1, <1>4, <1>7, <1>8 DEF MemoInv

LEMMA ErasesInv == ASSUME MemoInv, TerminalErases PROVE MemoInv'
<1>1. /\ line' = Front(line) /\ who' = who /\ file' = file /\ clean' = clean /\ line # << >>
      /\ who = "terminal" /\ Becomes(ErasesMark(Present))
  BY DEF TerminalErases
<1>2. line \in Seq({"char"}) /\ Sound(Present) /\ text \in Seq(Marks)
  BY InBuffer DEF MemoInv
<1>3. /\ Sound(ErasesMark(Present)) /\ (ErasesMark(Present).starved <=> starved)
      /\ text # << >> => ErasesMark(Present).text = Front(text)
  BY <1>2, ErasedSounds, PresentFields
<1>4. /\ Sound(Present)' /\ text' = ErasesMark(Present).text
      /\ (starved' <=> ErasesMark(Present).starved)
  BY <1>1, <1>3, BecomesSound
<1>5. /\ Prompted(line) \in Seq(Marks) /\ Prompted(line) # << >>
      /\ Prompted(Front(line)) = Front(Prompted(line)) /\ Front(line) \in Seq({"char"})
  BY <1>1, <1>2, PromptedIs
<1>6. ~starved' => EndsWith(Prompted(Front(line)), text')
  <2>1. SUFFICES ASSUME ~starved' PROVE EndsWith(Front(Prompted(line)), text')
    BY <1>5
  <2>2. EndsWith(Prompted(line), text)
    BY <1>1, <1>3, <1>4, <2>1 DEF MemoInv
  <2>3. text # << >> /\ EndsWith(Front(Prompted(line)), Front(text))
    BY <1>2, <1>5, <2>2, EndsFront
  <2> QED BY <1>3, <1>4, <2>3
<1>7. ~starved' => EndsWith(Prompted(line), text)'
  BY <1>1, <1>6 DEF EndsWith, Prompted
<1> QED BY <1>1, <1>4, <1>5, <1>7 DEF MemoInv

\* The editor.
LEMMA LoadsInv == ASSUME MemoAssumption, MemoInv, EditorLoads PROVE MemoInv'
<1> DEFINE few  == SubSeq(file, 1, Min({ReadLimit, Len(file)}))
           read == IF file = << >> THEN <<"notice">> ELSE few
           m == Cleared(Present)
<1>1. who = "editor" /\ who' = who /\ line' = line /\ file' = file /\ clean' /\ clean' \in BOOLEAN
      /\ Becomes(AddsText(m, read))
  BY DEF EditorLoads
<1>2. file \in Seq(Marks) /\ Sound(Present) /\ ReadLimit \in Nat /\ Len(file) \in Nat
  BY DEF MemoInv, MemoAssumption
<1>3. Sound(m) /\ m.text = << >>
  BY <1>2, ClearedSounds
<1>4. Min({ReadLimit, Len(file)}) = IF ReadLimit <= Len(file) THEN ReadLimit ELSE Len(file)
  BY <1>2, MinOf
<1>5. few \in Seq(Marks) /\ (Len(file) <= ReadLimit => few = file)
  <2>1. Min({ReadLimit, Len(file)}) \in Nat /\ Min({ReadLimit, Len(file)}) <= Len(file)
        /\ (Len(file) <= ReadLimit => Min({ReadLimit, Len(file)}) = Len(file))
    BY <1>2, <1>4
  <2>2. SubSeq(file, 1, Len(file)) = file
    BY <1>2
  <2>3. ASSUME NEW k \in Nat, k <= Len(file) PROVE SubSeq(file, 1, k) \in Seq(Marks)
    BY <1>2, <2>3
  <2> QED BY <2>1, <2>2, <2>3
<1>6. read \in Seq(Marks)
  <2>1. <<"notice">> \in Seq(Marks)
    BY DEF Marks
  <2> HIDE DEF few
  <2> QED BY <1>5, <2>1
<1>a. file # << >> => read = few
  OBVIOUS
<1> HIDE DEF m, read, few
<1>7. Sound(Present)' /\ text' = AddsText(m, read).text /\ (starved' <=> AddsText(m, read).starved)
  BY <1>1, <1>3, <1>6, TextSounds, BecomesSound
<1>8. ~starved' => Faithful(file, text')
  <2>1. SUFFICES ASSUME ~starved', file # << >>, Len(file) <= ReadLimit, ToSet(file) \cap {"tab", "return"} = {}
                 PROVE  text' = file
    BY DEF Faithful
  <2>2. read = file
    BY <1>5, <1>a, <2>1
  <2> QED BY <1>2, <1>3, <1>7, <2>1, <2>2, AddedWhole
<1>9. ~starved' => Faithful(file, text)'
  BY <1>1, <1>8 DEF Faithful
<1>10. line' \in Seq({"char"})
  BY <1>1 DEF MemoInv
<1> QED BY <1>1, <1>2, <1>7, <1>9, <1>10 DEF MemoInv

LEMMA SavesInv == ASSUME MemoInv, EditorSaves PROVE MemoInv'
<1>1. /\ who = "editor" /\ file' = text /\ text' = text /\ Present' = Present
      /\ who' = who /\ line' = line /\ clean' = clean /\ starved' = starved
  BY DEF EditorSaves, Present
<1>2. Sound(Present)' /\ text \in Seq(Marks)
  BY <1>1, InBuffer DEF MemoInv, Sound, Memos, Marks, Nowhere
<1>3. Faithful(file, text)'
  BY <1>1 DEF Faithful
<1> QED BY <1>1, <1>2, <1>3 DEF MemoInv

LEMMA EditedInv ==
  ASSUME MemoInv, who = "editor", NEW m, Sound(m), Becomes(m), clean' = FALSE,
         UNCHANGED <<who, line, file>>
  PROVE  MemoInv'
<1>1. Sound(Present)'
  BY BecomesSound
<1>2. line' \in Seq({"char"}) /\ file' \in Seq(Marks) /\ who' = "editor" /\ ~clean' /\ clean' \in BOOLEAN
  BY DEF MemoInv
<1> QED BY <1>1, <1>2 DEF MemoInv

LEMMA FailsInv == ASSUME MemoInv, EditorFails PROVE MemoInv'
<1>1. <<"line", "notice">> \in Seq(Marks)
  BY DEF Marks
<1>2. Sound(AddsText(Present, <<"line", "notice">>))
  BY <1>1, TextSounds DEF MemoInv
<1>3. /\ who = "editor" /\ Becomes(AddsText(Present, <<"line", "notice">>)) /\ clean' = FALSE
      /\ UNCHANGED <<who, line, file>>
  BY DEF EditorFails
<1> QED BY <1>2, <1>3, EditedInv

LEMMA EditsInv == ASSUME MemoInv, EditorTypes PROVE MemoInv'
<1>1. \A c \in {"char", "return"} : Sound(AddsMark(Present, c))
  BY AddedMark DEF MemoInv, Marks
<1>2. Sound(ErasesMark(Present))
  BY ErasedSounds DEF MemoInv
<1>3. who = "editor" /\ clean' = FALSE /\ UNCHANGED <<who, line, file>>
  BY DEF EditorTypes
<1>4. (\E c \in {"char", "return"} : Becomes(AddsMark(Present, c))) \/ Becomes(ErasesMark(Present))
  BY DEF EditorTypes
<1> QED BY <1>1, <1>2, <1>3, <1>4, EditedInv

LEMMA SameInv ==
  ASSUME MemoInv, UNCHANGED <<who, text, size, block, drawn, line, file, clean, starved>>
  PROVE  MemoInv'
<1>1. Present' = Present
  BY DEF Present
<1>2. Sound(Present)'
  BY <1>1 DEF MemoInv, Sound, Memos, Marks, Nowhere
<1>3. EndsWith(Prompted(line), text)' <=> EndsWith(Prompted(line), text)
  BY DEF EndsWith, Prompted
<1>4. Faithful(file, text)' <=> Faithful(file, text)
  BY DEF Faithful
<1> QED BY <1>2, <1>3, <1>4 DEF MemoInv

LEMMA MemoStep == ASSUME MemoAssumption, MemoInv, [MemoNext]_memovars PROVE MemoInv'
<1>1. CASE TerminalEnter BY <1>1, EnterInv
<1>2. CASE TerminalTypes BY <1>2, TypesInv
<1>3. CASE TerminalErases BY <1>3, ErasesInv
<1>4. CASE EditorLoads BY <1>4, LoadsInv
<1>5. CASE EditorSaves BY <1>5, SavesInv
<1>6. CASE EditorFails BY <1>6, FailsInv
<1>7. CASE EditorTypes BY <1>7, EditsInv
<1>8. CASE ClicksBar
  BY <1>8, SameInv DEF ClicksBar, Scrolls
<1>9. CASE DrawsMemo
  BY <1>9, SameInv DEF DrawsMemo
<1>10. CASE UNCHANGED memovars
  BY <1>10, SameInv DEF memovars
<1> QED BY <1>1, <1>2, <1>3, <1>4, <1>5, <1>6, <1>7, <1>8, <1>9, <1>10 DEF MemoNext

\* The text is in its buffer, the twin points at it, and the line the terminal will execute
\* is the one after the last prompt on the screen.
THEOREM TextsAreTrue == MemoSpec => []TextsTrue
<1>1. MemoInit => MemoInv
  BY InitInv, MemoAssumption
<1>2. MemoInv /\ [MemoNext]_memovars => MemoInv'
  BY MemoStep, MemoAssumption
<1>3. MemoInv => TextsTrue
  <2>1. SUFFICES ASSUME MemoInv PROVE MemoTrue /\ LineTrue
    BY DEF TextsTrue
  <2>2. MemoTrue /\ text \in Seq(Marks) /\ Prompted(line) \in Seq(Marks)
    BY <2>1, InBuffer, PromptedIs DEF MemoInv
  <2>3. who = "terminal" /\ ~starved => IsSuffix(Prompted(line), text)
    BY <2>1, <2>2, SuffixIs DEF MemoInv
  <2> QED BY <2>2, <2>3 DEF LineTrue, Prompted
<1> QED BY <1>1, <1>2, <1>3, PTL DEF MemoSpec

\* A file that was read whole and not touched is saved as it was.
THEOREM UntouchedIsSaved == MemoSpec => SavesWhatItRead
<1> DEFINE Kind == \/ Len(file) > ReadLimit \/ file = << >> \/ starved
                   \/ ToSet(file) \cap {"tab", "return"} # {}
<1>1. MemoInit => MemoInv
  BY InitInv, MemoAssumption
<1>2. MemoInv /\ [MemoNext]_memovars => MemoInv'
  BY MemoStep, MemoAssumption
<1>3. MemoInv /\ [MemoNext]_memovars => [file' # file /\ clean => Kind]_memovars
  <2>1. SUFFICES ASSUME MemoInv, MemoNext, file' # file, clean, ~Kind PROVE FALSE
    OBVIOUS
  <2>2. EditorSaves
    BY <2>1 DEF MemoNext, ClicksBar, Scrolls, DrawsMemo, TerminalEnter, TerminalTypes, TerminalErases,
                EditorLoads, EditorFails, EditorTypes
  <2>3. file' = text
    BY <2>2 DEF EditorSaves
  <2>4. Len(file) \in Nat /\ ReadLimit \in Nat
    BY <2>1, MemoAssumption DEF MemoInv, MemoAssumption
  <2>5. text = file
    BY <2>1, <2>4 DEF MemoInv, Faithful
  <2> QED BY <2>1, <2>3, <2>5
<1> QED BY <1>1, <1>2, <1>3, PTL DEF MemoSpec, SavesWhatItRead

\* The scroll of the wrapper and that of the twin stay by the rows that are shown.
ScrollInv ==
    /\ who \in MemoPrograms
    /\ scroll \in 0 .. RowsShown + 3 /\ rolled \in 0 .. RowsShown + 3

\* However many rows a text has, the draw takes the scroll down or to where it was.
LEMMA RowsAre == ASSUME NEW t \in Seq(Marks) PROVE Rows(t) \in Nat
<1> DEFINE S == {i \in DOMAIN t : t[i] = "line"}
           n == Cardinality(S) + (IF t # << >> /\ Last(t) # "line" THEN 1 ELSE 0)
<1>1. Cardinality(S) \in Nat
  <2>1. DOMAIN t = 1 .. Len(t) /\ Len(t) \in Nat
    OBVIOUS
  <2>2. IsFiniteSet(1 .. Len(t)) /\ S \subseteq 1 .. Len(t)
    BY <2>1, FS_Interval
  <2> QED BY <2>2, FS_Subset, FS_CardinalityType
<1>2. n \in Nat
  BY <1>1
<1>3. Rows(t) = Max({1, n})
  BY DEF Rows
<1> HIDE DEF n
<1>4. Max({1, n}) \in {1, n}
  BY <1>2, MaxOf
<1> QED BY <1>2, <1>3, <1>4

LEMMA ScrollStays ==
  ASSUME MemoAssumption, MemoInv, ScrollInv, [MemoNext]_memovars PROVE ScrollInv'
<1>0. /\ RowsShown \in Nat /\ scroll \in 0 .. RowsShown + 3 /\ rolled \in 0 .. RowsShown + 3
      /\ 0 \in 0 .. RowsShown + 3
  BY DEF MemoAssumption, ScrollInv
<1>1. CASE ClicksBar
  BY <1>0, <1>1 DEF ClicksBar, Scrolls, ScrollInv
<1>2. CASE DrawsMemo
  <2> DEFINE t == IF drawn = Nowhere THEN << >> ELSE text
  <2>1. t \in Seq(Marks)
    <3>1. << >> \in Seq(Marks)
      OBVIOUS
    <3> QED BY <3>1, InBuffer DEF MemoInv
  <2>2. /\ rolled' = IF Rows(t) <= RowsShown THEN 0 ELSE Min({rolled, Rows(t) - RowsShown})
        /\ scroll' = scroll /\ who' = who
    BY <1>2 DEF DrawsMemo
  <2> HIDE DEF t
  <2>3. Rows(t) \in Nat
    BY <2>1, RowsAre
  <2>4. CASE Rows(t) <= RowsShown
    BY <1>0, <2>2, <2>4 DEF ScrollInv
  <2>5. CASE ~(Rows(t) <= RowsShown)
    <3>1. Rows(t) - RowsShown \in Nat /\ rolled \in Nat
      BY <1>0, <2>3, <2>5
    <3>2. Min({rolled, Rows(t) - RowsShown}) \in Nat /\ Min({rolled, Rows(t) - RowsShown}) <= rolled
      BY <3>1, MinOf
    <3>3. rolled' \in 0 .. RowsShown + 3
      BY <1>0, <2>2, <2>5, <3>2
    <3> QED BY <2>2, <3>3 DEF ScrollInv
  <2> QED BY <2>4, <2>5
<1>3. ASSUME who' = who, scroll' \in {0, scroll}, rolled' \in {0, rolled} PROVE ScrollInv'
  BY <1>0, <1>3 DEF ScrollInv
<1>4. CASE TerminalEnter
  BY <1>3, <1>4 DEF TerminalEnter
<1>5. CASE TerminalTypes \/ TerminalErases
  BY <1>3, <1>5 DEF TerminalTypes, TerminalErases
<1>6. CASE EditorLoads \/ EditorSaves \/ EditorFails \/ EditorTypes
  BY <1>3, <1>6 DEF EditorLoads, EditorSaves, EditorFails, EditorTypes
<1>7. CASE UNCHANGED memovars
  BY <1>3, <1>7 DEF memovars
<1> QED BY <1>1, <1>2, <1>4, <1>5, <1>6, <1>7 DEF MemoNext

LEMMA MemoTypesAre == ASSUME MemoInv, ScrollInv PROVE MemoTypeOK
<1>1. /\ Present \in Memos /\ FirstSize <= Present.size /\ Present.size <= LastSize
  BY DEF MemoInv, Sound
<1>2. /\ text \in Seq(Marks) /\ size \in FirstSize .. LastSize /\ block \in {"first", "second"}
      /\ drawn \in {"first", "second", Nowhere} /\ starved \in BOOLEAN
  BY <1>1, PresentFields, InBuffer, MemoSizes DEF Memos, MemoInv
<1>3. ToSet(text) \subseteq Marks
  BY <1>2 DEF ToSet
<1> QED BY <1>2, <1>3 DEF MemoTypeOK, MemoInv, ScrollInv

\* The buffer of a memo has one of the sizes it grows through, and the scrolls stay by its rows (TMemo.c, gui_draw_memo).
THEOREM MemoTypesHold == MemoSpec => []MemoTypeOK
<1>1. MemoInit => MemoInv /\ ScrollInv
  <2> SUFFICES ASSUME MemoInit PROVE ScrollInv
    BY InitInv, MemoAssumption
  <2> QED BY MemoAssumption DEF MemoAssumption, MemoInit, ScrollInv
<1>2. (MemoInv /\ ScrollInv) /\ [MemoNext]_memovars => (MemoInv /\ ScrollInv)'
  BY MemoStep, ScrollStays, MemoAssumption
<1>3. MemoInv /\ ScrollInv => MemoTypeOK
  BY MemoTypesAre
<1> QED BY <1>1, <1>2, <1>3, PTL DEF MemoSpec, SavesWhatItRead

-----------------------------------------------------------------------------
(* The snake: its body is a path, and the cell behind its head shows where it came from.       *)

SnakeTypes ==
    /\ body \in [1 .. MaxLength -> Int \X Int]
    /\ length \in StartLength .. MaxLength /\ heading \in Headings /\ turned \in BOOLEAN
    /\ food \in Cells /\ walls \subseteq Cells /\ phase \in Phases
    /\ foods \in 0 .. FoodsToWin /\ lives \in 0 .. 3 /\ ended \in {"no", "won", "over"}

\* All cells but the last one, which may be stale.
BodyPath(b, n) ==
    /\ \A i \in 1 .. n - 2 : Touch(b[i], b[i + 1])
    /\ \A i, j \in 1 .. n - 1 : b[i] = b[j] => i = j

Off(b, n, f, w) == f \notin Covered(b, n) \cup w /\ w \cap Covered(b, n) = {}

\* The last move went along g, and no turn since then goes back.
CameBy(b, h, t) ==
    \E g \in Headings :
        /\ b[2] = <<b[1][1] - g[1], b[1][2] - g[2]>>
        /\ h # <<-g[1], -g[2]>>
        /\ ~t => h = g

SnakeInv ==
    /\ SnakeTypes
    /\ ended = "no" => /\ foods < FoodsToWin
                       /\ BodyPath(body, length)
                       /\ Off(body, length, food, walls)
                       /\ CameBy(body, heading, turned)

LEMMA SnakeSizes ==
  /\ StartLength \in Nat /\ StartLength > 1 /\ MaxLength \in Nat /\ MaxLength >= StartLength
  /\ FoodsToWin \in Nat \ {0} /\ StartX \in Int /\ StartY \in Int
  /\ GridWidth \in Nat /\ GridHeight \in Nat
BY SnakeAssumption

LEMMA HeadingsAre ==
  ASSUME NEW h \in Headings
  PROVE  /\ h[1] \in Int /\ h[2] \in Int /\ h = <<h[1], h[2]>>
         /\ <<-h[1], -h[2]>> \in Headings
BY DEF Headings

\* A body at the start of a game.
LEMMA StartBodyIs ==
  ASSUME NEW b \in [1 .. MaxLength -> Int \X Int]
  PROVE  /\ StartBody(b) \in [1 .. MaxLength -> Int \X Int]
         /\ BodyPath(StartBody(b), StartLength)
         /\ CameBy(StartBody(b), <<1, 0>>, FALSE)
<1> DEFINE c == StartBody(b)
<1>1. c \in [1 .. MaxLength -> Int \X Int]
  <2>1. ASSUME NEW i \in 1 .. MaxLength PROVE <<StartX - (i - 1), StartY>> \in Int \X Int
    BY SnakeSizes
  <2> QED BY <2>1 DEF StartBody
<1>2. ASSUME NEW i \in 1 .. StartLength PROVE c[i] = <<StartX - (i - 1), StartY>>
  BY SnakeSizes DEF StartBody
<1> HIDE DEF c
<1>3. ASSUME NEW i \in 1 .. StartLength - 2 PROVE Touch(c[i], c[i + 1])
  <2>1. c[i] = <<StartX - (i - 1), StartY>> /\ c[i + 1] = <<StartX - i, StartY>>
    BY <1>2, SnakeSizes
  <2>2. <<c[i + 1][1] - c[i][1], c[i + 1][2] - c[i][2]>> = <<-1, 0>>
    BY <2>1, SnakeSizes
  <2> QED BY <2>2 DEF Touch, Headings
<1>4. ASSUME NEW i \in 1 .. StartLength - 1, NEW j \in 1 .. StartLength - 1, c[i] = c[j] PROVE i = j
  <2>1. c[i] = <<StartX - (i - 1), StartY>> /\ c[j] = <<StartX - (j - 1), StartY>>
    BY <1>2, SnakeSizes
  <2>2. c[i][1] = StartX - (i - 1) /\ c[j][1] = StartX - (j - 1)
    BY <2>1
  <2>3. StartX - (i - 1) = StartX - (j - 1)
    BY <1>4, <2>2
  <2> QED BY <2>3, SnakeSizes
<1>5. CameBy(c, <<1, 0>>, FALSE)
  <2>1. c[1] = <<StartX, StartY>> /\ c[2] = <<StartX - 1, StartY>>
    BY <1>2, SnakeSizes
  <2>2. <<1, 0>> \in Headings /\ <<1, 0>> # <<-1, 0>>
    BY DEF Headings
  <2> QED BY <2>1, <2>2, SnakeSizes DEF CameBy
<1>6. BodyPath(c, StartLength)
  BY <1>3, <1>4 DEF BodyPath
<1> QED BY <1>1, <1>5, <1>6 DEF c

LEMMA SpawnsOff ==
  ASSUME NEW b, NEW n, NEW p, Spawns(b, n, p)
  PROVE  Off(b, n, food', walls') /\ food' \in Cells /\ walls' \subseteq Cells
<1>1. food' \in Cells /\ food' \notin Covered(b, n)
  BY DEF Spawns
<1>2. walls' \subseteq Cells \ (Covered(b, n) \cup {food'})
  BY DEF Spawns
<1> QED BY <1>1, <1>2 DEF Off

LEMMA StartsInv ==
  ASSUME SnakeTypes, NEW b \in [1 .. MaxLength -> Int \X Int], NEW p, SnakeStarts(b, p),
         phase' \in Phases, lives' \in 0 .. 3, ended' \in {"no", "won", "over"},
         foods' \in 0 .. FoodsToWin, foods' < FoodsToWin
  PROVE  SnakeInv'
<1>1. /\ body' = StartBody(b) /\ length' = StartLength /\ heading' = <<1, 0>> /\ (turned' <=> FALSE)
      /\ Spawns(StartBody(b), StartLength, p) /\ turned' \in BOOLEAN
  BY DEF SnakeStarts
<1>2. Off(body', length', food', walls') /\ food' \in Cells /\ walls' \subseteq Cells
  BY <1>1, SpawnsOff
<1>3. /\ body' \in [1 .. MaxLength -> Int \X Int] /\ BodyPath(body', length')
      /\ CameBy(body', heading', FALSE)
  BY <1>1, StartBodyIs
<1>4. CameBy(body', heading', turned')
  BY <1>1, <1>3 DEF CameBy
<1>5. heading' \in Headings /\ length' \in StartLength .. MaxLength
  BY <1>1, SnakeSizes DEF Headings
<1> QED BY <1>1, <1>2, <1>3, <1>4, <1>5 DEF SnakeInv, SnakeTypes

\* One move, that does not kill: every cell but the first is where the one before it was.
LEMMA MovedIs ==
  ASSUME SnakeTypes
  PROVE  /\ Moved \in [1 .. MaxLength -> Int \X Int]
         /\ Moved[1] = <<body[1][1] + heading[1], body[1][2] + heading[2]>>
         /\ \A i \in 2 .. length : Moved[i] = body[i - 1]
<1> DEFINE h == <<body[1][1] + heading[1], body[1][2] + heading[2]>>
<1>1. /\ body \in [1 .. MaxLength -> Int \X Int] /\ length \in StartLength .. MaxLength
      /\ 1 \in 1 .. MaxLength
  BY SnakeSizes DEF SnakeTypes
<1>2. h \in Int \X Int
  <2>1. heading[1] \in Int /\ heading[2] \in Int
    BY HeadingsAre DEF SnakeTypes
  <2>2. body[1][1] \in Int /\ body[1][2] \in Int
    BY <1>1
  <2> QED BY <2>1, <2>2
<1> HIDE DEF h
<1>3. Moved = [i \in 1 .. MaxLength |->
                 IF i = 1 THEN h ELSE IF i \in 2 .. length THEN body[i - 1] ELSE body[i]]
  BY <1>1, SnakeSizes DEF Moved, h
<1>4. ASSUME NEW i \in 1 .. MaxLength
      PROVE  (IF i = 1 THEN h ELSE IF i \in 2 .. length THEN body[i - 1] ELSE body[i]) \in Int \X Int
  <2>1. i # 1 => i - 1 \in 1 .. MaxLength
    BY SnakeSizes
  <2> QED BY <1>1, <1>2, <2>1
<1>5. Moved \in [1 .. MaxLength -> Int \X Int] /\ Moved[1] = h
  BY <1>1, <1>3, <1>4
<1>6. ASSUME NEW i \in 2 .. length PROVE Moved[i] = body[i - 1]
  BY <1>1, <1>3, SnakeSizes
<1> QED BY <1>5, <1>6 DEF h

LEMMA MovedPath ==
  ASSUME SnakeInv, ended = "no", ~Dies
  PROVE  BodyPath(Moved, length + 1) /\ BodyPath(Moved, length) /\ CameBy(Moved, heading, FALSE)
<1>1. /\ SnakeTypes /\ BodyPath(body, length)
      /\ body \in [1 .. MaxLength -> Int \X Int] /\ length \in StartLength .. MaxLength
      /\ heading \in Headings
  BY DEF SnakeInv, SnakeTypes
<1>2. /\ Moved[1] = <<body[1][1] + heading[1], body[1][2] + heading[2]>>
      /\ \A i \in 2 .. length : Moved[i] = body[i - 1]
      /\ \A i \in 2 .. length : Moved[i] # Moved[1]
  BY <1>1, MovedIs DEF Dies
<1>3. length \in Nat /\ length > 1 /\ Moved[2] = body[1] /\ body[1] \in Int \X Int
  BY <1>1, <1>2, SnakeSizes
<1>4. /\ heading[1] \in Int /\ heading[2] \in Int /\ heading = <<heading[1], heading[2]>>
      /\ <<-heading[1], -heading[2]>> \in Headings
  BY <1>1, HeadingsAre
<1> DEFINE x == body[1][1]
           y == body[1][2]
<1>5. x \in Int /\ y \in Int /\ Moved[2] = <<x, y>> /\ Moved[1] = <<x + heading[1], y + heading[2]>>
  BY <1>2, <1>3
<1> HIDE DEF x, y
<1>6. ASSUME NEW i \in 1 .. length - 1 PROVE Touch(Moved[i], Moved[i + 1])
  <2>1. CASE i = 1
    <3>1. <<Moved[2][1] - Moved[1][1], Moved[2][2] - Moved[1][2]>> = <<-heading[1], -heading[2]>>
      BY <1>4, <1>5
    <3> QED BY <1>4, <2>1, <3>1 DEF Touch
  <2>2. CASE i > 1
    <3>1. i \in 2 .. length /\ i + 1 \in 2 .. length /\ i - 1 \in 1 .. length - 2 /\ (i - 1) + 1 = i
          /\ (i + 1) - 1 = i
      BY <1>3, <2>2
    <3>2. Moved[i] = body[i - 1] /\ Moved[i + 1] = body[i]
      BY <1>2, <3>1
    <3>3. Touch(body[i - 1], body[i])
      BY <1>1, <3>1 DEF BodyPath
    <3> QED BY <3>2, <3>3
  <2> QED BY <1>3, <2>1, <2>2
<1>7. ASSUME NEW i \in 1 .. length, NEW j \in 1 .. length, Moved[i] = Moved[j] PROVE i = j
  <2>1. CASE i = 1 \/ j = 1
    BY <1>2, <1>3, <1>7, <2>1
  <2>2. CASE i # 1 /\ j # 1
    <3>1. /\ i \in 2 .. length /\ j \in 2 .. length
          /\ i - 1 \in 1 .. length - 1 /\ j - 1 \in 1 .. length - 1
      BY <1>3, <2>2
    <3>2. body[i - 1] = body[j - 1]
      BY <1>2, <1>7, <3>1
    <3>3. i - 1 = j - 1
      BY <1>1, <3>1, <3>2 DEF BodyPath
    <3> QED BY <3>1, <3>3
  <2> QED BY <2>1, <2>2
<1>8. BodyPath(Moved, length + 1)
  <2>1. (length + 1) - 2 = length - 1 /\ (length + 1) - 1 = length
    BY <1>3
  <2> QED BY <1>6, <1>7, <2>1 DEF BodyPath
<1>9. BodyPath(Moved, length)
  <2>1. 1 .. length - 2 \subseteq 1 .. length - 1 /\ 1 .. length - 1 \subseteq 1 .. length
    BY <1>3
  <2> QED BY <1>6, <1>7, <2>1 DEF BodyPath
<1>10. CameBy(Moved, heading, FALSE)
  <2>1. <<x, y>> = <<Moved[1][1] - heading[1], Moved[1][2] - heading[2]>>
    BY <1>4, <1>5
  <2>2. heading # <<-heading[1], -heading[2]>>
    BY <1>1 DEF Headings
  <2> QED BY <1>1, <1>5, <2>1, <2>2 DEF CameBy
<1> QED BY <1>8, <1>9, <1>10

LEMMA MovedOff ==
  ASSUME SnakeInv, ended = "no", ~Dies, Moved[1] # food
  PROVE  Off(Moved, length, food, walls)
<1>1. /\ SnakeTypes /\ Off(body, length, food, walls) /\ length \in StartLength .. MaxLength
  BY DEF SnakeInv, SnakeTypes
<1>2. /\ \A i \in 2 .. length : Moved[i] = body[i - 1]
      /\ Moved[1] \notin walls
  BY <1>1, MovedIs DEF Dies
<1>3. ASSUME NEW i \in 1 .. length PROVE Moved[i] # food /\ Moved[i] \notin walls
  <2>1. CASE i = 1
    BY <1>2, <2>1
  <2>2. CASE i > 1
    <3>1. i \in 2 .. length /\ i - 1 \in 1 .. length
      BY <1>1, <2>2, SnakeSizes
    <3>2. Moved[i] \in Covered(body, length)
      BY <1>2, <3>1 DEF Covered
    <3> QED BY <1>1, <3>2 DEF Off
  <2> QED BY <1>1, <2>1, <2>2, SnakeSizes
<1>4. food \notin walls
  BY <1>1 DEF Off
<1> QED BY <1>3, <1>4 DEF Off, Covered

\* A turn is to a side of the last move.
LEMMA SideWays ==
  ASSUME NEW g \in Headings, NEW h \in Headings,
         (h[2] # 0 /\ g[2] = 0) \/ (h[1] # 0 /\ g[1] = 0)
  PROVE  h # <<-g[1], -g[2]>>
BY DEF Headings

LEMMA TurnsInv == ASSUME SnakeInv, NEW h \in Headings, Turns(h) PROVE SnakeInv'
<1>1. /\ ~turned /\ heading' = h /\ turned' /\ turned' \in BOOLEAN
      /\ ((h[2] # 0 /\ heading[2] = 0) \/ (h[1] # 0 /\ heading[1] = 0))
      /\ UNCHANGED <<body, length, food, walls, phase, foods, lives, ended>>
  <2>1. /\ ~turned
        /\ heading' = h
        /\ \/ h[2] # 0 /\ heading[2] = 0
           \/ h[1] # 0 /\ heading[1] = 0
    BY Zenon DEF Turns
  <2>2. turned' /\ turned' \in BOOLEAN
    <3>1. turned' = TRUE
      BY DEF Turns
    <3> QED BY <3>1, Zenon
  <2>3. UNCHANGED <<body, length, food, walls, phase, foods, lives, ended>>
    BY DEF Turns
  <2> QED BY <2>1, <2>2, <2>3
<1>2. ASSUME ended = "no" PROVE CameBy(body, h, turned')
  <2>1. PICK g \in Headings : /\ body[2] = <<body[1][1] - g[1], body[1][2] - g[2]>>
                              /\ heading = g
    BY <1>1, <1>2 DEF SnakeInv, CameBy
  <2>2. h # <<-g[1], -g[2]>>
    BY <1>1, <2>1, SideWays
  <2> QED BY <1>1, <2>1, <2>2 DEF CameBy
<1> QED BY <1>1, <1>2 DEF SnakeInv, SnakeTypes

LEMMA CrawlsInv == ASSUME SnakeInv, Crawls PROVE SnakeInv'
<1>1. /\ ended = "no" /\ ~Dies /\ Moved[1] # food
      /\ body' = Moved /\ ~turned' /\ turned' \in BOOLEAN
      /\ UNCHANGED <<length, heading, food, walls, phase, foods, lives, ended>>
  BY DEF Crawls
<1>2. Moved \in [1 .. MaxLength -> Int \X Int]
  BY MovedIs DEF SnakeInv
<1>3. BodyPath(Moved, length) /\ CameBy(Moved, heading, FALSE) /\ Off(Moved, length, food, walls)
  BY <1>1, MovedPath, MovedOff
<1>4. CameBy(Moved, heading, turned')
  BY <1>1, <1>3 DEF CameBy
<1> QED BY <1>1, <1>2, <1>3, <1>4 DEF SnakeInv, SnakeTypes

LEMMA EatsInv == ASSUME SnakeInv, Eats PROVE SnakeInv'
<1> DEFINE n == IF length < MaxLength THEN length + 1 ELSE length
<1>1. /\ ended = "no" /\ ~Dies /\ lives' = lives /\ SnakeTypes /\ foods \in Nat /\ foods < FoodsToWin
      /\ length \in StartLength .. MaxLength
  BY SnakeSizes DEF Eats, SnakeInv, SnakeTypes
<1>2. Moved \in [1 .. MaxLength -> Int \X Int]
  BY <1>1, MovedIs
<1>3. BodyPath(Moved, n) /\ CameBy(Moved, heading, FALSE) /\ n \in StartLength .. MaxLength
  <2>1. BodyPath(Moved, length + 1) /\ BodyPath(Moved, length) /\ CameBy(Moved, heading, FALSE)
    BY <1>1, MovedPath
  <2>2. n \in StartLength .. MaxLength
    BY <1>1, SnakeSizes
  <2> QED BY <2>1, <2>2
<1>4. CASE /\ foods + 1 < FoodsToWin
           /\ body' = Moved /\ length' = n /\ turned' = FALSE /\ foods' = foods + 1
           /\ Spawns(Moved, n, phase)
           /\ UNCHANGED <<heading, phase, ended>>
  <2> HIDE DEF n
  <2>1. Off(Moved, n, food', walls') /\ food' \in Cells /\ walls' \subseteq Cells
    BY <1>4, SpawnsOff
  <2>2. CameBy(Moved, heading, turned') /\ turned' \in BOOLEAN
    BY <1>3, <1>4 DEF CameBy
  <2>3. foods' \in 0 .. FoodsToWin /\ foods' < FoodsToWin
    BY <1>1, <1>4, SnakeSizes
  <2> QED BY <1>1, <1>2, <1>3, <1>4, <2>1, <2>2, <2>3 DEF SnakeInv, SnakeTypes
<1>5. CASE phase' = 2 /\ foods' = 0 /\ SnakeStarts(Moved, 2) /\ UNCHANGED ended
  BY <1>1, <1>2, <1>5, StartsInv, SnakeSizes DEF SnakeTypes, Phases
<1>6. CASE /\ foods + 1 >= FoodsToWin
           /\ body' = Moved /\ length' = n /\ turned' = FALSE /\ foods' = foods + 1
           /\ ended' = "won"
           /\ UNCHANGED <<heading, food, walls, phase>>
  <2> HIDE DEF n
  <2>1. foods' \in 0 .. FoodsToWin
    BY <1>1, <1>6, SnakeSizes
  <2>2. turned' \in BOOLEAN
    BY <1>6, Zenon
  <2> QED BY <1>1, <1>2, <1>3, <1>6, <2>1, <2>2 DEF SnakeInv, SnakeTypes
<1> QED BY <1>4, <1>5, <1>6 DEF Eats

LEMMA LosesInv == ASSUME SnakeInv, LosesLife PROVE SnakeInv'
<1>1. /\ SnakeTypes /\ ended = "no" /\ lives' = lives - 1 /\ UNCHANGED <<phase, foods>>
      /\ foods < FoodsToWin
  BY DEF LosesLife, SnakeInv
<1>2. Moved \in [1 .. MaxLength -> Int \X Int]
  BY <1>1, MovedIs
<1>3. CASE /\ lives = 1
           /\ ended' = "over" /\ body' = Moved /\ turned' = FALSE
           /\ UNCHANGED <<length, heading, food, walls>>
  <2>1. lives' \in 0 .. 3
    BY <1>1, <1>3
  <2>2. turned' \in BOOLEAN
    BY <1>3, Zenon
  <2> QED BY <1>1, <1>2, <1>3, <2>1, <2>2 DEF SnakeInv, SnakeTypes
<1>4. CASE lives > 1 /\ SnakeStarts(Moved, phase) /\ UNCHANGED ended
  <2>1. lives' \in 0 .. 3
    BY <1>1, <1>4 DEF SnakeTypes
  <2> QED BY <1>1, <1>2, <1>4, <2>1, StartsInv DEF SnakeTypes
<1> QED BY <1>3, <1>4 DEF LosesLife

LEMMA SnakeBegins == SnakeInit => SnakeInv
<1> SUFFICES ASSUME SnakeInit PROVE SnakeInv
  OBVIOUS
<1> DEFINE z == [i \in 1 .. MaxLength |-> <<0, 0>>]
<1>1. z \in [1 .. MaxLength -> Int \X Int]
  OBVIOUS
<1>2. body = StartBody(z)
  BY DEF SnakeInit
<1> HIDE DEF z
<1>3. /\ body \in [1 .. MaxLength -> Int \X Int] /\ BodyPath(body, StartLength)
      /\ CameBy(body, <<1, 0>>, FALSE)
  BY <1>1, <1>2, StartBodyIs
<1>4. /\ length = StartLength /\ heading = <<1, 0>> /\ ~turned /\ turned \in BOOLEAN
      /\ food \in Cells \ Covered(body, StartLength)
      /\ walls = {} /\ phase = 1 /\ foods = 0 /\ lives = 3 /\ ended = "no"
  BY DEF SnakeInit
<1>5. CameBy(body, heading, turned)
  BY <1>3, <1>4 DEF CameBy
<1>6. Off(body, length, food, walls) /\ heading \in Headings /\ length \in StartLength .. MaxLength
  BY <1>4, SnakeSizes DEF Off, Headings
<1> QED BY <1>3, <1>4, <1>5, <1>6, SnakeSizes DEF SnakeInv, SnakeTypes, Phases

LEMMA SnakeStep == ASSUME SnakeInv, [SnakeNext]_snakevars PROVE SnakeInv'
<1>0. SnakeTypes /\ body \in [1 .. MaxLength -> Int \X Int] /\ 0 \in 0 .. FoodsToWin /\ 0 < FoodsToWin
  BY SnakeSizes DEF SnakeInv, SnakeTypes
<1>1. ASSUME NEW h \in Headings, Turns(h) PROVE SnakeInv'
  BY <1>1, TurnsInv
<1>2. CASE NextPhase
  <2>1. /\ phase' \in Phases /\ foods' = 0 /\ ended' = "no" /\ SnakeStarts(body, phase')
        /\ lives' \in 0 .. 3
    BY <1>0, <1>2 DEF NextPhase, SnakeTypes, Phases
  <2> QED BY <1>0, <2>1, StartsInv
<1>3. CASE Restarts
  <2>1. /\ phase' \in Phases /\ foods' = 0 /\ ended' = "no" /\ SnakeStarts(body, 1)
        /\ lives' \in 0 .. 3
    BY <1>3 DEF Restarts, Phases
  <2> QED BY <1>0, <2>1, StartsInv
<1>4. CASE LosesLife
  BY <1>4, LosesInv
<1>5. CASE Crawls
  BY <1>5, CrawlsInv
<1>6. CASE Eats
  BY <1>6, EatsInv
<1>7. CASE UNCHANGED snakevars
  BY <1>7 DEF snakevars, SnakeInv, SnakeTypes
<1> QED BY <1>1, <1>2, <1>3, <1>4, <1>5, <1>6, <1>7 DEF SnakeNext

LEMMA SnakeIsWhole == ASSUME SnakeInv PROVE SnakeWhole /\ SnakeTypeOK
<1>1. SnakeTypeOK
  BY DEF SnakeInv, SnakeTypes, SnakeTypeOK
<1>2. ASSUME ended = "no" PROVE Moved[1] # body[2]
  <2>1. PICK g \in Headings : /\ body[2] = <<body[1][1] - g[1], body[1][2] - g[2]>>
                              /\ heading # <<-g[1], -g[2]>>
    BY <1>2 DEF SnakeInv, CameBy
  <2>2. /\ Moved[1] = <<body[1][1] + heading[1], body[1][2] + heading[2]>>
        /\ body[1] \in Int \X Int /\ heading \in Headings
    BY MovedIs, SnakeSizes DEF SnakeInv, SnakeTypes
  <2>3. /\ heading[1] \in Int /\ heading[2] \in Int /\ heading = <<heading[1], heading[2]>>
        /\ g[1] \in Int /\ g[2] \in Int /\ body[1][1] \in Int /\ body[1][2] \in Int
    BY <2>2, HeadingsAre
  <2> QED BY <2>1, <2>2, <2>3
<1> QED BY <1>1, <1>2 DEF SnakeWhole, SnakeInv, BodyPath, Off

-----------------------------------------------------------------------------
(* Tetris: the loop of checkLines takes every full line, from the bottom up, and leaves what   *)
(* remains of the arena.                                                                       *)

Arenas == SUBSET (Columns \X Lines)
Fulls(a) == {y \in Lines : FullLine(a, y)}
Under(a, z) == {y \in Fulls(a) : y > z}

LEMMA TetrisSizes ==
  /\ ArenaWidth \in Nat /\ ArenaWidth >= 4 /\ ArenaHeight \in Nat /\ ArenaHeight >= 4
  /\ T_WIDTH = 4 /\ 0 \in Columns /\ 0 \in Lines /\ Lines \subseteq Nat /\ IsFiniteSet(Lines)
<1>1. ArenaWidth \in Nat /\ ArenaWidth >= 4 /\ ArenaHeight \in Nat /\ ArenaHeight >= 4
  BY TetrisAssumption DEF T_WIDTH
<1>2. IsFiniteSet(0 .. ArenaHeight - 1)
  BY <1>1, FS_Interval
<1> QED BY <1>1, <1>2 DEF Lines, Columns, T_WIDTH

LEMMA ArenaSquare ==
  ASSUME NEW a \in Arenas, NEW s \in a
  PROVE  s[1] \in Columns /\ s[2] \in Lines /\ s[2] \in Nat /\ s = <<s[1], s[2]>>
<1>1. s \in Columns \X Lines
  BY DEF Arenas
<1>2. s[1] \in Columns /\ s[2] \in Lines /\ s = <<s[1], s[2]>>
  BY <1>1
<1>3. s[2] \in Nat
  BY <1>2, TetrisSizes
<1> QED BY <1>2, <1>3

LEMMA FullsFinite ==
  ASSUME NEW a
  PROVE  /\ IsFiniteSet(Fulls(a)) /\ Cardinality(Fulls(a)) \in Nat
         /\ Cardinality(Fulls(a)) <= ArenaHeight
<1>1. Fulls(a) \in SUBSET Lines
  BY DEF Fulls
<1>2. Cardinality(Lines) = ArenaHeight
  BY FS_Interval, TetrisSizes DEF Lines
<1>3. IsFiniteSet(Fulls(a)) /\ Cardinality(Fulls(a)) <= Cardinality(Lines)
  BY <1>1, TetrisSizes, FS_Subset
<1> QED BY <1>2, <1>3, FS_CardinalityType

\* As many lines as before, each one further down.
LEMMA Shifted ==
  ASSUME NEW S \in SUBSET Lines
  PROVE  /\ IsFiniteSet(S) /\ IsFiniteSet({z + 1 : z \in S})
         /\ Cardinality({z + 1 : z \in S}) = Cardinality(S)
<1> DEFINE T == {z + 1 : z \in S}
           f == [z \in S |-> z + 1]
<1>1. IsFiniteSet(S) /\ S \subseteq Nat
  BY TetrisSizes, FS_Subset
<1>2. f \in [S -> T] /\ (\A x, y \in S : f[x] = f[y] => x = y) /\ (\A t \in T : \E s \in S : f[s] = t)
  <2>1. \A x, y \in S : f[x] = f[y] => x = y
    BY <1>1
  <2>2. \A t \in T : \E s \in S : f[s] = t
    OBVIOUS
  <2> QED BY <2>1, <2>2
<1>3. ExistsBijection(S, T)
  <2> HIDE DEF T, f
  <2>1. f \in Bijection(S, T)
    BY <1>2, Fun_IsBij
  <2> QED BY <2>1, Fun_ExistsBij
<1> HIDE DEF T
<1>4. IsFiniteSet(T) /\ Cardinality(T) = Cardinality(S)
  BY <1>1, <1>3, FS_Bijection
<1> QED BY <1>1, <1>4 DEF T

\* The lines of an arena after line y, the lowest that is full, was taken.
LEMMA TakenLines ==
  ASSUME NEW b \in Arenas, NEW y \in Lines, FullLine(b, y), \A z \in Fulls(b) : z <= y
  PROVE  /\ LineTaken(b, y) \in Arenas
         /\ Fulls(LineTaken(b, y)) = {z + 1 : z \in Fulls(b) \ {y}}
         /\ \A z \in Fulls(LineTaken(b, y)) : z <= y
<1> DEFINE c == LineTaken(b, y)
<1>0. y \in Nat /\ y < ArenaHeight /\ ArenaHeight \in Nat
  BY TetrisSizes DEF Lines
<1>1. ASSUME NEW s \in c PROVE s \in Columns \X Lines
  <2>1. CASE s \in b
    BY <2>1 DEF Arenas
  <2>2. CASE \E t \in b : t[2] < y /\ s = <<t[1], t[2] + 1>>
    <3>1. PICK t \in b : t[2] < y /\ s = <<t[1], t[2] + 1>>
      BY <2>2
    <3>2. t[1] \in Columns /\ t[2] \in Lines /\ t[2] + 1 \in Lines
      BY <1>0, <3>1 DEF Arenas, Lines
    <3> QED BY <3>1, <3>2
  <2> QED BY <1>1, <2>1, <2>2 DEF LineTaken
<1>2. ASSUME NEW x \in Columns, NEW z \in Lines
      PROVE  <<x, z>> \in c <=> IF z > y THEN <<x, z>> \in b ELSE z # 0 /\ <<x, z - 1>> \in b
  <2>0. z \in Nat
    BY TetrisSizes
  <2>1. CASE z > y
    <3>1. \A t \in b : t[2] < y => <<t[1], t[2] + 1>> # <<x, z>>
      BY <1>0, <2>0, <2>1 DEF Arenas, Lines
    <3> QED BY <2>1, <3>1 DEF LineTaken
  <2>2. CASE ~(z > y)
    <3>1. <<x, z>> \in c <=> \E t \in b : t[2] < y /\ <<t[1], t[2] + 1>> = <<x, z>>
      BY <1>0, <2>0, <2>2 DEF LineTaken
    <3>2. ASSUME NEW t \in b, <<t[1], t[2] + 1>> = <<x, z>> PROVE z # 0 /\ <<x, z - 1>> = t
      <4>1. t[1] = x /\ t[2] + 1 = z /\ t[2] \in Nat /\ t = <<t[1], t[2]>>
        BY <3>2, ArenaSquare
      <4>2. t[2] = z - 1 /\ z # 0
        BY <2>0, <4>1
      <4> QED BY <4>1, <4>2
    <3>3. ASSUME z # 0, <<x, z - 1>> \in b
          PROVE  \E t \in b : t[2] < y /\ <<t[1], t[2] + 1>> = <<x, z>>
      <4> DEFINE t == <<x, z - 1>>
      <4>1. t \in b /\ t[2] < y /\ <<t[1], t[2] + 1>> = <<x, z>>
        BY <1>0, <2>0, <2>2, <3>3
      <4> HIDE DEF t
      <4> QED BY <4>1
    <3> QED BY <2>2, <3>1, <3>2, <3>3
  <2> QED BY <2>1, <2>2
<1> HIDE DEF c
<1>3. ASSUME NEW z \in Lines PROVE FullLine(c, z) <=> z <= y /\ z # 0 /\ FullLine(b, z - 1)
  <2>0. z \in Nat
    BY TetrisSizes
  <2>1. CASE z > y
    <3>1. ~FullLine(b, z)
      BY <1>0, <2>0, <2>1 DEF Fulls
    <3>2. FullLine(c, z) <=> FullLine(b, z)
      BY <1>2, <2>1 DEF FullLine
    <3> QED BY <1>0, <2>0, <2>1, <3>1, <3>2
  <2>2. CASE ~(z > y) /\ z = 0
    BY <1>2, <2>2, TetrisSizes DEF FullLine
  <2>3. CASE ~(z > y) /\ z # 0
    <3>1. \A x \in Columns : <<x, z>> \in c <=> <<x, z - 1>> \in b
      BY <1>2, <2>3
    <3>2. z <= y
      BY <1>0, <2>0, <2>3
    <3> QED BY <2>3, <3>1, <3>2 DEF FullLine
  <2> QED BY <2>1, <2>2, <2>3
<1>4. ASSUME NEW z \in Lines PROVE z \in Fulls(c) <=> \E w \in Fulls(b) \ {y} : z = w + 1
  <2>0. z \in Nat
    BY TetrisSizes
  <2>1. ASSUME z <= y, z # 0, FullLine(b, z - 1) PROVE \E w \in Fulls(b) \ {y} : z = w + 1
    <3>1. z - 1 \in Lines /\ z - 1 # y /\ z = (z - 1) + 1
      BY <1>0, <2>0, <2>1 DEF Lines
    <3>2. z - 1 \in Fulls(b) \ {y}
      BY <2>1, <3>1 DEF Fulls
    <3> QED BY <3>1, <3>2
  <2>2. ASSUME NEW w \in Fulls(b) \ {y}, z = w + 1 PROVE z <= y /\ z # 0 /\ FullLine(b, z - 1)
    <3>1. w \in Nat /\ w <= y /\ w # y /\ FullLine(b, w)
      BY TetrisSizes DEF Fulls
    <3>2. z - 1 = w
      BY <2>2, <3>1
    <3> QED BY <1>0, <2>2, <3>1, <3>2
  <2> QED BY <1>3, <2>1, <2>2 DEF Fulls
<1>5. ASSUME NEW w \in Fulls(b) \ {y} PROVE w + 1 \in Lines /\ w + 1 <= y
  <2>1. w \in Nat /\ w <= y /\ w # y
    BY TetrisSizes DEF Fulls
  <2> QED BY <1>0, <2>1 DEF Lines
<1>6. Fulls(c) = {z + 1 : z \in Fulls(b) \ {y}}
  <2>1. Fulls(c) \subseteq Lines
    BY DEF Fulls
  <2> QED BY <1>4, <1>5, <2>1
<1>7. \A z \in Fulls(c) : z <= y
  BY <1>5, <1>6
<1> QED BY <1>1, <1>6, <1>7 DEF c, Arenas

LEMMA FewerFull ==
  ASSUME NEW b \in Arenas, NEW y \in Lines, FullLine(b, y), \A z \in Fulls(b) : z <= y
  PROVE  Cardinality(Fulls(LineTaken(b, y))) = Cardinality(Fulls(b)) - 1
<1>1. Fulls(LineTaken(b, y)) = {z + 1 : z \in Fulls(b) \ {y}}
  BY TakenLines
<1>2. Fulls(b) \ {y} \in SUBSET Lines /\ y \in Fulls(b)
  BY DEF Fulls
<1>3. Cardinality({z + 1 : z \in Fulls(b) \ {y}}) = Cardinality(Fulls(b) \ {y})
  BY <1>2, Shifted
<1>4. Cardinality(Fulls(b) \ {y}) = Cardinality(Fulls(b)) - 1
  BY <1>2, FullsFinite, FS_RemoveElement
<1> QED BY <1>1, <1>3, <1>4

\* Where a square ends does not change when the lowest full line is taken.
LEMMA UnderTaken ==
  ASSUME NEW b \in Arenas, NEW y \in Lines, FullLine(b, y), \A z \in Fulls(b) : z <= y,
         NEW z \in Lines, z < y
  PROVE  /\ Cardinality(Under(b, z)) = Cardinality(Under(LineTaken(b, y), z + 1)) + 1
         /\ Cardinality(Under(LineTaken(b, y), z + 1)) \in Nat
<1> DEFINE S == {w \in Fulls(b) : w > z /\ w # y}
<1>0. z \in Nat /\ y \in Nat /\ Fulls(b) \subseteq Nat
  BY TetrisSizes DEF Fulls
<1>1. S \in SUBSET Lines /\ y \notin S
  BY DEF Fulls
<1>2. Under(b, z) = S \cup {y}
  BY <1>0 DEF Under, Fulls
<1>3. Under(LineTaken(b, y), z + 1) = {w + 1 : w \in S}
  <2>1. Fulls(LineTaken(b, y)) = {w + 1 : w \in Fulls(b) \ {y}}
    BY TakenLines
  <2> QED BY <1>0, <2>1 DEF Under
<1> HIDE DEF S
<1>4. IsFiniteSet(S) /\ Cardinality({w + 1 : w \in S}) = Cardinality(S)
  BY <1>1, Shifted
<1>5. Cardinality(S \cup {y}) = Cardinality(S) + 1 /\ Cardinality(S) \in Nat
  BY <1>1, <1>4, FS_AddElement, FS_CardinalityType
<1> QED BY <1>2, <1>3, <1>4, <1>5

LEMMA NoneUnder ==
  ASSUME NEW b, NEW y, NEW z, z > y, y \in Int, z \in Int, \A w \in Fulls(b) : w <= y
  PROVE  Under(b, z) = {} /\ z \notin Fulls(b)
<1>1. Fulls(b) \subseteq Nat
  BY TetrisSizes DEF Fulls
<1>2. \A w \in Fulls(b) : ~(w >= z)
  BY <1>1
<1>3. z \notin Fulls(b)
  BY <1>2
<1> QED BY <1>1, <1>2, <1>3 DEF Under

Ends(a, s) == <<s[1], s[2] + Cardinality(Under(a, s[2]))>>
Stays(a) == {s \in a : s[2] \notin Fulls(a)}

LEMMA RemainingIs == ASSUME NEW a PROVE Remaining(a) = {Ends(a, s) : s \in Stays(a)}
BY DEF Remaining, Ends, Stays, Under, Fulls

LEMMA RemainsTaken ==
  ASSUME NEW b \in Arenas, NEW y \in Lines, FullLine(b, y), \A z \in Fulls(b) : z <= y
  PROVE  Remaining(LineTaken(b, y)) = Remaining(b)
<1> DEFINE c == LineTaken(b, y)
<1>0. /\ c \in Arenas /\ Fulls(c) = {z + 1 : z \in Fulls(b) \ {y}} /\ \A z \in Fulls(c) : z <= y
      /\ y \in Fulls(b) /\ y \in Nat
  BY TakenLines, TetrisSizes DEF Fulls
<1>1. ASSUME NEW s \in b, s[2] > y PROVE s \in Stays(b) /\ s \in Stays(c) /\ Ends(b, s) = Ends(c, s)
  <2>1. s[2] \in Int /\ y \in Int
    BY <1>0, ArenaSquare
  <2>2. Under(b, s[2]) = {} /\ Under(c, s[2]) = {} /\ s[2] \notin Fulls(b) /\ s[2] \notin Fulls(c)
    <3> HIDE DEF c
    <3> QED BY <1>0, <1>1, <2>1, NoneUnder
  <2>3. s \in c
    BY <1>1 DEF LineTaken
  <2> QED BY <2>2, <2>3 DEF Stays, Ends
<1>2. ASSUME NEW s \in b, s[2] < y, NEW t, t = <<s[1], s[2] + 1>>
      PROVE  t \in c /\ (t \in Stays(c) <=> s \in Stays(b)) /\ Ends(c, t) = Ends(b, s)
  <2>1. s[2] \in Lines /\ s[2] \in Nat /\ t[1] = s[1] /\ t[2] = s[2] + 1
    BY <1>2, TetrisSizes DEF Arenas
  <2>2. t \in c
    BY <1>2 DEF LineTaken
  <2>3. t[2] \in Fulls(c) <=> s[2] \in Fulls(b)
    <3>1. Fulls(b) \subseteq Nat
      BY TetrisSizes DEF Fulls
    <3> HIDE DEF c
    <3> QED BY <1>0, <1>2, <2>1, <3>1
  <2>4. /\ Cardinality(Under(b, s[2])) = Cardinality(Under(c, s[2] + 1)) + 1
        /\ Cardinality(Under(c, s[2] + 1)) \in Nat
    BY <1>2, <2>1, UnderTaken
  <2>5. s[2] + Cardinality(Under(b, s[2])) = t[2] + Cardinality(Under(c, t[2]))
    BY <2>1, <2>4
  <2>6. Ends(c, t) = Ends(b, s)
    BY <2>1, <2>5 DEF Ends
  <2> QED BY <2>2, <2>3, <2>6 DEF Stays
<1>3. ASSUME NEW s \in Stays(b) PROVE \E t \in Stays(c) : Ends(c, t) = Ends(b, s)
  <2>1. s \in b /\ s[2] # y /\ s[2] \in Nat
    BY <1>0, ArenaSquare DEF Stays
  <2>2. CASE s[2] > y
    BY <1>1, <2>1, <2>2
  <2>3. CASE s[2] < y
    BY <1>2, <2>1, <2>3
  <2> QED BY <1>0, <2>1, <2>2, <2>3
<1>4. ASSUME NEW t \in Stays(c) PROVE \E s \in Stays(b) : Ends(c, t) = Ends(b, s)
  <2>1. \/ t \in b /\ t[2] > y
        \/ \E s \in b : s[2] < y /\ t = <<s[1], s[2] + 1>>
    BY DEF Stays, LineTaken
  <2>2. CASE t \in b /\ t[2] > y
    BY <1>1, <2>2
  <2>3. CASE \E s \in b : s[2] < y /\ t = <<s[1], s[2] + 1>>
    BY <1>2, <2>3
  <2> QED BY <2>1, <2>2, <2>3
<1> HIDE DEF c
<1>5. {Ends(c, s) : s \in Stays(c)} = {Ends(b, s) : s \in Stays(b)}
  BY <1>3, <1>4
<1> QED BY <1>5, RemainingIs DEF c

LEMMA NoneFull ==
  ASSUME NEW b \in Arenas, Fulls(b) = {}
  PROVE  Remaining(b) = b
<1>1. ASSUME NEW s \in b PROVE s \in Stays(b) /\ Ends(b, s) = s
  <2>1. Under(b, s[2]) = {} /\ Cardinality({}) = 0 /\ s = <<s[1], s[2]>> /\ s[2] \in Nat
    BY FS_EmptySet, ArenaSquare DEF Under
  <2> QED BY <2>1 DEF Stays, Ends
<1>2. Stays(b) \subseteq b
  BY DEF Stays
<1> QED BY <1>1, <1>2, RemainingIs

\* What the loop still has before it: lines to look at and lines to take.
Tally(at) == at[1] + Cardinality(Fulls(at[2]))

\* A look of the loop, from an arena with no full line below y.
Looking(a, at) ==
    /\ at \in (-1 .. ArenaHeight - 1) \X Arenas
    /\ \A z \in Fulls(at[2]) : z <= at[1]
    /\ Remaining(at[2]) = Remaining(a)

LEMMA Looks ==
  ASSUME NEW a, NEW at, Looking(a, at)
  PROVE  /\ Looking(a, LooksAt(at))
         /\ at[1] < 0 => LooksAt(at)[1] < 0
         /\ at[1] >= 0 =>
              Tally(LooksAt(at)) = Tally(at) - 1
<1> DEFINE y == at[1]
           b == at[2]
<1>0. /\ y \in -1 .. ArenaHeight - 1 /\ b \in Arenas /\ (\A z \in Fulls(b) : z <= y)
      /\ Remaining(b) = Remaining(a) /\ Cardinality(Fulls(b)) \in Nat /\ y \in Int
  <2>1. at \in (-1 .. ArenaHeight - 1) \X Arenas
    BY DEF Looking
  <2>2. y \in -1 .. ArenaHeight - 1 /\ b \in Arenas
    BY <2>1
  <2>3. y \in Int
    BY <2>2, TetrisSizes
  <2> QED BY <2>2, <2>3, FullsFinite DEF Looking
<1>1. CASE y < 0
  <2>1. LooksAt(at) = at
    BY <1>0, <1>1 DEF LooksAt
  <2> QED BY <1>0, <1>1, <2>1
<1>2. CASE y >= 0 /\ FullLine(b, y)
  <2>1. LooksAt(at) = <<y, LineTaken(b, y)>> /\ y \in Lines
    BY <1>0, <1>2, TetrisSizes DEF LooksAt, Lines
  <2> HIDE DEF y, b
  <2>2. LineTaken(b, y) \in Arenas /\ \A z \in Fulls(LineTaken(b, y)) : z <= y
    BY <1>0, <1>2, <2>1, TakenLines
  <2>3. Remaining(LineTaken(b, y)) = Remaining(a)
    BY <1>0, <1>2, <2>1, RemainsTaken
  <2>4. Cardinality(Fulls(LineTaken(b, y))) = Cardinality(Fulls(b)) - 1
    BY <1>0, <1>2, <2>1, FewerFull
  <2>5. Looking(a, LooksAt(at))
    BY <1>0, <2>1, <2>2, <2>3 DEF Looking
  <2>6. Tally(LooksAt(at)) = y + Cardinality(Fulls(b)) - 1
    BY <1>0, <2>1, <2>4 DEF Tally
  <2> QED BY <1>0, <1>2, <2>5, <2>6 DEF y, b, Tally
<1>3. CASE y >= 0 /\ ~FullLine(b, y)
  <2>1. LooksAt(at) = <<y - 1, b>> /\ y \in Lines
    BY <1>0, <1>3, TetrisSizes DEF LooksAt, Lines
  <2> HIDE DEF y, b
  <2>2. ASSUME NEW z \in Fulls(b) PROVE z <= y - 1
    <3>1. z \in Nat /\ z # y /\ z <= y
      BY <1>0, <1>3, TetrisSizes DEF Fulls
    <3> QED BY <1>0, <3>1
  <2>3. y - 1 \in -1 .. ArenaHeight - 1
    BY <1>0, <1>3, TetrisSizes
  <2>4. Looking(a, LooksAt(at))
    BY <1>0, <2>1, <2>2, <2>3 DEF Looking
  <2>5. Tally(LooksAt(at)) = y + Cardinality(Fulls(b)) - 1
    BY <1>0, <2>1 DEF Tally
  <2> QED BY <1>0, <1>3, <2>4, <2>5 DEF y, b, Tally
<1> QED BY <1>0, <1>1, <1>2, <1>3

LEMMA LookingIs ==
  ASSUME NEW a, NEW at, Looking(a, at)
  PROVE  at[1] \in Int /\ Tally(at) \in Int /\ Tally(at) >= at[1] /\ at \in Int \X Arenas
<1>1. at \in (-1 .. ArenaHeight - 1) \X Arenas
  BY DEF Looking
<1>2. at[1] \in -1 .. ArenaHeight - 1 /\ at[2] \in Arenas
  BY <1>1
<1>3. at[1] \in Int /\ Cardinality(Fulls(at[2])) \in Nat
  BY <1>2, FullsFinite, TetrisSizes
<1> QED BY <1>1, <1>3 DEF Tally

\* Every look takes a line or goes up by one: after as many looks as that there is none left.
LEMMA LinesCheckedRemain ==
  ASSUME NEW a \in Arenas
  PROVE  /\ LinesChecked(a) = Remaining(a)
         /\ LinesChecked(a) \in Arenas
         /\ \A y \in Lines : ~FullLine(LinesChecked(a), y)
<1> DEFINE n == 2 * ArenaHeight
           A == {at \in Int \X Arenas : Looking(a, at)}
           B == <<ArenaHeight - 1, a>>
           h == [x \in A \X (1 .. n) |-> LooksAt(x[1])]
           D(e) == e = [i \in 0 .. n |-> IF i = 0 THEN <<ArenaHeight - 1, a>> ELSE LooksAt(e[i - 1])]
<1>0. n \in Nat /\ n = 2 * ArenaHeight /\ Looking(a, B) /\ B \in A
  <2>1. \A z \in Fulls(a) : z <= ArenaHeight - 1
    BY TetrisSizes DEF Fulls, Lines
  <2>2. ArenaHeight - 1 \in -1 .. ArenaHeight - 1 /\ n \in Nat
    BY TetrisSizes
  <2>3. Looking(a, B)
    BY <2>1, <2>2 DEF Looking
  <2>4. B \in Int \X Arenas
    BY TetrisSizes
  <2> QED BY <2>2, <2>3, <2>4
<1>1. h \in [A \X (1 .. n) -> A]
  <2>1. ASSUME NEW x \in A \X (1 .. n) PROVE LooksAt(x[1]) \in A
    <3>1. Looking(a, x[1])
      OBVIOUS
    <3>2. Looking(a, LooksAt(x[1]))
      BY <3>1, Looks
    <3>3. LooksAt(x[1]) \in Int \X Arenas
      BY <3>2, LookingIs
    <3> QED BY <3>2, <3>3
  <2> QED BY <2>1
<1> HIDE DEF A, D, h, n
<1>2. PICK f \in [0 .. n -> A] : Steps(f, n, B, h)
  BY <1>0, <1>1, Iterated
<1>3. f[0] = B /\ \A i \in 1 .. n : f[i] = h[<<f[i - 1], i>>]
  BY <1>2 DEF Steps
<1>4. \A i \in 1 .. n : f[i] = LooksAt(f[i - 1])
  <2>1. \A i \in 1 .. n : f[i - 1] \in A
    BY <1>0, <1>2
  <2> QED BY <1>3, <2>1 DEF h
<1>5. D(f)
  BY <1>0, <1>3, <1>4 DEF D
<1>6. D(CHOOSE e : D(e))
  BY <1>5
<1> DEFINE e == CHOOSE x : D(x)
<1>7. e = [i \in 0 .. n |-> IF i = 0 THEN <<ArenaHeight - 1, a>> ELSE LooksAt(e[i - 1])]
  BY <1>6 DEF D
<1>8. LinesChecked(a) = e[n][2]
  BY DEF LinesChecked, D, n
<1> HIDE DEF e
<1>9. e[0] = B /\ \A i \in 1 .. n : e[i] = LooksAt(e[i - 1])
  <2>1. n \in Nat
    BY <1>0
  <2>2. \A i \in 0 .. n : e[i] = IF i = 0 THEN B ELSE LooksAt(e[i - 1])
    <3> DEFINE G(i) == IF i = 0 THEN B ELSE LooksAt(e[i - 1])
    <3>1. e = [i \in 0 .. n |-> G(i)]
      BY <1>7
    <3> HIDE DEF G
    <3>2. \A i \in 0 .. n : e[i] = G(i)
      BY <3>1
    <3> QED BY <3>2 DEF G
  <2>3. 0 \in 0 .. n /\ \A i \in 1 .. n : i \in 0 .. n /\ i # 0
    BY <2>1
  <2> HIDE DEF B
  <2> QED BY <2>2, <2>3
<1> DEFINE S == {i \in 0 .. n : /\ Looking(a, e[i])
                                /\ e[i][1] >= 0 => Tally(e[i]) + 1 + i <= n}
<1>10. \A i \in 0 .. n : i \in S
  <2>1. 0 \in S
    <3>1. Tally(B) = ArenaHeight - 1 + Cardinality(Fulls(a))
      BY DEF Tally
    <3>2. Tally(B) + 1 + 0 <= n
      BY <1>0, <3>1, FullsFinite, TetrisSizes
    <3>3. Looking(a, e[0]) /\ Tally(e[0]) + 1 + 0 <= n /\ 0 \in 0 .. n
      BY <1>0, <1>9, <3>2
    <3> QED BY <3>3
  <2>2. ASSUME NEW i \in 0 .. n, i \in S, i < n PROVE i + 1 \in S
    <3>1. e[i + 1] = LooksAt(e[i]) /\ i + 1 \in 0 .. n
      <4>1. i + 1 \in 1 .. n /\ (i + 1) - 1 = i
        BY <1>0, <2>2
      <4> QED BY <1>9, <4>1
    <3>2. Looking(a, e[i]) /\ (e[i][1] >= 0 => Tally(e[i]) + 1 + i <= n)
      BY <2>2
    <3>3. /\ Looking(a, e[i + 1])
          /\ e[i][1] < 0 => e[i + 1][1] < 0
          /\ e[i][1] >= 0 => Tally(e[i + 1]) = Tally(e[i]) - 1
      BY <3>1, <3>2, Looks
    <3>4. /\ e[i][1] \in Int /\ e[i + 1][1] \in Int
          /\ Tally(e[i]) \in Int /\ Tally(e[i + 1]) \in Int
      BY <3>2, <3>3, LookingIs
    <3>5. e[i + 1][1] >= 0 => Tally(e[i + 1]) + 1 + (i + 1) <= n
      BY <1>0, <3>2, <3>3, <3>4
    <3> QED BY <3>1, <3>3, <3>5
  <2> HIDE DEF S
  <2> QED BY <1>0, <2>1, <2>2, StepByStep
<1>11. Looking(a, e[n]) /\ e[n][1] < 0
  <2>1. n \in S
    BY <1>0, <1>10
  <2>2. Looking(a, e[n]) /\ (e[n][1] >= 0 => Tally(e[n]) + 1 + n <= n)
    BY <2>1
  <2>3. e[n][1] \in Int /\ Tally(e[n]) \in Int /\ Tally(e[n]) >= e[n][1]
    BY <2>2, LookingIs
  <2> QED BY <1>0, <2>2, <2>3
<1> HIDE DEF S
<1>12. Fulls(e[n][2]) = {} /\ e[n][2] \in Arenas /\ Remaining(e[n][2]) = Remaining(a)
  <2>0. Fulls(e[n][2]) \subseteq Nat
    BY TetrisSizes DEF Fulls
  <2>1. e[n][1] \in Int /\ \A z \in Fulls(e[n][2]) : z <= e[n][1]
    BY <1>11, LookingIs DEF Looking
  <2>2. \A z \in Fulls(e[n][2]) : FALSE
    BY <1>11, <2>0, <2>1
  <2>3. e[n][2] \in Arenas
    BY <1>11, LookingIs
  <2> QED BY <1>11, <2>2, <2>3 DEF Looking
<1>13. Remaining(e[n][2]) = e[n][2]
  BY <1>12, NoneFull
<1> QED BY <1>8, <1>12, <1>13 DEF Fulls

-----------------------------------------------------------------------------

Kinds == {"I", "O", "S", "Z", "T", "L", "J"}
PiecePlaces == [kind : Kinds, turn : 0 .. 3, x : Int, y : Nat]

TetrisInv ==
    /\ arena \in Arenas /\ over \in BOOLEAN /\ upcoming \in Pieces /\ piece \in PiecePlaces
    /\ \A y \in Lines : ~FullLine(arena, y)
    /\ ~over => Squares(piece) \in Arenas /\ Squares(piece) \cap arena = {}

\* Only where a piece is within its four by four squares matters.
LEMMA SquaresIn ==
  ASSUME NEW p \in PiecePlaces, NEW s \in Squares(p)
  PROVE  \E i, j \in 0 .. 3 : s = <<p.x + i, p.y + j>>
<1>1. PICK q \in (0 .. T_WIDTH - 1) \X (0 .. T_WIDTH - 1) : s = <<p.x + q[1], p.y + q[2]>>
  BY DEF Squares
<1>2. q[1] \in 0 .. 3 /\ q[2] \in 0 .. 3
  BY DEF T_WIDTH
<1> QED BY <1>1, <1>2

LEMMA NewFits ==
  ASSUME NEW k \in Pieces
  PROVE  NewPiece(k) \in PiecePlaces /\ Squares(NewPiece(k)) \in Arenas
<1> DEFINE m == (ArenaWidth \div 2) - 2
           p == NewPiece(k)
<1>1. m \in Int /\ m >= 0 /\ m + 3 <= ArenaWidth - 1 /\ k \in Kinds
  BY TetrisSizes, TetrisAssumption DEF Kinds
<1>2. p = [kind |-> k, turn |-> 0, x |-> m, y |-> 0]
  BY DEF NewPiece
<1> HIDE DEF m, p
<1>3. p \in PiecePlaces /\ p.x = m /\ p.y = 0
  BY <1>1, <1>2 DEF PiecePlaces
<1>4. ASSUME NEW s \in Squares(p) PROVE s \in Columns \X Lines
  <2>1. PICK i \in 0 .. 3, j \in 0 .. 3 : s = <<p.x + i, p.y + j>>
    BY <1>3, SquaresIn
  <2>2. p.x + i \in Columns /\ p.y + j \in Lines
    BY <1>1, <1>3, TetrisSizes DEF Columns, Lines
  <2> QED BY <2>1, <2>2
<1> QED BY <1>3, <1>4 DEF p, Arenas

\* A valid position is in the arena: a piece is never above it.
LEMMA ValidFits ==
  ASSUME NEW p \in PiecePlaces, NEW a, ValidPos(p, a)
  PROVE  Squares(p) \in Arenas /\ Squares(p) \cap a = {}
<1>1. ASSUME NEW s \in Squares(p) PROVE s \in Columns \X Lines /\ s \notin a
  <2>1. PICK i \in 0 .. 3, j \in 0 .. 3 : s = <<p.x + i, p.y + j>>
    BY SquaresIn
  <2>2. s[1] \in Columns /\ s[2] < ArenaHeight /\ s \notin a
    BY DEF ValidPos
  <2>3. s[2] \in Lines /\ s = <<s[1], s[2]>>
    BY <2>1, <2>2, TetrisSizes DEF PiecePlaces, Lines
  <2> QED BY <2>2, <2>3
<1> QED BY <1>1 DEF Arenas

LEMMA MovedPlaces ==
  ASSUME piece \in PiecePlaces, NEW dx \in Int, NEW dy \in Nat
  PROVE  MovedTo(dx, dy) \in PiecePlaces
<1>1. piece.x + dx \in Int /\ piece.y + dy \in Nat
  BY DEF PiecePlaces
<1> QED BY <1>1 DEF PiecePlaces, MovedTo

LEMMA TurnedPlaces ==
  ASSUME NEW p \in PiecePlaces
  PROVE  [p EXCEPT !.turn = (@ + 1) % 4] \in PiecePlaces
<1>1. (p.turn + 1) % 4 \in 0 .. 3
  BY DEF PiecePlaces
<1> QED BY <1>1 DEF PiecePlaces

LEMMA Landed ==
  ASSUME TetrisInv, ~over
  PROVE  /\ AddToArena(piece) = arena \cup Squares(piece)
         /\ AddToArena(piece) \in Arenas
         /\ LinesChecked(AddToArena(piece)) = Remaining(arena \cup Squares(piece))
         /\ LinesChecked(AddToArena(piece)) \in Arenas
         /\ \A y \in Lines : ~FullLine(LinesChecked(AddToArena(piece)), y)
<1>1. AddToArena(piece) = arena \cup Squares(piece) /\ AddToArena(piece) \in Arenas
  BY DEF TetrisInv, AddToArena, Arenas
<1> QED BY <1>1, LinesCheckedRemain

LEMMA TetrisBegins == TetrisInit => TetrisInv
<1> SUFFICES ASSUME TetrisInit PROVE TetrisInv
  OBVIOUS
<1>1. PICK k \in Pieces : piece = NewPiece(k)
  BY DEF TetrisInit
<1>2. piece \in PiecePlaces /\ Squares(piece) \in Arenas
  BY <1>1, NewFits
<1>3. arena = {} /\ ~over /\ over \in BOOLEAN /\ upcoming \in Pieces
  BY DEF TetrisInit
<1>4. \A y \in Lines : ~FullLine(arena, y)
  BY <1>3, TetrisSizes DEF FullLine
<1> QED BY <1>2, <1>3, <1>4 DEF TetrisInv, Arenas

LEMMA TetrisStep == ASSUME TetrisInv, [TetrisNext]_tetrisvars PROVE TetrisInv'
<1>0. /\ piece \in PiecePlaces /\ arena \in Arenas /\ upcoming \in Pieces /\ over \in BOOLEAN
      /\ \A y \in Lines : ~FullLine(arena, y)
  BY DEF TetrisInv
<1>1. ASSUME NEW p \in PiecePlaces, ValidPos(p, arena), piece' = p, UNCHANGED <<arena, upcoming, over>>
      PROVE  TetrisInv'
  <2>1. Squares(p) \in Arenas /\ Squares(p) \cap arena = {}
    BY <1>1, ValidFits
  <2>2. Squares(piece)' = Squares(p)
    BY <1>1 DEF Squares
  <2> QED BY <1>0, <1>1, <2>1, <2>2 DEF TetrisInv
<1>2. CASE Falls
  <2>1. CASE /\ ValidPos(MovedTo(0, 1), arena) /\ piece' = MovedTo(0, 1)
             /\ UNCHANGED <<arena, upcoming, over>>
    <3>1. MovedTo(0, 1) \in PiecePlaces
      BY <1>0, MovedPlaces
    <3> QED BY <1>1, <2>1, <3>1
  <2>2. CASE /\ arena' = LinesChecked(AddToArena(piece))
             /\ NewTetromino(upcoming)
    <3>1. arena' \in Arenas /\ \A y \in Lines : ~FullLine(arena', y)
      BY <1>2, <2>2, Landed DEF Falls
    <3>2. piece' = NewPiece(upcoming) /\ upcoming' \in Pieces
      BY <2>2 DEF NewTetromino
    <3>3. over' \in BOOLEAN /\ (over' <=> ~ValidPos(NewPiece(upcoming), arena'))
      <4>1. over' = ~ValidPos(NewPiece(upcoming), arena')
        BY <2>2, Zenon DEF NewTetromino
      <4> QED BY <4>1, Zenon
    <3>4. NewPiece(upcoming) \in PiecePlaces
      BY <1>0, NewFits
    <3>5. ~over' => Squares(NewPiece(upcoming)) \in Arenas /\ Squares(NewPiece(upcoming)) \cap arena' = {}
      BY <3>3, <3>4, ValidFits
    <3>6. Squares(piece)' = Squares(NewPiece(upcoming))
      BY <3>2 DEF Squares
    <3> QED BY <3>1, <3>2, <3>3, <3>4, <3>5, <3>6 DEF TetrisInv
  <2> QED BY <1>2, <2>1, <2>2 DEF Falls
<1>3. CASE TurnsPiece
  <2>1. [piece EXCEPT !.turn = (@ + 1) % 4] \in PiecePlaces
    BY <1>0, TurnedPlaces
  <2> QED BY <1>1, <1>3, <2>1 DEF TurnsPiece
<1>4. CASE ResetGame
  <2>1. PICK k \in Pieces : piece' = NewPiece(k)
    BY <1>4 DEF ResetGame
  <2>2. arena' = {} /\ upcoming' \in Pieces /\ ~over' /\ over' \in BOOLEAN
    BY <1>4 DEF ResetGame
  <2>3. Squares(piece)' = Squares(NewPiece(k))
    BY <2>1 DEF Squares
  <2>4. NewPiece(k) \in PiecePlaces /\ Squares(NewPiece(k)) \in Arenas
    BY NewFits
  <2>5. \A y \in Lines : ~FullLine(arena', y)
    BY <2>2, TetrisSizes DEF FullLine
  <2> QED BY <2>1, <2>2, <2>3, <2>4, <2>5 DEF TetrisInv, Arenas
<1>5. ASSUME NEW dx \in {-1, 1}, MovesAside(dx) PROVE TetrisInv'
  <2>1. MovedTo(dx, 0) \in PiecePlaces
    BY <1>0, MovedPlaces
  <2> QED BY <1>1, <1>5, <2>1 DEF MovesAside
<1>6. CASE UNCHANGED tetrisvars
  BY <1>6 DEF tetrisvars, TetrisInv, Squares, FullLine
<1> QED BY <1>2, <1>3, <1>4, <1>5, <1>6 DEF TetrisNext

LEMMA TetrisIsWhole == ASSUME TetrisInv PROVE PieceApart /\ ClearsLines
<1>1. ClearsLines
  BY Landed DEF ClearsLines
<1> QED BY <1>1 DEF TetrisInv, PieceApart, Arenas

(* Tetris: a piece that has a square in the arena is not far from it. *)

\* Every piece has, turned any way, a square of its four by four.
LEMMA HasSquare ==
  ASSUME NEW p \in [kind : {"I", "O", "S", "Z", "T", "L", "J"}, turn : 0 .. 3, x : Int, y : Int]
  PROVE  \E i \in 0 .. 3, j \in 0 .. 3 : <<p.x + i, p.y + j>> \in Squares(p)
<1>1. \A i \in 0 .. 3, j \in 0 .. 3 :
        Rotated(i, j, p.turn) \in Tetrominoes[p.kind] => <<p.x + i, p.y + j>> \in Squares(p)
  <2> SUFFICES ASSUME NEW i \in 0 .. 3, NEW j \in 0 .. 3, Rotated(i, j, p.turn) \in Tetrominoes[p.kind]
               PROVE  <<p.x + i, p.y + j>> \in Squares(p)
    OBVIOUS
  <2>1. <<i, j>> \in {d \in (0 .. T_WIDTH - 1) \X (0 .. T_WIDTH - 1) :
                        Rotated(d[1], d[2], p.turn) \in Tetrominoes[p.kind]}
    BY DEF T_WIDTH
  <2>2. <<i, j>>[1] = i /\ <<i, j>>[2] = j
    OBVIOUS
  <2> QED BY <2>1, <2>2 DEF Squares
<1>2. 5 \in Tetrominoes[p.kind] \/ 9 \in Tetrominoes[p.kind]
  BY DEF Tetrominoes
<1>3. /\ Rotated(1, 1, 0) = 5 /\ Rotated(2, 1, 1) = 5 /\ Rotated(2, 2, 2) = 5 /\ Rotated(1, 2, 3) = 5
      /\ Rotated(1, 2, 0) = 9 /\ Rotated(1, 1, 1) = 9 /\ Rotated(2, 1, 2) = 9 /\ Rotated(2, 2, 3) = 9
  BY DEF Rotated, T_WIDTH
<1>4. p.turn \in {0, 1, 2, 3}
  OBVIOUS
<1>5. {1, 2} \subseteq 0 .. 3
  OBVIOUS
<1>6. \E i \in 0 .. 3, j \in 0 .. 3 : Rotated(i, j, p.turn) \in Tetrominoes[p.kind]
  BY <1>2, <1>3, <1>4, <1>5
<1> QED BY <1>1, <1>6

Near(p) == p.x \in -3 .. ArenaWidth /\ p.y \in 0 .. ArenaHeight

LEMMA ArenaNear == ASSUME NEW p \in PiecePlaces, Squares(p) \in Arenas PROVE Near(p)
<1>1. p \in [kind : {"I", "O", "S", "Z", "T", "L", "J"}, turn : 0 .. 3, x : Int, y : Int]
  BY DEF PiecePlaces, Kinds
<1>2. PICK i \in 0 .. 3, j \in 0 .. 3 : <<p.x + i, p.y + j>> \in Squares(p)
  BY <1>1, HasSquare
<1>3. p.x + i \in Columns /\ p.y + j \in Lines
  BY <1>2 DEF Arenas
<1> QED BY <1>3, TetrisSizes DEF Columns, Lines, Near, PiecePlaces

LEMMA NewNear == ASSUME NEW k \in Pieces PROVE Near(NewPiece(k)) /\ NewPiece(k).kind = k
<1>1. NewPiece(k) \in PiecePlaces /\ Squares(NewPiece(k)) \in Arenas
  BY NewFits
<1> QED BY <1>1, ArenaNear DEF NewPiece

PieceNear == piece.kind \in Pieces /\ Near(piece)

LEMMA NearStays ==
  ASSUME TetrisInv, PieceNear, [TetrisNext]_tetrisvars PROVE PieceNear'
<1>1. piece' \in PiecePlaces /\ piece \in PiecePlaces /\ (~over' => Squares(piece)' \in Arenas)
  BY TetrisStep DEF TetrisInv
<1>2. Squares(piece)' = Squares(piece')
  BY DEF Squares
<1>3. ~over' => Near(piece')
  BY <1>1, <1>2, ArenaNear
<1>4. ASSUME NEW k \in Pieces, piece' = NewPiece(k) PROVE PieceNear'
  BY <1>4, NewNear DEF PieceNear, Near
<1>5. ASSUME NEW p \in PiecePlaces, p.kind = piece.kind, piece' = p, ~over' PROVE PieceNear'
  BY <1>3, <1>5 DEF PieceNear, Near
<1>6. CASE Falls
  <2>1. CASE piece' = MovedTo(0, 1) /\ ~over'
    BY <1>1, <1>5, <2>1, MovedPlaces DEF MovedTo, PiecePlaces
  <2>2. CASE NewTetromino(upcoming)
    BY <1>4, <2>2 DEF NewTetromino, TetrisInv
  <2> QED BY <1>6, <2>1, <2>2 DEF Falls
<1>7. CASE TurnsPiece
  <2>1. piece' = [piece EXCEPT !.turn = (@ + 1) % 4] /\ ~over'
    BY <1>7 DEF TurnsPiece
  <2> QED BY <1>1, <1>5, <2>1 DEF PiecePlaces
<1>8. CASE ResetGame
  BY <1>4, <1>8 DEF ResetGame
<1>9. CASE \E dx \in {-1, 1} : MovesAside(dx)
  <2>1. PICK dx \in {-1, 1} : piece' = MovedTo(dx, 0) /\ ~over'
    BY <1>9 DEF MovesAside
  <2> QED BY <1>1, <1>5, <2>1 DEF MovedTo, PiecePlaces
<1>10. CASE UNCHANGED tetrisvars
  BY <1>10 DEF tetrisvars, PieceNear, Near
<1> QED BY <1>6, <1>7, <1>8, <1>9, <1>10 DEF TetrisNext

\* The piece stays by the arena, for any size of it (tetris.c).
THEOREM TetrisTypesHold == TetrisSpec => []TetrisTypeOK
<1>1. TetrisInit => TetrisInv /\ PieceNear
  BY TetrisBegins, NewNear DEF TetrisInit, PieceNear
<1>2. (TetrisInv /\ PieceNear) /\ [TetrisNext]_tetrisvars => (TetrisInv /\ PieceNear)'
  BY TetrisStep, NearStays
<1>3. TetrisInv /\ PieceNear => TetrisTypeOK
  BY DEF TetrisInv, PieceNear, Near, TetrisTypeOK, PiecePlaces, Arenas
<1> QED BY <1>1, <1>2, <1>3, PTL DEF TetrisSpec

-----------------------------------------------------------------------------
(* The war: each part of a frame leaves a game that is whole.                                  *)

Wars ==
    [aliens : SUBSET Aliens, laser : BOOLEAN, ufo : BOOLEAN, bomb : BOOLEAN, lasers : Int,
     shields : [Shields -> Nat], lives : Int, over : BOOLEAN, won : BOOLEAN, stage : 1 .. LastPhase]

WholeWar(g) ==
    /\ g \in Wars
    /\ g.won <=> g.aliens = {}
    /\ g.lives <= 0 => g.over
    /\ g.won /\ g.over => g.lives <= 0
    /\ g.lasers \in Nat /\ g.lasers <= Allowed(g.stage)
    /\ g.stage = 1 => \A s \in Shields : g.shields[s] = 0

LEMMA SpaceSizes ==
  /\ AlienRows \in Nat \ {0} /\ AlienColumns \in Nat \ {0} /\ MaxLasers \in Nat \ {0}
  /\ Strength \in Nat \ {0} /\ LastPhase \in Nat /\ LastPhase >= 3
  /\ Aliens # {} /\ IsFiniteSet(Aliens)
<1>1. <<1, 1>> \in Aliens
  BY SpaceAssumption DEF Aliens
<1>2. IsFiniteSet(1 .. AlienRows) /\ IsFiniteSet(1 .. AlienColumns)
  BY FS_Interval, SpaceAssumption
<1> QED BY <1>1, <1>2, FS_Product, SpaceAssumption DEF Aliens

LEMMA Rooms ==
  ASSUME NEW t \in 1 .. LastPhase
  PROVE  Allowed(t) \in Nat \ {0} /\ Allowed(t) <= MaxLasers
BY SpaceSizes DEF Allowed

\* What each change of a record leaves.
SameShip(g, h) ==
    /\ h \in Wars /\ h.aliens = g.aliens /\ h.lasers = g.lasers /\ h.shields = g.shields
    /\ h.lives = g.lives /\ (h.over <=> g.over) /\ (h.won <=> g.won) /\ h.stage = g.stage

LEMMA SameWhole == ASSUME NEW g, NEW h, WholeWar(g), SameShip(g, h) PROVE WholeWar(h)
BY DEF WholeWar, SameShip

LaserSet(g, b, h) == h = [g EXCEPT !.laser = b]
UfoSet(g, b, h) == h = [g EXCEPT !.ufo = b]
BombSet(g, b, h) == h = [g EXCEPT !.bomb = b]

LEMMA LaserSets ==
  ASSUME NEW g \in Wars, NEW b \in BOOLEAN, NEW h, LaserSet(g, b, h)
  PROVE  SameShip(g, h) /\ (h.ufo <=> g.ufo) /\ (h.bomb <=> g.bomb)
<1>1. h \in Wars
  BY DEF Wars, LaserSet
<1>2. /\ h.aliens = g.aliens /\ h.lasers = g.lasers /\ h.shields = g.shields
      /\ h.lives = g.lives /\ h.over = g.over /\ h.won = g.won /\ h.stage = g.stage
      /\ h.ufo = g.ufo /\ h.bomb = g.bomb
  BY DEF Wars, LaserSet
<1> QED BY <1>1, <1>2, Zenon DEF SameShip

LEMMA UfoSets ==
  ASSUME NEW g \in Wars, NEW b \in BOOLEAN, NEW h, UfoSet(g, b, h)
  PROVE  SameShip(g, h)
<1>1. h \in Wars
  BY DEF Wars, UfoSet
<1>2. /\ h.aliens = g.aliens /\ h.lasers = g.lasers /\ h.shields = g.shields
      /\ h.lives = g.lives /\ h.over = g.over /\ h.won = g.won /\ h.stage = g.stage
  BY DEF Wars, UfoSet
<1> QED BY <1>1, <1>2, Zenon DEF SameShip

LEMMA BombSets ==
  ASSUME NEW g \in Wars, NEW b \in BOOLEAN, NEW h, BombSet(g, b, h)
  PROVE  SameShip(g, h)
<1>1. h \in Wars
  BY DEF Wars, BombSet
<1>2. /\ h.aliens = g.aliens /\ h.lasers = g.lasers /\ h.shields = g.shields
      /\ h.lives = g.lives /\ h.over = g.over /\ h.won = g.won /\ h.stage = g.stage
  BY DEF Wars, BombSet
<1> QED BY <1>1, <1>2, Zenon DEF SameShip

\* A shield that stands loses some of its strength.
Chipped(g, s, h) == h = [g EXCEPT !.shields[s] = @ - 1]

LEMMA ShieldChips ==
  ASSUME NEW g \in Wars, NEW s \in Standing(g), NEW h, Chipped(g, s, h)
  PROVE  /\ h \in Wars /\ h.aliens = g.aliens /\ h.lasers = g.lasers
         /\ h.lives = g.lives /\ (h.over <=> g.over) /\ (h.won <=> g.won) /\ h.stage = g.stage
         /\ g.stage # 1
<1>1. g.shields \in [Shields -> Nat] /\ g.stage # 1 /\ s \in Shields /\ g.shields[s] > 0
  BY SpaceSizes DEF Wars, Standing
<1> DEFINE w == [g.shields EXCEPT ![s] = g.shields[s] - 1]
<1>2. w \in [Shields -> Nat]
  BY <1>1
<1>3. h = [g EXCEPT !.shields = w]
  BY Zenon DEF Chipped
<1> HIDE DEF w
<1>4. h \in Wars
  BY <1>2, <1>3 DEF Wars
<1>5. /\ h.aliens = g.aliens /\ h.lasers = g.lasers
      /\ h.lives = g.lives /\ h.over = g.over /\ h.won = g.won /\ h.stage = g.stage
  BY <1>3 DEF Wars
<1> QED BY <1>1, <1>4, <1>5, Zenon

LEMMA ChippedWhole ==
  ASSUME NEW g, WholeWar(g), NEW s \in Standing(g), NEW h, Chipped(g, s, h)
  PROVE  WholeWar(h) /\ h.lasers = g.lasers
<1>1. g \in Wars
  BY DEF WholeWar
<1>2. /\ h \in Wars /\ h.aliens = g.aliens /\ h.lasers = g.lasers
      /\ h.lives = g.lives /\ (h.over <=> g.over) /\ (h.won <=> g.won) /\ h.stage = g.stage
      /\ g.stage # 1
  BY <1>1, ShieldChips
<1> QED BY <1>2 DEF WholeWar

LEMMA Hurts ==
  ASSUME NEW g \in Wars
  PROVE  /\ Hurt(g) \in Wars /\ Hurt(g).aliens = g.aliens /\ Hurt(g).lasers = g.lasers
         /\ Hurt(g).shields = g.shields /\ Hurt(g).lives = g.lives - 1 /\ Hurt(g).stage = g.stage
         /\ (Hurt(g).over <=> g.over \/ g.lives <= 1) /\ (Hurt(g).won <=> g.won)
<1> DEFINE o == g.over \/ g.lives <= 1
           l == g.lives - 1
           h == Hurt(g)
<1>1. g.lives \in Int /\ g.over \in BOOLEAN
  BY DEF Wars
<1>2. o \in BOOLEAN
  OBVIOUS
<1>3. h = [g EXCEPT !.lives = l, !.over = o]
  BY Zenon DEF Hurt
<1>4. (o <=> g.over \/ g.lives <= 1) /\ l = g.lives - 1 /\ l \in Int
  BY <1>1
<1> HIDE DEF o, l, h
<1>5. h \in Wars
  BY <1>1, <1>2, <1>3, <1>4 DEF Wars
<1>6. /\ h.aliens = g.aliens /\ h.lasers = g.lasers /\ h.shields = g.shields
      /\ h.lives = l /\ h.over = o /\ h.won = g.won /\ h.stage = g.stage
  BY <1>1, <1>2, <1>3 DEF Wars
<1>7. (h.over <=> o) /\ (h.won <=> g.won)
  BY <1>6, Zenon
<1> QED BY <1>4, <1>5, <1>6, <1>7 DEF h

LEMMA HurtWhole ==
  ASSUME NEW g, WholeWar(g)
  PROVE  WholeWar(Hurt(g)) /\ Hurt(g).lasers = g.lasers
<1> DEFINE h == Hurt(g)
<1>1. g \in Wars /\ g.lives \in Int
  BY DEF WholeWar, Wars
<1>2. /\ h \in Wars /\ h.aliens = g.aliens /\ h.lasers = g.lasers
      /\ h.shields = g.shields /\ h.lives = g.lives - 1 /\ h.stage = g.stage
      /\ (h.over <=> g.over \/ g.lives <= 1) /\ (h.won <=> g.won)
  BY <1>1, Hurts
<1> HIDE DEF h
<1>3. WholeWar(h)
  BY <1>1, <1>2 DEF WholeWar
<1> QED BY <1>2, <1>3 DEF h

Killed(g, a, h) == h = [g EXCEPT !.aliens = @ \ {a}, !.won = (g.aliens = {a})]

LEMMA KilledWhole ==
  ASSUME NEW g, WholeWar(g), ~g.over, NEW a \in g.aliens, NEW h, Killed(g, a, h)
  PROVE  WholeWar(h)
<1> DEFINE w == g.aliens = {a}
           r == g.aliens \ {a}
<1>1. g \in Wars /\ g.aliens \in SUBSET Aliens
  BY DEF WholeWar, Wars
<1>2. w \in BOOLEAN /\ r \in SUBSET Aliens
  BY <1>1
<1>3. h = [g EXCEPT !.aliens = r, !.won = w]
  BY Zenon DEF Killed
<1>4. w <=> r = {}
  OBVIOUS
<1> HIDE DEF w, r
<1>5. h \in Wars
  BY <1>1, <1>2, <1>3 DEF Wars
<1>6. /\ h.aliens = r /\ h.lasers = g.lasers /\ h.shields = g.shields
      /\ h.lives = g.lives /\ h.over = g.over /\ h.won = w /\ h.stage = g.stage
  BY <1>1, <1>2, <1>3 DEF Wars
<1>7. (h.over <=> g.over) /\ (h.won <=> w)
  BY <1>6, Zenon
<1> QED BY <1>1, <1>4, <1>5, <1>6, <1>7 DEF WholeWar

Ended(g, b, h) == h = [g EXCEPT !.over = b]

LEMMA EndedWhole ==
  ASSUME NEW g, WholeWar(g), g.aliens # {}, NEW b \in BOOLEAN, b, NEW h, Ended(g, b, h)
  PROVE  WholeWar(h) /\ h.aliens = g.aliens
<1>1. g \in Wars
  BY DEF WholeWar
<1>2. h \in Wars
  BY <1>1 DEF Wars, Ended
<1>3. /\ h.aliens = g.aliens /\ h.lasers = g.lasers /\ h.shields = g.shields
      /\ h.lives = g.lives /\ h.over = b /\ h.won = g.won /\ h.stage = g.stage
  BY <1>1 DEF Wars, Ended
<1>4. h.over /\ (h.won <=> g.won)
  BY <1>3, Zenon
<1> QED BY <1>1, <1>2, <1>3, <1>4 DEF WholeWar

LaserCount(g, n, h) == h = [g EXCEPT !.lasers = n]

LEMMA LaserRecords ==
  ASSUME NEW g \in Wars, NEW n \in Int, NEW h, LaserCount(g, n, h)
  PROVE  /\ h \in Wars /\ h.aliens = g.aliens /\ h.lasers = n /\ h.shields = g.shields
         /\ h.lives = g.lives /\ (h.over <=> g.over) /\ (h.won <=> g.won) /\ h.stage = g.stage
         /\ Standing(h) = Standing(g)
<1>1. h \in Wars
  BY DEF Wars, LaserCount
<1>2. /\ h.aliens = g.aliens /\ h.lasers = n /\ h.shields = g.shields
      /\ h.lives = g.lives /\ h.over = g.over /\ h.won = g.won /\ h.stage = g.stage
  BY DEF Wars, LaserCount
<1>3. Standing(h) = Standing(g)
  BY <1>2 DEF Standing
<1> QED BY <1>1, <1>2, <1>3, Zenon

LEMMA LaserCounts ==
  ASSUME NEW g, WholeWar(g), NEW n \in Nat, n <= Allowed(g.stage), NEW h, LaserCount(g, n, h)
  PROVE  WholeWar(h) /\ h.lasers = n /\ Standing(h) = Standing(g)
<1>1. g \in Wars /\ n \in Int
  BY DEF WholeWar
<1>2. /\ h \in Wars /\ h.aliens = g.aliens /\ h.lasers = n /\ h.shields = g.shields
      /\ h.lives = g.lives /\ (h.over <=> g.over) /\ (h.won <=> g.won) /\ h.stage = g.stage
      /\ Standing(h) = Standing(g)
  BY <1>1, LaserRecords
<1> QED BY <1>2 DEF WholeWar

\* The shot of the player, in a game that is not over.
LEMMA ShotWhole ==
  ASSUME NEW g, WholeWar(g), ~g.over, NEW r \in AfterShot(g)
  PROVE  WholeWar(r)
<1>0. g \in Wars /\ g.aliens \in SUBSET Aliens
  BY DEF WholeWar, Wars
<1> DEFINE h == [g EXCEPT !.laser = FALSE]
<1>1. LaserSet(g, FALSE, h)
  BY Zenon DEF LaserSet
<1>2. SameShip(g, h)
  BY <1>0, <1>1, LaserSets, Zenon
<1>3. \/ r = g
      \/ r = h
      \/ \E s \in Standing(g) : r = [h EXCEPT !.shields[s] = @ - 1]
      \/ r = [h EXCEPT !.ufo = FALSE]
      \/ \E a \in g.aliens : r = [h EXCEPT !.aliens = @ \ {a}, !.won = (g.aliens = {a})]
  BY Zenon DEF AfterShot
<1> HIDE DEF h
<1>4. /\ WholeWar(h) /\ h \in Wars /\ Standing(h) = Standing(g) /\ h.aliens = g.aliens
      /\ (h.over <=> g.over)
  BY <1>2, SameWhole DEF SameShip, Standing
<1>5. CASE r = g \/ r = h
  BY <1>4, <1>5
<1>6. ASSUME NEW s \in Standing(g), r = [h EXCEPT !.shields[s] = @ - 1] PROVE WholeWar(r)
  <2>1. Chipped(h, s, r)
    BY <1>6, Zenon DEF Chipped
  <2> QED BY <1>4, <2>1, ChippedWhole
<1>7. CASE r = [h EXCEPT !.ufo = FALSE]
  <2>1. UfoSet(h, FALSE, r)
    BY <1>7, Zenon DEF UfoSet
  <2>2. SameShip(h, r)
    BY <1>4, <2>1, UfoSets, Zenon
  <2> QED BY <1>4, <2>2, SameWhole
<1>8. ASSUME NEW a \in g.aliens, r = [h EXCEPT !.aliens = @ \ {a}, !.won = (g.aliens = {a})]
      PROVE  WholeWar(r)
  <2>1. Killed(h, a, r)
    BY <1>4, <1>8, Zenon DEF Killed
  <2> QED BY <1>4, <1>8, <2>1, KilledWhole
<1> QED BY <1>3, <1>5, <1>6, <1>7, <1>8

\* The saucer comes, or goes on or away with or without a bomb.
LEMMA SaucerGames ==
  ASSUME NEW g, NEW r \in AfterSaucer(g)
  PROVE  \/ r = g
         \/ r = [g EXCEPT !.ufo = TRUE]
         \/ \E u, b \in BOOLEAN : r = Saucer(g, u, b)
<1>1. CASE ~g.ufo
  <2>1. r \in {g, [g EXCEPT !.ufo = TRUE]}
    BY <1>1 DEF AfterSaucer
  <2> QED BY <2>1, Zenon
<1>2. CASE g.ufo
  <2>1. r \in {Saucer(g, u, b) : u, b \in BOOLEAN}
    BY <1>2 DEF AfterSaucer
  <2>2. \E u, b \in BOOLEAN : r = Saucer(g, u, b)
    BY <2>1
  <2> QED BY <2>2, Zenon
<1> QED BY <1>1, <1>2, Zenon

LEMMA SaucerWhole ==
  ASSUME NEW g, WholeWar(g), NEW r \in AfterSaucer(g)
  PROVE  WholeWar(r)
<1>0. g \in Wars /\ g.bomb \in BOOLEAN
  BY DEF WholeWar, Wars
<1>1. \/ r = g
      \/ r = [g EXCEPT !.ufo = TRUE]
      \/ \E u, b \in BOOLEAN : r = Saucer(g, u, b)
  BY SaucerGames
<1>2. CASE r = g
  BY <1>2
<1>3. CASE r = [g EXCEPT !.ufo = TRUE]
  <2>1. UfoSet(g, TRUE, r)
    BY <1>3, Zenon DEF UfoSet
  <2>2. SameShip(g, r)
    BY <1>0, <2>1, UfoSets, Zenon
  <2> QED BY <2>2, SameWhole
<1>4. ASSUME NEW u \in BOOLEAN, NEW b \in BOOLEAN, r = Saucer(g, u, b)
      PROVE  WholeWar(r)
  <2> DEFINE c == g.bomb \/ b
             h == [g EXCEPT !.ufo = u]
  <2>1. UfoSet(g, u, h) /\ c \in BOOLEAN
    BY Zenon DEF UfoSet
  <2>2. r = [h EXCEPT !.bomb = c]
    <3>1. r = [g EXCEPT !.ufo = u, !.bomb = c]
      BY <1>4, Zenon DEF Saucer
    <3> HIDE DEF c
    <3> QED BY <1>0, <3>1, <2>1 DEF Wars
  <2> HIDE DEF c, h
  <2>3. SameShip(g, h)
    BY <1>0, <2>1, UfoSets
  <2>4. BombSet(h, c, r)
    BY <2>2, Zenon DEF BombSet
  <2>5. SameShip(h, r)
    BY <2>1, <2>3, <2>4, BombSets DEF SameShip
  <2> QED BY <2>3, <2>5, SameWhole
<1> QED BY <1>1, <1>2, <1>3, <1>4

\* What the bomb and every laser of an alien do, once they are gone.
LEMMA StruckWhole ==
  ASSUME NEW h, WholeWar(h), NEW S, S = Standing(h), NEW r,
         r = h \/ r = Hurt(h) \/ \E s \in S : r = [h EXCEPT !.shields[s] = @ - 1]
  PROVE  WholeWar(r) /\ r.lasers = h.lasers
<1>1. ASSUME NEW s \in S, r = [h EXCEPT !.shields[s] = @ - 1] PROVE WholeWar(r) /\ r.lasers = h.lasers
  <2>1. Chipped(h, s, r)
    BY <1>1, Zenon DEF Chipped
  <2> QED BY <2>1, ChippedWhole
<1> QED BY <1>1, HurtWhole

LEMMA BombWhole ==
  ASSUME NEW g, WholeWar(g), NEW r \in AfterBomb(g)
  PROVE  WholeWar(r)
<1>0. g \in Wars
  BY DEF WholeWar
<1> DEFINE h == [g EXCEPT !.bomb = FALSE]
<1>1. BombSet(g, FALSE, h)
  BY Zenon DEF BombSet
<1>2. SameShip(g, h)
  BY <1>0, <1>1, BombSets, Zenon
<1>3. \/ r = g
      \/ r = h \/ r = Hurt(h) \/ \E s \in Standing(g) : r = [h EXCEPT !.shields[s] = @ - 1]
  BY Zenon DEF AfterBomb
<1> HIDE DEF h
<1>4. WholeWar(h) /\ Standing(g) = Standing(h)
  BY <1>2, SameWhole DEF SameShip, Standing
<1> QED BY <1>3, <1>4, StruckWhole

LEMMA MarchWhole ==
  ASSUME NEW g, WholeWar(g), NEW r \in AfterMarch(g)
  PROVE  WholeWar(r)
<1>1. ASSUME NEW h \in Marched(g) PROVE WholeWar(h)
  <2>1. CASE h = g
    BY <2>1
  <2>2. CASE h = [g EXCEPT !.over = TRUE] /\ g.aliens # {}
    <3>1. Ended(g, TRUE, h)
      BY <2>2, Zenon DEF Ended
    <3> QED BY <2>2, <3>1, EndedWhole, Zenon
  <2> QED BY <2>1, <2>2, Zenon DEF Marched
<1>2. ASSUME NEW h, WholeWar(h) PROVE WholeWar(Volley(h))
  <2> DEFINE S == {a[2] : a \in h.aliens}
             c == Cardinality(S)
             n == h.lasers + IF c < Room(h) THEN c ELSE Room(h)
  <2>1. h.aliens \in SUBSET Aliens /\ h.lasers \in Nat /\ h.stage \in 1 .. LastPhase
        /\ h.lasers <= Allowed(h.stage)
    BY <1>2 DEF WholeWar, Wars
  <2>2. c \in Nat
    <3>1. S \subseteq 1 .. AlienColumns
      BY <2>1 DEF Aliens
    <3>2. IsFiniteSet(1 .. AlienColumns)
      BY FS_Interval, SpaceSizes
    <3> QED BY <3>1, <3>2, FS_Subset, FS_CardinalityType
  <2> HIDE DEF c
  <2>3. Allowed(h.stage) \in Nat
    BY <2>1, Rooms
  <2>4. n \in Nat /\ n <= Allowed(h.stage)
    BY <2>1, <2>2, <2>3 DEF Room
  <2>5. LaserCount(h, n, Volley(h))
    BY Zenon DEF LaserCount, Volley, c
  <2> HIDE DEF n
  <2> QED BY <1>2, <2>4, <2>5, LaserCounts
<1>3. r = g \/ \E h \in Marched(g) : r = h \/ r = Volley(h)
  BY DEF AfterMarch
<1> QED BY <1>1, <1>2, <1>3

LEMMA OneLaserWhole ==
  ASSUME NEW g, WholeWar(g), g.lasers > 0, NEW r \in OneLaser(g)
  PROVE  WholeWar(r) /\ r.lasers >= g.lasers - 1
<1>0. g \in Wars /\ g.lasers \in Nat /\ g.stage \in 1 .. LastPhase /\ g.lasers <= Allowed(g.stage)
  BY DEF WholeWar, Wars
<1> DEFINE h == [g EXCEPT !.lasers = @ - 1]
<1>1. LaserCount(g, g.lasers - 1, h)
  BY Zenon DEF LaserCount
<1>2. \/ r = g
      \/ r = h \/ r = Hurt(h) \/ \E s \in Standing(g) : r = [h EXCEPT !.shields[s] = @ - 1]
  BY Zenon DEF OneLaser
<1> HIDE DEF h
<1>3. g.lasers - 1 \in Nat /\ g.lasers - 1 <= Allowed(g.stage) /\ Allowed(g.stage) \in Nat
  BY <1>0, Rooms
<1>4. WholeWar(h) /\ h.lasers = g.lasers - 1 /\ Standing(g) = Standing(h)
  BY <1>1, <1>3, LaserCounts
<1>5. CASE r = g
  BY <1>0, <1>5
<1>6. CASE r = h \/ r = Hurt(h) \/ \E s \in Standing(g) : r = [h EXCEPT !.shields[s] = @ - 1]
  <2>1. WholeWar(r) /\ r.lasers = h.lasers
    BY <1>4, <1>6, StruckWhole
  <2> QED BY <1>0, <1>4, <2>1
<1> QED BY <1>2, <1>5, <1>6

LEMMA OneLaserStays == ASSUME NEW g \in Wars PROVE OneLaser(g) \subseteq Wars
<1> SUFFICES ASSUME NEW r \in OneLaser(g) PROVE r \in Wars
  OBVIOUS
<1> DEFINE h == [g EXCEPT !.lasers = @ - 1]
<1>1. LaserCount(g, g.lasers - 1, h) /\ g.lasers - 1 \in Int
  <2>1. g.lasers - 1 \in Int
    BY DEF Wars
  <2> QED BY <2>1, Zenon DEF LaserCount
<1>2. \/ r = g
      \/ r = h \/ r = Hurt(h) \/ \E s \in Standing(g) : r = [h EXCEPT !.shields[s] = @ - 1]
  BY Zenon DEF OneLaser
<1> HIDE DEF h
<1>3. h \in Wars /\ Standing(g) = Standing(h)
  BY <1>1, LaserRecords
<1>4. ASSUME NEW s \in Standing(g), r = [h EXCEPT !.shields[s] = @ - 1] PROVE r \in Wars
  <2>1. Chipped(h, s, r)
    BY <1>4, Zenon DEF Chipped
  <2> QED BY <1>3, <2>1, ShieldChips
<1> QED BY <1>2, <1>3, <1>4, Hurts

\* The lasers in turn: the games each of them may leave.
LEMMA InTurn ==
  ASSUME NEW g \in Wars, g.lasers \in 0 .. MaxLasers
  PROVE  \E e : /\ e[0] = {g} /\ AfterLasers(g) = e[g.lasers]
                /\ \A i \in 1 .. MaxLasers : e[i] = UNION {OneLaser(k) : k \in e[i - 1]}
<1> DEFINE top == MaxLasers
           A == SUBSET Wars
           B == {g}
           h == [x \in A \X (1 .. top) |-> UNION {OneLaser(k) : k \in x[1]}]
           D(e) == e = [n \in 0 .. top |-> IF n = 0 THEN {g} ELSE UNION {OneLaser(k) : k \in e[n - 1]}]
<1>0. top \in Nat /\ B \in A /\ g.lasers \in 0 .. top
  BY SpaceSizes
<1>1. h \in [A \X (1 .. top) -> A]
  <2>1. ASSUME NEW x \in A \X (1 .. top) PROVE UNION {OneLaser(k) : k \in x[1]} \in A
    BY OneLaserStays
  <2> QED BY <2>1
<1> HIDE DEF A, B, D, h, top
<1>2. PICK f \in [0 .. top -> A] : Steps(f, top, B, h)
  BY <1>0, <1>1, Iterated
<1>3. f[0] = B /\ \A i \in 1 .. top : f[i] = h[<<f[i - 1], i>>]
  BY <1>2 DEF Steps
<1>4. \A i \in 1 .. top : f[i] = UNION {OneLaser(k) : k \in f[i - 1]}
  <2>1. \A i \in 1 .. top : f[i - 1] \in A
    BY <1>0, <1>2
  <2> QED BY <1>3, <2>1 DEF h
<1>5. D(f)
  BY <1>0, <1>3, <1>4 DEF D, B
<1>6. D(CHOOSE e : D(e))
  BY <1>5
<1> DEFINE e == CHOOSE x : D(x)
<1>7. e = [n \in 0 .. top |-> IF n = 0 THEN {g} ELSE UNION {OneLaser(k) : k \in e[n - 1]}]
  BY <1>6 DEF D
<1>8. AfterLasers(g) = e[g.lasers]
  BY DEF AfterLasers, D, top
<1> HIDE DEF e
<1>9. e[0] = {g} /\ \A i \in 1 .. top : e[i] = UNION {OneLaser(k) : k \in e[i - 1]}
  BY <1>0, <1>7
<1>10. e[0] = {g} /\ AfterLasers(g) = e[g.lasers]
  BY <1>8, <1>9
<1> QED BY <1>9, <1>10 DEF top

\* After the first n lasers the games that may be are whole, and at most n lasers are gone.
LEMMA LasersWhole ==
  ASSUME NEW g, WholeWar(g), NEW r \in AfterLasers(g)
  PROVE  WholeWar(r)
<1> DEFINE top == MaxLasers
<1>0. top \in Nat /\ g \in Wars /\ g.lasers \in 0 .. top
  <2>1. g.stage \in 1 .. LastPhase /\ g.lasers \in Nat /\ g.lasers <= Allowed(g.stage) /\ g \in Wars
    BY DEF WholeWar, Wars
  <2>2. Allowed(g.stage) <= top /\ Allowed(g.stage) \in Nat /\ top \in Nat
    BY <2>1, Rooms, SpaceSizes
  <2> QED BY <2>1, <2>2
<1>1. PICK e : /\ e[0] = {g} /\ AfterLasers(g) = e[g.lasers]
               /\ \A i \in 1 .. MaxLasers : e[i] = UNION {OneLaser(k) : k \in e[i - 1]}
  BY <1>0, InTurn
<1>2. e[0] = {g} /\ \A i \in 1 .. top : e[i] = UNION {OneLaser(k) : k \in e[i - 1]}
  BY <1>1
<1> HIDE DEF top
<1> DEFINE m == g.lasers
           S == {i \in 0 .. m : \A k \in e[i] : WholeWar(k) /\ k.lasers >= m - i}
<1>3. \A i \in 0 .. m : i \in S
  <2>0. m \in Nat /\ m <= top
    BY <1>0
  <2>1. 0 \in S
    BY <1>2, <2>0
  <2>2. ASSUME NEW i \in 0 .. m, i \in S, i < m PROVE i + 1 \in S
    <3>1. i + 1 \in 1 .. top /\ (i + 1) - 1 = i
      BY <1>0, <2>0, <2>2
    <3>2. e[i + 1] = UNION {OneLaser(k) : k \in e[i]}
      BY <1>2, <3>1
    <3>3. ASSUME NEW k \in e[i], NEW x \in OneLaser(k) PROVE WholeWar(x) /\ x.lasers >= m - (i + 1)
      <4>1. WholeWar(k) /\ k.lasers >= m - i /\ k.lasers \in Nat
        BY <2>2 DEF WholeWar
      <4>2. WholeWar(x) /\ x.lasers >= k.lasers - 1 /\ x.lasers \in Nat
        <5>1. k.lasers > 0
          BY <2>0, <2>2, <4>1
        <5>2. WholeWar(x) /\ x.lasers >= k.lasers - 1
          BY <4>1, <5>1, OneLaserWhole
        <5> QED BY <5>2 DEF WholeWar
      <4> QED BY <2>0, <4>1, <4>2
    <3>4. \A x \in e[i + 1] : WholeWar(x) /\ x.lasers >= m - (i + 1)
      BY <3>2, <3>3
    <3>5. i + 1 \in 0 .. m
      BY <2>0, <2>2
    <3> QED BY <3>4, <3>5
  <2> HIDE DEF S
  <2> QED BY <2>0, <2>1, <2>2, StepByStep
<1> QED BY <1>0, <1>1, <1>3

-----------------------------------------------------------------------------

LEMMA AliensAppear ==
  ASSUME NEW g \in Wars, ~g.won, g.lives <= 0 => g.over,
         g.stage = 1 => \A s \in Shields : g.shields[s] = 0
  PROVE  WholeWar(WithAliens(g))
<1> DEFINE h == [g EXCEPT !.aliens = Aliens, !.lasers = 0]
           k == WithAliens(g)
<1>1. /\ h \in Wars /\ h.aliens = Aliens /\ h.lasers = 0 /\ h.shields = g.shields
      /\ h.lives = g.lives /\ h.over = g.over /\ h.won = g.won /\ h.stage = g.stage
  <2>1. h \in Wars
    <3>1. ASSUME NEW al \in SUBSET Aliens, NEW n \in Int
          PROVE  [g EXCEPT !.aliens = al, !.lasers = n] \in Wars
      BY DEF Wars
    <3>2. Aliens \in SUBSET Aliens /\ 0 \in Int
      OBVIOUS
    <3> QED BY <3>1, <3>2
  <2>2. h.aliens = Aliens /\ h.lasers = 0 /\ h.shields = g.shields
    BY DEF Wars
  <2>3. h.lives = g.lives /\ h.over = g.over /\ h.won = g.won /\ h.stage = g.stage
    BY DEF Wars
  <2> QED BY <2>1, <2>2, <2>3, Zenon
<1>2. (h.over <=> g.over) /\ (h.won <=> g.won)
  BY <1>1, Zenon
<1>3. Allowed(g.stage) \in Nat
  BY Rooms DEF Wars
<1>4. LaserSet(h, FALSE, k)
  <2> DEFINE l == FALSE
  <2>1. k = [g EXCEPT !.aliens = Aliens, !.laser = l, !.lasers = 0]
    BY Zenon DEF WithAliens
  <2>2. l \in BOOLEAN
    OBVIOUS
  <2> HIDE DEF l, k
  <2>3. k = [h EXCEPT !.laser = l]
    BY <2>1, <2>2 DEF Wars
  <2> QED BY <2>3, Zenon DEF LaserSet, l
<1> HIDE DEF h, k
<1>5. WholeWar(h)
  BY <1>1, <1>2, <1>3, SpaceSizes DEF WholeWar
<1>6. SameShip(h, k)
  BY <1>1, <1>4, LaserSets, Zenon
<1> QED BY <1>5, <1>6, SameWhole DEF k

LEMMA NewShieldsAre ==
  ASSUME NEW t \in Nat
  PROVE  /\ NewShields(t) \in [Shields -> Nat]
         /\ t = 1 => \A s \in Shields : NewShields(t)[s] = 0
BY SpaceSizes DEF NewShields

LEMMA NewWhole == WholeWar(NewWar)
<1> DEFINE g == [aliens |-> {}, laser |-> FALSE, ufo |-> FALSE, bomb |-> FALSE, lasers |-> 0,
                 shields |-> NewShields(1), lives |-> 3, over |-> FALSE, won |-> FALSE,
                 stage |-> 1]
<1>1. NewShields(1) \in [Shields -> Nat] /\ \A s \in Shields : NewShields(1)[s] = 0
  BY NewShieldsAre
<1>2. g \in Wars /\ g.lives = 3 /\ g.stage = 1 /\ g.shields = NewShields(1) /\ ~g.won
  BY <1>1, SpaceSizes DEF Wars
<1>3. NewWar = WithAliens(g)
  BY DEF NewWar
<1> HIDE DEF g
<1> QED BY <1>1, <1>2, <1>3, AliensAppear

LEMMA NextWhole == ASSUME NEW g, WholeWar(g), g.won PROVE WholeWar(NextStage(g))
<1> DEFINE n == IF g.stage < LastPhase THEN g.stage + 1 ELSE LastPhase
           f == FALSE
           w == NewShields(n)
           h == [g EXCEPT !.stage = n, !.won = f, !.ufo = f, !.bomb = f, !.shields = w]
<1>1. g \in Wars /\ g.stage \in 1 .. LastPhase /\ (g.lives <= 0 => g.over)
  BY DEF WholeWar, Wars
<1>2. n \in 1 .. LastPhase /\ n # 1 /\ f \in BOOLEAN /\ ~f
  BY <1>1, SpaceSizes
<1>3. w \in [Shields -> Nat]
  BY <1>2, NewShieldsAre
<1>4. NextStage(g) = WithAliens(h)
  BY Zenon DEF NextStage
<1> HIDE DEF n, f, w
<1>5. h \in Wars
  BY <1>1, <1>2, <1>3 DEF Wars
<1>6. h.stage = n /\ h.won = f /\ h.lives = g.lives /\ h.over = g.over
  BY <1>1, <1>2, <1>3 DEF Wars
<1>7. ~h.won /\ (h.over <=> g.over)
  BY <1>2, <1>6, Zenon
<1> HIDE DEF h
<1> QED BY <1>1, <1>2, <1>4, <1>5, <1>6, <1>7, AliensAppear

LEMMA WarStep == ASSUME WholeWar(war), [SpaceNext]_war PROVE WholeWar(war)'
<1> SUFFICES WholeWar(war')
  BY DEF WholeWar
<1>1. CASE UpdatesWar
  <2>1. ~war.over
    BY <1>1 DEF UpdatesWar
  <2>2. PICK g1 \in AfterShot(war) : \E g2 \in AfterSaucer(g1) : \E g3 \in AfterBomb(g2) :
          \E g4 \in AfterMarch(g3) : war' \in AfterLasers(g4)
    BY <1>1 DEF UpdatesWar
  <2>3. PICK g2 \in AfterSaucer(g1) : \E g3 \in AfterBomb(g2) :
          \E g4 \in AfterMarch(g3) : war' \in AfterLasers(g4)
    BY <2>2
  <2>4. PICK g3 \in AfterBomb(g2) : \E g4 \in AfterMarch(g3) : war' \in AfterLasers(g4)
    BY <2>3
  <2>5. PICK g4 \in AfterMarch(g3) : war' \in AfterLasers(g4)
    BY <2>4
  <2>6. WholeWar(g1)
    BY <2>1, ShotWhole
  <2>7. WholeWar(g2)
    BY <2>6, SaucerWhole
  <2>8. WholeWar(g3)
    BY <2>7, BombWhole
  <2>9. WholeWar(g4)
    BY <2>8, MarchWhole
  <2> QED BY <2>5, <2>9, LasersWhole
<1>2. CASE Shoots
  <2>1. LaserSet(war, TRUE, war') /\ war \in Wars
    BY <1>2, Zenon DEF Shoots, LaserSet, WholeWar
  <2>2. SameShip(war, war')
    BY <2>1, LaserSets, Zenon
  <2> QED BY <2>2, SameWhole
<1>3. CASE GoesOn
  BY <1>3, NextWhole DEF GoesOn
<1>4. CASE StartsWar
  BY <1>4, NewWhole DEF StartsWar
<1>5. CASE UNCHANGED war
  BY <1>5
<1> QED BY <1>1, <1>2, <1>3, <1>4, <1>5 DEF SpaceNext

LEMMA WarIsWhole == ASSUME WholeWar(war) PROVE WarWhole
BY DEF WholeWar, WarWhole

(* The lives and the shields of the war: a frame costs one life by the bomb and one by each   *)
(* laser, and a shield that stands still has some of its strength.                            *)

Spared(g, n) ==
    /\ g \in Wars
    /\ g.lives \in n .. 3 /\ g.shields \in [Shields -> 0 .. Strength]

LEMMA SameSpared ==
  ASSUME NEW g, NEW n \in Int, Spared(g, n), NEW h, SameShip(g, h)
  PROVE  Spared(h, n)
BY DEF Spared, SameShip

LEMMA ChippedSpared ==
  ASSUME NEW g, NEW n \in Int, Spared(g, n), NEW s \in Standing(g), NEW h, Chipped(g, s, h)
  PROVE  Spared(h, n)
<1>1. g \in Wars /\ s \in Shields /\ g.shields[s] > 0 /\ g.shields \in [Shields -> 0 .. Strength]
  BY DEF Spared, Standing
<1> DEFINE w == [g.shields EXCEPT ![s] = g.shields[s] - 1]
<1>2. w \in [Shields -> 0 .. Strength]
  BY <1>1, SpaceSizes
<1>3. h = [g EXCEPT !.shields = w]
  BY Zenon DEF Chipped
<1> HIDE DEF w
<1>4. h.shields = w
  BY <1>1, <1>3 DEF Wars
<1>5. h \in Wars /\ h.lives = g.lives
  BY <1>1, ShieldChips
<1> QED BY <1>2, <1>4, <1>5 DEF Spared

LEMMA HurtSpared ==
  ASSUME NEW g, NEW n \in Int, Spared(g, n) PROVE Spared(Hurt(g), n - 1)
<1>1. g \in Wars /\ g.lives \in n .. 3 /\ g.shields \in [Shields -> 0 .. Strength]
  BY DEF Spared
<1>2. Hurt(g) \in Wars /\ Hurt(g).lives = g.lives - 1 /\ Hurt(g).shields = g.shields
  BY <1>1, Hurts
<1> QED BY <1>1, <1>2 DEF Spared

LEMMA FewerSpared ==
  ASSUME NEW g, NEW n \in Int, Spared(g, n) PROVE Spared(g, n - 1)
BY DEF Spared

\* What strikes takes one life at most.
LEMMA StruckSpared ==
  ASSUME NEW h, NEW n \in Int, Spared(h, n), NEW S, S = Standing(h), NEW r,
         r = h \/ r = Hurt(h) \/ \E s \in S : r = [h EXCEPT !.shields[s] = @ - 1]
  PROVE  Spared(r, n - 1)
<1>1. ASSUME NEW s \in S, r = [h EXCEPT !.shields[s] = @ - 1] PROVE Spared(r, n - 1)
  <2>1. Chipped(h, s, r)
    BY <1>1, Zenon DEF Chipped
  <2>2. Spared(r, n)
    BY <2>1, ChippedSpared
  <2> QED BY <2>2, FewerSpared
<1> QED BY <1>1, HurtSpared, FewerSpared

LEMMA ShotSpared ==
  ASSUME NEW g, NEW n \in Int, Spared(g, n), NEW r \in AfterShot(g)
  PROVE  Spared(r, n)
<1>0. g \in Wars
  BY DEF Spared
<1> DEFINE h == [g EXCEPT !.laser = FALSE]
<1>1. LaserSet(g, FALSE, h)
  BY Zenon DEF LaserSet
<1>2. SameShip(g, h)
  BY <1>0, <1>1, LaserSets, Zenon
<1>3. \/ r = g
      \/ r = h
      \/ \E s \in Standing(g) : r = [h EXCEPT !.shields[s] = @ - 1]
      \/ r = [h EXCEPT !.ufo = FALSE]
      \/ \E a \in g.aliens : r = [h EXCEPT !.aliens = @ \ {a}, !.won = (g.aliens = {a})]
  BY Zenon DEF AfterShot
<1> HIDE DEF h
<1>4. Spared(h, n) /\ h \in Wars /\ Standing(h) = Standing(g)
  BY <1>2, SameSpared DEF SameShip, Standing
<1>5. CASE r = g \/ r = h
  BY <1>4, <1>5
<1>6. ASSUME NEW s \in Standing(g), r = [h EXCEPT !.shields[s] = @ - 1] PROVE Spared(r, n)
  <2>1. Chipped(h, s, r)
    BY <1>6, Zenon DEF Chipped
  <2> QED BY <1>4, <2>1, ChippedSpared
<1>7. CASE r = [h EXCEPT !.ufo = FALSE]
  <2>1. UfoSet(h, FALSE, r)
    BY <1>7, Zenon DEF UfoSet
  <2>2. SameShip(h, r)
    BY <1>4, <2>1, UfoSets, Zenon
  <2> QED BY <1>4, <2>2, SameSpared
<1>8. ASSUME NEW a \in g.aliens, r = [h EXCEPT !.aliens = @ \ {a}, !.won = (g.aliens = {a})]
      PROVE  Spared(r, n)
  <2> DEFINE w == g.aliens = {a}
             q == h.aliens \ {a}
  <2>1. w \in BOOLEAN /\ q \in SUBSET Aliens /\ r = [h EXCEPT !.aliens = q, !.won = w]
    BY <1>4, <1>8 DEF Wars
  <2> HIDE DEF w, q
  <2>2. r \in Wars /\ r.lives = h.lives /\ r.shields = h.shields
    BY <1>4, <2>1 DEF Wars
  <2> QED BY <1>4, <2>2 DEF Spared
<1> QED BY <1>3, <1>5, <1>6, <1>7, <1>8

LEMMA SaucerSpared ==
  ASSUME NEW g, NEW n \in Int, Spared(g, n), NEW r \in AfterSaucer(g)
  PROVE  Spared(r, n)
<1>0. g \in Wars /\ g.bomb \in BOOLEAN
  BY DEF Spared, Wars
<1>1. \/ r = g
      \/ r = [g EXCEPT !.ufo = TRUE]
      \/ \E u, b \in BOOLEAN : r = Saucer(g, u, b)
  BY SaucerGames
<1>2. CASE r = [g EXCEPT !.ufo = TRUE]
  <2>1. UfoSet(g, TRUE, r)
    BY <1>2, Zenon DEF UfoSet
  <2> QED BY <1>0, <2>1, UfoSets, SameSpared
<1>3. ASSUME NEW u \in BOOLEAN, NEW b \in BOOLEAN, r = Saucer(g, u, b)
      PROVE  Spared(r, n)
  <2> DEFINE c == g.bomb \/ b
  <2>1. c \in BOOLEAN /\ r = [g EXCEPT !.ufo = u, !.bomb = c]
    BY <1>3, Zenon DEF Saucer
  <2> HIDE DEF c
  <2>2. r \in Wars /\ r.lives = g.lives /\ r.shields = g.shields
    BY <1>0, <2>1 DEF Wars
  <2> QED BY <2>2 DEF Spared
<1> QED BY <1>1, <1>2, <1>3

LEMMA BombSpared ==
  ASSUME NEW g, NEW n \in Int, Spared(g, n), NEW r \in AfterBomb(g)
  PROVE  Spared(r, n - 1)
<1>0. g \in Wars
  BY DEF Spared
<1> DEFINE h == [g EXCEPT !.bomb = FALSE]
<1>1. BombSet(g, FALSE, h)
  BY Zenon DEF BombSet
<1>2. SameShip(g, h)
  BY <1>0, <1>1, BombSets, Zenon
<1>3. \/ r = g
      \/ r = h \/ r = Hurt(h) \/ \E s \in Standing(g) : r = [h EXCEPT !.shields[s] = @ - 1]
  BY Zenon DEF AfterBomb
<1> HIDE DEF h
<1>4. Spared(h, n) /\ Standing(g) = Standing(h)
  BY <1>2, SameSpared DEF SameShip, Standing
<1> QED BY <1>3, <1>4, StruckSpared, FewerSpared

LEMMA MarchSpared ==
  ASSUME NEW g, NEW n \in Int, Spared(g, n), NEW r \in AfterMarch(g)
  PROVE  r.lives \in n .. 3 /\ r.shields \in [Shields -> 0 .. Strength]
<1>1. ASSUME NEW h \in Marched(g) PROVE Spared(h, n)
  <2>1. CASE h = [g EXCEPT !.over = TRUE]
    <3>1. h \in Wars /\ h.lives = g.lives /\ h.shields = g.shields
      BY <2>1 DEF Spared, Wars
    <3> QED BY <3>1 DEF Spared
  <2> QED BY <2>1 DEF Marched
<1>2. ASSUME NEW h, Spared(h, n)
      PROVE  Volley(h).lives = h.lives /\ Volley(h).shields = h.shields
  BY <1>2 DEF Spared, Wars, Volley
<1>3. r = g \/ \E h \in Marched(g) : r = h \/ r = Volley(h)
  BY DEF AfterMarch
<1> QED BY <1>1, <1>2, <1>3 DEF Spared

LEMMA OneLaserSpared ==
  ASSUME NEW g, NEW n \in Int, Spared(g, n), NEW r \in OneLaser(g)
  PROVE  Spared(r, n - 1)
<1>0. g \in Wars
  BY DEF Spared
<1> DEFINE h == [g EXCEPT !.lasers = @ - 1]
<1>1. LaserCount(g, g.lasers - 1, h) /\ g.lasers - 1 \in Int
  <2>1. g.lasers - 1 \in Int
    BY <1>0 DEF Wars
  <2> QED BY <2>1, Zenon DEF LaserCount
<1>2. \/ r = g
      \/ r = h \/ r = Hurt(h) \/ \E s \in Standing(g) : r = [h EXCEPT !.shields[s] = @ - 1]
  BY Zenon DEF OneLaser
<1> HIDE DEF h
<1>3. h \in Wars /\ h.lives = g.lives /\ h.shields = g.shields /\ Standing(g) = Standing(h)
  BY <1>0, <1>1, LaserRecords
<1>4. Spared(h, n)
  BY <1>3 DEF Spared
<1> QED BY <1>2, <1>3, <1>4, StruckSpared, FewerSpared

LEMMA LasersSpared ==
  ASSUME NEW g, NEW n \in Int, Spared(g, n), g.lasers \in 0 .. MaxLasers, NEW r \in AfterLasers(g)
  PROVE  Spared(r, n - MaxLasers)
<1> DEFINE m == g.lasers
<1>0. g \in Wars /\ MaxLasers \in Nat /\ m \in Nat /\ m <= MaxLasers
  BY SpaceSizes DEF Spared
<1>1. PICK e : /\ e[0] = {g} /\ AfterLasers(g) = e[m]
               /\ \A i \in 1 .. MaxLasers : e[i] = UNION {OneLaser(k) : k \in e[i - 1]}
  BY <1>0, InTurn
<1> HIDE DEF m
<1> DEFINE S == {i \in 0 .. m : \A k \in e[i] : Spared(k, n - i)}
<1>2. \A i \in 0 .. m : i \in S
  <2>1. 0 \in S
    BY <1>0, <1>1
  <2>2. ASSUME NEW i \in 0 .. m, i \in S, i < m PROVE i + 1 \in S
    <3>1. i + 1 \in 1 .. MaxLasers /\ (i + 1) - 1 = i /\ i + 1 \in 0 .. m
      BY <1>0, <2>2
    <3>2. e[i + 1] = UNION {OneLaser(k) : k \in e[i]}
      BY <1>1, <3>1
    <3>3. ASSUME NEW k \in e[i], NEW x \in OneLaser(k) PROVE Spared(x, n - (i + 1))
      <4>1. Spared(k, n - i) /\ n - i \in Int /\ (n - i) - 1 = n - (i + 1)
        BY <1>0, <2>2
      <4>2. Spared(x, (n - i) - 1)
        BY <4>1, OneLaserSpared
      <4> QED BY <4>1, <4>2
    <3> QED BY <3>1, <3>2, <3>3
  <2> HIDE DEF S
  <2> QED BY <1>0, <2>1, <2>2, StepByStep
<1>3. Spared(r, n - m)
  BY <1>0, <1>1, <1>2
<1>4. n - MaxLasers <= n - m
  BY <1>0
<1> QED BY <1>0, <1>3, <1>4 DEF Spared

WarTypes == WholeWar(war) /\ Spared(war, -MaxLasers)

LEMMA NewSpared == Spared(NewWar, -MaxLasers)
<1>1. NewWar \in Wars
  BY NewWhole DEF WholeWar
<1>2. NewWar.lives = 3 /\ NewWar.shields = NewShields(1)
  BY DEF NewWar, WithAliens
<1> QED BY <1>1, <1>2, SpaceSizes DEF Spared, NewShields

LEMMA NextSpared ==
  ASSUME NEW g, WholeWar(g), g.won, Spared(g, -MaxLasers)
  PROVE  Spared(NextStage(g), -MaxLasers)
<1>1. NextStage(g) \in Wars /\ g \in Wars
  BY NextWhole DEF WholeWar
<1> DEFINE n == IF g.stage < LastPhase THEN g.stage + 1 ELSE LastPhase
           k == NextStage(g)
<1>2. k.lives = g.lives /\ k.shields = NewShields(n)
  BY <1>1 DEF NextStage, WithAliens, Wars
<1>3. NewShields(n) \in [Shields -> 0 .. Strength]
  BY SpaceSizes DEF NewShields
<1> HIDE DEF n, k
<1> QED BY <1>1, <1>2, <1>3 DEF Spared, k

LEMMA WarTypesStep == WarTypes /\ [SpaceNext]_war => WarTypes'
<1> SUFFICES ASSUME WholeWar(war), Spared(war, -MaxLasers), [SpaceNext]_war
             PROVE  Spared(war', -MaxLasers)
  <2>1. Spared(war, -MaxLasers)' <=> Spared(war', -MaxLasers)
    BY DEF Spared
  <2> QED BY <2>1, WarStep DEF WarTypes
<1>0. MaxLasers \in Nat /\ -MaxLasers \in Int
  BY SpaceSizes
<1>1. CASE UpdatesWar
  <2>1. Spared(war, 1)
    BY <1>1 DEF UpdatesWar, Spared, WholeWar
  <2>2. PICK g1 \in AfterShot(war) : \E g2 \in AfterSaucer(g1) : \E g3 \in AfterBomb(g2) :
          \E g4 \in AfterMarch(g3) : war' \in AfterLasers(g4)
    BY <1>1 DEF UpdatesWar
  <2>3. PICK g2 \in AfterSaucer(g1) : \E g3 \in AfterBomb(g2) :
          \E g4 \in AfterMarch(g3) : war' \in AfterLasers(g4)
    BY <2>2
  <2>4. PICK g3 \in AfterBomb(g2) : \E g4 \in AfterMarch(g3) : war' \in AfterLasers(g4)
    BY <2>3
  <2>5. PICK g4 \in AfterMarch(g3) : war' \in AfterLasers(g4)
    BY <2>4
  <2>6. Spared(g1, 1) /\ WholeWar(g1)
    BY <1>1, <2>1, ShotSpared, ShotWhole DEF UpdatesWar
  <2>7. Spared(g2, 1) /\ WholeWar(g2)
    BY <2>6, SaucerSpared, SaucerWhole
  <2>8. Spared(g3, 0) /\ WholeWar(g3)
    <3>1. Spared(g3, 1 - 1)
      BY <2>7, BombSpared
    <3> QED BY <2>7, <3>1, BombWhole
  <2>9. WholeWar(g4)
    BY <2>8, MarchWhole
  <2>10. Spared(g4, 0)
    BY <2>8, <2>9, MarchSpared DEF Spared, WholeWar
  <2>11. g4.lasers \in 0 .. MaxLasers
    <3>1. g4.stage \in 1 .. LastPhase /\ g4.lasers \in Nat /\ g4.lasers <= Allowed(g4.stage)
      BY <2>9 DEF WholeWar, Wars
    <3> QED BY <1>0, <3>1, Rooms
  <2>12. Spared(war', 0 - MaxLasers)
    BY <2>5, <2>10, <2>11, LasersSpared
  <2> QED BY <1>0, <2>12
<1>2. CASE Shoots
  <2>1. LaserSet(war, TRUE, war') /\ war \in Wars
    BY <1>2, Zenon DEF Shoots, LaserSet, WholeWar
  <2> QED BY <1>0, <2>1, LaserSets, SameSpared
<1>3. CASE GoesOn
  BY <1>3, NextSpared DEF GoesOn
<1>4. CASE StartsWar
  BY <1>4, NewSpared DEF StartsWar
<1>5. CASE UNCHANGED war
  BY <1>5
<1> QED BY <1>1, <1>2, <1>3, <1>4, <1>5 DEF SpaceNext

LEMMA WarTypesAre == WarTypes => SpaceTypeOK
<1> SUFFICES ASSUME WarTypes PROVE SpaceTypeOK
  OBVIOUS
<1>1. war.stage \in 1 .. LastPhase /\ war.lasers \in Nat /\ war.lasers <= Allowed(war.stage)
      /\ war.aliens \in SUBSET Aliens
  BY DEF WarTypes, WholeWar, Wars
<1>2. war.lasers \in 0 .. MaxLasers
  BY <1>1, Rooms, SpaceSizes
<1> QED BY <1>1, <1>2 DEF WarTypes, Spared, SpaceTypeOK

\* No frame takes more than one life by the bomb and one by each laser, and no shield has more
\* strength than it began with (Update_Game).
THEOREM SpaceTypesHold == SpaceSpec => []SpaceTypeOK
<1>1. SpaceInit => WarTypes
  BY NewWhole, NewSpared DEF SpaceInit, WarTypes
<1> QED BY <1>1, WarTypesStep, WarTypesAre, PTL DEF SpaceSpec

-----------------------------------------------------------------------------
(* Arkanoid: BricksWhole is inductive, but for the types.                                      *)

Finishes == [over : BOOLEAN, won : BOOLEAN]

BricksTypes ==
    /\ standing \subseteq Bricks /\ rise \in {-1, 0, 1} /\ balls \in 0 .. 3
    /\ finish \in Finishes /\ flying \in BOOLEAN /\ high \in BOOLEAN

BricksInv == BricksTypes /\ BricksWhole

LEMMA NewFinish ==
  ASSUME NEW f, f = [over |-> FALSE, won |-> FALSE]
  PROVE  f \in Finishes /\ ~f.over /\ ~f.won
BY DEF Finishes

LEMMA NextFinish ==
  ASSUME NEW f \in Finishes, NEW b \in BOOLEAN
  PROVE  /\ [f EXCEPT !.won = b] \in Finishes
         /\ [f EXCEPT !.won = b].over <=> f.over
         /\ [f EXCEPT !.won = b].won <=> b
         /\ [f EXCEPT !.over = b] \in Finishes
         /\ [f EXCEPT !.over = b].over <=> b
         /\ [f EXCEPT !.over = b].won <=> f.won
<1>1. [f EXCEPT !.won = b] \in Finishes /\ [f EXCEPT !.over = b] \in Finishes
  BY DEF Finishes
<1>2. [f EXCEPT !.won = b].over = f.over /\ [f EXCEPT !.won = b].won = b
  BY DEF Finishes
<1>3. [f EXCEPT !.over = b].won = f.won /\ [f EXCEPT !.over = b].over = b
  BY DEF Finishes
<1> QED BY <1>1, <1>2, <1>3

Judged(f, S, g) == g = IF S = {} THEN [f EXCEPT !.won = TRUE] ELSE f

LEMMA JudgedFinish ==
  ASSUME NEW f \in Finishes, NEW S, NEW g, Judged(f, S, g)
  PROVE  g \in Finishes /\ (g.over <=> f.over) /\ (g.won <=> f.won \/ S = {})
<1>1. CASE S = {}
  <2>1. g = [f EXCEPT !.won = TRUE]
    BY <1>1, Zenon DEF Judged
  <2>2. [f EXCEPT !.won = TRUE] \in Finishes
    BY NextFinish, Zenon
  <2>3. ([f EXCEPT !.won = TRUE].over <=> f.over) /\ [f EXCEPT !.won = TRUE].won
    BY NextFinish, Zenon
  <2> QED BY <1>1, <2>1, <2>2, <2>3, Zenon
<1>2. CASE S # {}
  <2>1. g = f
    BY <1>2, Zenon DEF Judged
  <2> QED BY <1>2, <2>1, Zenon
<1> QED BY <1>1, <1>2

LEMMA BricksStart == ArkanoidInit => BricksInv
<1> SUFFICES ASSUME ArkanoidInit PROVE BricksInv
  OBVIOUS
<1>1. finish \in Finishes /\ ~finish.over /\ ~finish.won
  BY NewFinish DEF ArkanoidInit
<1>2. flying \in BOOLEAN /\ ~flying /\ high \in BOOLEAN /\ standing = Bricks /\ balls = 3 /\ rise = 0
  BY DEF ArkanoidInit
<1> QED BY <1>1, <1>2, BricksAssumption DEF BricksInv, BricksTypes, BricksWhole

LEMMA BricksStep == BricksInv /\ [ArkanoidNext]_brickvars => BricksInv'
<1> SUFFICES ASSUME BricksInv, [ArkanoidNext]_brickvars PROVE BricksInv'
  OBVIOUS
<1> USE DEF BricksInv, BricksTypes, BricksWhole
<1>1. CASE StartsBricks
  <2>1. finish' = [over |-> FALSE, won |-> FALSE]
    BY <1>1 DEF StartsBricks
  <2>2. finish' \in Finishes /\ ~finish'.over /\ ~finish'.won
    BY <2>1, NewFinish
  <2>3. /\ flying' \in BOOLEAN /\ ~flying' /\ high' \in BOOLEAN
        /\ standing' = Bricks /\ balls' = 3 /\ rise' = 0
    BY <1>1 DEF StartsBricks, BallBack
  <2> QED BY <2>2, <2>3, BricksAssumption
<1>2. CASE NextBricks
  <2>1. finish' = [finish EXCEPT !.won = FALSE]
    BY <1>2 DEF NextBricks
  <2>2. finish' \in Finishes /\ (finish'.over <=> finish.over) /\ ~finish'.won
    BY <2>1, NextFinish
  <2> QED BY <1>2, <2>2, BricksAssumption DEF NextBricks, BallBack
<1>3. CASE Launches
  BY <1>3 DEF Launches, Playing
<1>4. CASE FallsOut
  <2>1. CASE balls = 1
    <3>1. finish' = [finish EXCEPT !.over = TRUE]
      BY <1>4, <2>1 DEF FallsOut
    <3>2. finish' \in Finishes /\ finish'.over /\ (finish'.won <=> finish.won)
      BY <3>1, NextFinish
    <3> QED BY <1>4, <2>1, <3>2 DEF FallsOut, Flies, Playing
  <2>2. CASE balls > 1
    <3>1. finish' = finish /\ BallBack /\ balls' = balls - 1 /\ standing' = standing
      BY <1>4, <2>2 DEF FallsOut
    <3>2. ~finish.over /\ ~finish.won /\ ~high
      BY <1>4 DEF FallsOut, Flies, Playing
    <3>3. flying' \in BOOLEAN /\ ~flying' /\ high' \in BOOLEAN /\ rise' = 0
      BY <3>1 DEF BallBack
    <3> QED BY <2>2, <3>1, <3>2, <3>3
  <2> QED BY <1>4, <2>1, <2>2 DEF FallsOut
<1>5. CASE Frame
  <2>1. Judged(finish, standing, finish')
    BY <1>5, Zenon DEF Frame, Counted, Judged
  <2>2. finish' \in Finishes /\ (finish'.over <=> finish.over) /\ (finish'.won <=> finish.won \/ standing = {})
    BY <2>1, JudgedFinish
  <2>0. Travels
    BY <1>5, Zenon DEF Frame
  <2>3. high' \in BOOLEAN
    <3>1. UNCHANGED high \/ high' = (rise = -1)
      BY <2>0, Zenon DEF Travels
    <3>2. (rise = -1) \in BOOLEAN /\ high \in BOOLEAN
      OBVIOUS
    <3> QED BY <3>1, <3>2, Zenon
  <2>4. rise' = rise \/ rise' = 1 \/ rise' = -1
    BY <2>0, Zenon DEF Travels
  <2>5. standing' = standing /\ flying' = flying /\ balls' = balls /\ ~finish.over /\ ~finish.won /\ flying
    BY <1>5, Zenon DEF Frame, Travels, Flies, Playing
  <2> QED BY <2>2, <2>3, <2>4, <2>5
<1>6. ASSUME NEW b \in standing, Breaks(b) PROVE BricksInv'
  <2>1. Judged(finish, standing, finish')
    BY <1>6 DEF Breaks, Counted, Judged
  <2>2. finish' \in Finishes /\ (finish'.over <=> finish.over) /\ (finish'.won <=> finish.won \/ standing = {})
    BY <2>1, JudgedFinish
  <2> QED BY <1>6, <2>2 DEF Breaks, Flies, Playing
<1>7. CASE UNCHANGED brickvars
  BY <1>7 DEF brickvars
<1> QED BY <1>1, <1>2, <1>3, <1>4, <1>5, <1>6, <1>7 DEF ArkanoidNext

-----------------------------------------------------------------------------
(* CHIP-8: what the held keys and the frames since a press say of each other, and the stack.   *)

Machines ==
    [pc : Nat, sp : 0 .. 255, stack : [0 .. StackDepth - 1 -> Nat], awaits : BOOLEAN,
     down : SUBSET Pads, dt : Nat, st : Nat]

Fields == {"edit", "twin", "button"}

Forms == [caret : Fields \cup {"none"}, kept : Fields, listed : BOOLEAN]

ChipTypes ==
    /\ chip \in Machines /\ keyHold \in [Pads -> 0 .. Hold] /\ pressed \in [Pads -> 1 .. Hold + 1]
    /\ since \in 1 .. Hold + 1 /\ touched \in SUBSET Pads /\ form \in Forms
    /\ loaded \in BOOLEAN /\ smashed \in BOOLEAN
    /\ left \in Nat /\ calls \in Seq(Nat)

\* A key is held until Hold frames have passed since its press, and only while some key came
\* no longer ago than what is left of the hold and keys never stayed away since its press.
KeysHeld ==
    /\ \A k \in Pads : keyHold[k] + pressed[k] >= Hold
    /\ \A k \in Pads : keyHold[k] > 0 => k \in touched /\ keyHold[k] + since <= Hold

FreshKeys == {k \in Pads : pressed[k] <= Hold}

DownTrue == (left > 0 => FreshKeys \subseteq chip.down) /\ chip.down \subseteq touched

\* The caret is where it last was, or nowhere.
CaretThere(f) == f \in Forms /\ f.caret \in {f.kept, "none"}

AtRest == CaretThere(form) /\ (~loaded => ~chip.awaits /\ left = 0 /\ form.caret = form.kept)

StackTrue ==
    ~smashed => /\ chip.sp = Len(calls) /\ Len(calls) <= StackDepth
                /\ \A i \in 1 .. Len(calls) : chip.stack[i - 1] = calls[i]

ChipInv == ChipTypes /\ KeysHeld /\ DownTrue /\ AtRest /\ StackTrue

LEMMA ChipSizes == /\ StackDepth \in Nat \ {0} /\ StackDepth < 256 /\ Hold \in Nat \ {0}
                   /\ Cycles \in Nat \ {0} /\ TimerTop \in Nat \ {0} /\ Addresses \subseteq Nat
BY Chip8Assumption

LEMMA NewChipIs ==
  /\ NewChip \in Machines /\ NewChip.sp = 0 /\ ~NewChip.awaits /\ NewChip.down = {}
<1>1. [i \in 0 .. StackDepth - 1 |-> 0] \in [0 .. StackDepth - 1 -> Nat]
  OBVIOUS
<1> QED BY <1>1 DEF NewChip, Machines

LEMMA CaretKeptIs ==
  ASSUME NEW f \in Forms, NEW rom \in BOOLEAN
  PROVE  /\ CaretThere(CaretKept(f, rom))
         /\ ~rom => CaretKept(f, rom).caret = CaretKept(f, rom).kept
<1>1. CASE f.caret # "none"
  <2>1. CaretKept(f, rom) = [f EXCEPT !.kept = f.caret]
    BY <1>1 DEF CaretKept
  <2> QED BY <1>1, <2>1 DEF CaretThere, Forms, Fields
<1>2. CASE f.caret = "none" /\ ~rom
  <2>1. CaretKept(f, rom) = [f EXCEPT !.caret = f.kept]
    BY <1>2 DEF CaretKept
  <2> QED BY <1>2, <2>1 DEF CaretThere, Forms, Fields
<1>3. CASE f.caret = "none" /\ rom
  <2>1. CaretKept(f, rom) = f
    BY <1>3 DEF CaretKept
  <2> QED BY <1>3, <2>1 DEF CaretThere
<1> QED BY <1>1, <1>2, <1>3

LEMMA CaretMoves ==
  ASSUME NEW f \in Forms, NEW b \in BOOLEAN, NEW c \in Fields \cup {"none"}
  PROVE  [f EXCEPT !.listed = b, !.caret = c] \in Forms /\ [f EXCEPT !.caret = c] \in Forms
BY DEF Forms

LEMMA ChipStarts == ChipInit => ChipInv
<1> SUFFICES ASSUME ChipInit PROVE ChipInv
  OBVIOUS
<1>1. chip \in Machines /\ chip.sp = 0 /\ ~chip.awaits /\ chip.down = {}
  BY NewChipIs DEF ChipInit
<1>2. /\ keyHold = [k \in Pads |-> 0] /\ pressed = [k \in Pads |-> Hold + 1]
      /\ left = 0 /\ calls = << >> /\ since = Hold + 1 /\ touched = {}
  BY DEF ChipInit
<1>3. /\ loaded \in BOOLEAN /\ smashed \in BOOLEAN
      /\ form \in Forms /\ form.caret = form.kept
  BY DEF ChipInit, Forms, Fields
<1>4. << >> \in Seq(Nat) /\ Len(<< >>) = 0
  OBVIOUS
<1>5. keyHold \in [Pads -> 0 .. Hold] /\ pressed \in [Pads -> 1 .. Hold + 1]
  BY <1>2, ChipSizes
<1>6. KeysHeld
  BY <1>2, ChipSizes DEF KeysHeld
<1>7. StackTrue
  BY <1>1, <1>2, <1>4, ChipSizes DEF StackTrue
<1>8. AtRest /\ DownTrue
  BY <1>1, <1>2, <1>3 DEF DownTrue, AtRest, CaretThere
<1>9. since \in 1 .. Hold + 1 /\ touched \in SUBSET Pads
  BY <1>2, ChipSizes
<1> QED BY <1>1, <1>2, <1>3, <1>4, <1>5, <1>6, <1>7, <1>8, <1>9 DEF ChipInv, ChipTypes

LEMMA FramesCount ==
  ASSUME NEW n \in 1 .. Hold + 1
  PROVE  /\ Frames(n) \in 1 .. Hold + 1
         /\ Frames(n) = IF n > Hold THEN Hold + 1 ELSE n + 1
BY ChipSizes DEF Frames

\* A frame begins: what one key, or none, makes of the hold of every key.
LEMMA FrameKeys ==
  ASSUME ChipInv, NEW ks \in SUBSET Pads, NEW came \in BOOLEAN, BeginsFrame(ks, came)
  PROVE  ChipInv'
<1> DEFINE down == chip.down \cup ks
           h == IF came THEN [k \in Pads |-> IF k \in down THEN Hold ELSE keyHold[k]] ELSE keyHold
           c == [chip EXCEPT !.down = @ \cup ks, !.awaits = @ /\ ks = {}]
           d == {k \in Pads : h[k] > 0}
<1>0. /\ chip \in Machines /\ keyHold \in [Pads -> 0 .. Hold] /\ pressed \in [Pads -> 1 .. Hold + 1]
      /\ since \in 1 .. Hold + 1 /\ touched \in SUBSET Pads
      /\ KeysHeld /\ StackTrue /\ chip.down \in SUBSET Pads /\ chip.down \subseteq touched
  BY DEF ChipInv, ChipTypes, Machines, DownTrue
<1>1. /\ left = 0 /\ loaded /\ left' = Cycles + 1 /\ calls' = calls /\ form' = form
      /\ (loaded' <=> loaded) /\ (smashed' <=> smashed)
      /\ loaded' \in BOOLEAN /\ smashed' \in BOOLEAN
      /\ came \/ ks = {}
  BY DEF BeginsFrame, ChipInv, ChipTypes
<1>2. /\ c.down = down /\ c \in Machines /\ c.sp = chip.sp /\ c.stack = chip.stack
  <2>1. (chip.awaits /\ ks = {}) \in BOOLEAN
    OBVIOUS
  <2>2. down \in SUBSET Pads
    BY <1>0
  <2> DEFINE w == chip.awaits /\ ks = {}
  <2>3. c = [chip EXCEPT !.down = down, !.awaits = w]
    BY Zenon
  <2> HIDE DEF w, down, c
  <2> QED BY <1>0, <2>1, <2>2, <2>3 DEF Machines, w
<1>3. h \in [Pads -> 0 .. Hold]
  BY <1>0, ChipSizes
<1>4. /\ chip' = [c EXCEPT !.down = d]
      /\ keyHold' = [k \in Pads |-> IF h[k] > 0 THEN h[k] - 1 ELSE 0]
      /\ pressed' = [k \in Pads |-> IF k \in ks THEN 1 ELSE Frames(pressed[k])]
  <2>1. c = WithKeys(ks)
    BY Zenon DEF WithKeys
  <2>2. h = (IF came THEN Held(c.down) ELSE keyHold)
    BY <1>2 DEF Held
  <2> HIDE DEF c, h
  <2> QED BY <2>1, <2>2 DEF BeginsFrame
<1> HIDE DEF c
<1>5. chip' \in Machines /\ chip'.down = d /\ chip'.sp = chip.sp /\ chip'.stack = chip.stack
  <2>1. d \in SUBSET Pads
    OBVIOUS
  <2> HIDE DEF d
  <2> QED BY <1>2, <1>4, <2>1 DEF Machines
<1>6. /\ keyHold' \in [Pads -> 0 .. Hold] /\ pressed' \in [Pads -> 1 .. Hold + 1]
      /\ \A k \in Pads : keyHold'[k] = (IF h[k] > 0 THEN h[k] - 1 ELSE 0)
      /\ \A k \in Pads : pressed'[k] = (IF k \in ks THEN 1 ELSE Frames(pressed[k]))
  <2>1. \A k \in Pads : Frames(pressed[k]) \in 1 .. Hold + 1
    BY <1>0, FramesCount
  <2> HIDE DEF h
  <2> QED BY <1>0, <1>3, <1>4, <2>1, ChipSizes
<1>7. \A k \in Pads : h[k] = (IF came /\ k \in down THEN Hold ELSE keyHold[k])
  OBVIOUS
<1> HIDE DEF h
<1>8. \A k \in Pads : pressed'[k] = (IF k \in ks THEN 1
                                     ELSE IF pressed[k] > Hold THEN Hold + 1 ELSE pressed[k] + 1)
  BY <1>0, <1>6, FramesCount
<1>9. \A k \in Pads : /\ keyHold'[k] + pressed'[k] >= Hold
                      /\ pressed'[k] <= Hold => h[k] > 0
  BY <1>0, <1>1, <1>3, <1>6, <1>7, <1>8, ChipSizes DEF KeysHeld
<1>10. /\ since' = (IF came THEN 1 ELSE Frames(since)) /\ since' \in 1 .. Hold + 1
       /\ ~came /\ since <= Hold => since' = since + 1
       /\ touched' = (IF since' > Hold THEN {} ELSE touched \cup ks)
  BY <1>0, FramesCount, ChipSizes DEF BeginsFrame
<1>11. ASSUME NEW k \in Pads, h[k] > 0
       PROVE  k \in touched' /\ keyHold'[k] + since' <= Hold
  <2>1. CASE ~came
    <3>1. h[k] = keyHold[k] /\ k \in touched /\ keyHold[k] + since <= Hold
      BY <1>0, <1>7, <1>11, <2>1 DEF KeysHeld
    <3>2. since' = since + 1 /\ since' <= Hold /\ keyHold'[k] = keyHold[k] - 1
      BY <1>0, <1>6, <1>10, <1>11, <2>1, <3>1, ChipSizes
    <3> QED BY <1>0, <1>10, <3>1, <3>2, ChipSizes
  <2>2. CASE came
    <3>1. since' = 1 /\ ~(since' > Hold) /\ keyHold'[k] <= Hold - 1 /\ touched' = touched \cup ks
      BY <1>3, <1>6, <1>10, <1>11, <2>2, ChipSizes
    <3>2. k \in touched \cup ks
      BY <1>0, <1>7, <1>11, <2>2 DEF KeysHeld
    <3> QED BY <1>6, <3>1, <3>2, ChipSizes
  <2> QED BY <2>1, <2>2
<1>12. KeysHeld'
  <2>1. \A k \in Pads : keyHold'[k] > 0 => h[k] > 0
    BY <1>3, <1>6
  <2> QED BY <1>9, <1>11, <2>1 DEF KeysHeld
<1>13. DownTrue'
  <2>1. FreshKeys' = {k \in Pads : pressed'[k] <= Hold}
    BY DEF FreshKeys
  <2>2. FreshKeys' \subseteq d
    BY <1>9, <2>1
  <2>3. d \subseteq touched'
    BY <1>11
  <2> HIDE DEF d
  <2> QED BY <1>5, <2>2, <2>3 DEF DownTrue
<1>14. StackTrue'
  BY <1>0, <1>1, <1>5 DEF StackTrue
<1>15. left' \in Nat /\ calls' \in Seq(Nat) /\ form' \in Forms /\ touched' \in SUBSET Pads
  BY <1>0, <1>1, <1>10, ChipSizes DEF ChipInv, ChipTypes
<1>16. AtRest'
  BY <1>1 DEF ChipInv, AtRest
<1> QED BY <1>1, <1>5, <1>6, <1>10, <1>12, <1>13, <1>14, <1>15, <1>16 DEF ChipInv, ChipTypes

\* Every other step leaves the keys alone, and releases those of the machine or none.
LEMMA OtherKeys ==
  ASSUME ChipInv, UNCHANGED <<keyHold, histories>>,
         chip' \in Machines, left' \in Nat, left' > 0 => left > 0 /\ chip'.down = chip.down,
         chip'.down \subseteq chip.down, form' \in Forms,
         loaded' \in BOOLEAN, smashed' \in BOOLEAN, calls' \in Seq(Nat),
         AtRest', StackTrue'
  PROVE  ChipInv'
<1>0. UNCHANGED <<keyHold, pressed, since, touched>>
  BY DEF histories
<1>1. KeysHeld' /\ FreshKeys' = FreshKeys
  BY <1>0 DEF ChipInv, KeysHeld, FreshKeys
<1>2. DownTrue'
  BY <1>0, <1>1 DEF DownTrue, ChipInv
<1>3. /\ keyHold' \in [Pads -> 0 .. Hold] /\ pressed' \in [Pads -> 1 .. Hold + 1]
      /\ since' \in 1 .. Hold + 1 /\ touched' \in SUBSET Pads
  BY <1>0 DEF ChipInv, ChipTypes
<1> QED BY <1>1, <1>2, <1>3 DEF ChipInv, ChipTypes

LEMMA CycleKeys ==
  ASSUME ChipInv, InCycle, chip' \in Machines, chip'.down = chip.down,
         smashed' \in BOOLEAN, calls' \in Seq(Nat), StackTrue'
  PROVE  ChipInv'
<1>1. /\ left > 0 /\ left' \in Nat /\ loaded /\ loaded' /\ UNCHANGED <<keyHold, histories>>
      /\ loaded' \in BOOLEAN /\ form' \in Forms /\ form' = form
  BY DEF InCycle, ChipInv, ChipTypes, AtRest
<1>2. AtRest'
  BY <1>1 DEF ChipInv, AtRest
<1> QED BY <1>1, <1>2, OtherKeys

\* A machine with some fields changed.
SameMachine(m, r) == r \in Machines /\ r.down = m.down /\ r.sp = m.sp /\ r.stack = m.stack
JumpedTo(m, a, r) == r = [m EXCEPT !.pc = a]
WaitsNow(m, r) == r = [m EXCEPT !.awaits = TRUE]
TimedTo(m, n, r) == r = [m EXCEPT !.dt = n] \/ r = [m EXCEPT !.st = n]
CountedDown(m, a, n, r) == r = [m EXCEPT !.dt = a, !.st = n]
PushedTo(m, i, v, s, a, r) == r = [m EXCEPT !.stack[i] = v, !.sp = s, !.pc = a]
SentTo(m, s, a, r) == r = [m EXCEPT !.sp = s, !.pc = a]
SentFrom(m, s, r) == r \in Machines /\ r.down = m.down /\ r.sp = s /\ r.stack = m.stack
IsByte(s) == s \in 0 .. 255
IsNatural(s) == s \in Nat

LEMMA ChipJumps == ASSUME NEW m \in Machines, NEW a \in Nat, NEW r, JumpedTo(m, a, r) PROVE SameMachine(m, r)
BY DEF Machines, JumpedTo, SameMachine

LEMMA ChipWaits == ASSUME NEW m \in Machines, NEW r, WaitsNow(m, r) PROVE SameMachine(m, r)
<1>1. ASSUME NEW b \in BOOLEAN, r = [m EXCEPT !.awaits = b] PROVE SameMachine(m, r)
  BY <1>1 DEF Machines, SameMachine
<1> QED BY <1>1, Zenon DEF WaitsNow

LEMMA ChipTimes == ASSUME NEW m \in Machines, NEW n \in Nat, NEW r, TimedTo(m, n, r) PROVE SameMachine(m, r)
<1>1. CASE r = [m EXCEPT !.dt = n]
  BY <1>1 DEF Machines, SameMachine
<1>2. CASE r = [m EXCEPT !.st = n]
  BY <1>2 DEF Machines, SameMachine
<1> QED BY <1>1, <1>2 DEF TimedTo

LEMMA ChipCounts ==
  ASSUME NEW m \in Machines, NEW a \in Nat, NEW n \in Nat, NEW r, CountedDown(m, a, n, r) PROVE SameMachine(m, r)
BY DEF Machines, CountedDown, SameMachine

LEMMA ChipPushes ==
  ASSUME NEW m \in Machines, NEW i \in 0 .. StackDepth - 1, NEW s \in 0 .. 255, NEW a \in Nat, NEW v \in Nat, NEW r,
         PushedTo(m, i, v, s, a, r)
  PROVE  /\ r \in Machines /\ r.down = m.down /\ r.sp = s
         /\ r.stack = [m.stack EXCEPT ![i] = v] /\ m.stack \in [0 .. StackDepth - 1 -> Nat]
<1> DEFINE w == [m.stack EXCEPT ![i] = v]
<1>1. m.stack \in [0 .. StackDepth - 1 -> Nat]
  BY DEF Machines
<1>2. w \in [0 .. StackDepth - 1 -> Nat]
  BY <1>1
<1>3. r = [m EXCEPT !.stack = w, !.sp = s, !.pc = a]
  BY Zenon DEF PushedTo
<1> HIDE DEF w
<1>4. r \in Machines /\ r.down = m.down /\ r.sp = s /\ r.stack = w
  BY <1>2, <1>3 DEF Machines
<1> QED BY <1>1, <1>4 DEF w

LEMMA ChipSteps ==
  ASSUME NEW m, NEW s, NEW a, NEW r, m \in Machines, IsByte(s), IsNatural(a), SentTo(m, s, a, r)
  PROVE  SentFrom(m, s, r)
BY DEF Machines, SentTo, SentFrom, IsByte, IsNatural

\* sp has eight bits.
LEMMA EightBits ==
  ASSUME NEW s \in 0 .. 255
  PROVE  /\ (s + 1) % 256 \in 0 .. 255
         /\ s < StackDepth => s + 1 \in 0 .. 255
         /\ (s + 255) % 256 \in 0 .. 255
         /\ (s + 255) % 256 = IF s = 0 THEN 255 ELSE s - 1
<1>1. s < StackDepth => s + 1 \in 0 .. 255
  BY ChipSizes
<1>2. (s + 1) % 256 \in 0 .. 255 /\ (s + 255) % 256 \in 0 .. 255
  OBVIOUS
<1>3. CASE s = 0
  BY <1>1, <1>2, <1>3
<1>4. CASE s > 0
  <2>1. s + 255 \in 256 .. 511
    BY <1>4
  <2>2. (s + 255) % 256 = (s + 255) - 256
    BY <2>1
  <2>3. (s + 255) % 256 = s - 1
    BY <2>2
  <2> QED BY <1>1, <1>2, <1>4, <2>3
<1> QED BY <1>3, <1>4

LEMMA StackStays ==
  ASSUME StackTrue, chip'.sp = chip.sp, chip'.stack = chip.stack, calls' = calls, smashed' = smashed
  PROVE  StackTrue'
BY DEF StackTrue

LEMMA OpensInv ==
  ASSUME ChipInv, NEW outcome \in {"empty", "fails", "reads"}, OpensRom(outcome) PROVE ChipInv'
<1> DEFINE on == IF form.listed THEN "button" ELSE form.caret
           m == IF outcome = "reads" THEN "edit" ELSE on
           f == [form EXCEPT !.caret = m]
<1>0. /\ chip \in Machines /\ form \in Forms /\ AtRest /\ StackTrue /\ calls \in Seq(Nat)
      /\ loaded \in BOOLEAN /\ smashed \in BOOLEAN
  BY DEF ChipInv, ChipTypes
<1>1. form' = CaretKept(f, loaded') /\ left = 0 /\ left' = 0 /\ UNCHANGED <<keyHold, histories>>
  BY Zenon DEF OpensRom
<1>2. m \in Fields \cup {"none"}
  BY <1>0 DEF Forms, Fields
<1> HIDE DEF m
<1>3. f \in Forms
  BY <1>0, <1>2, CaretMoves
<1> HIDE DEF f
<1>4. CASE UNCHANGED <<chip, loaded, calls, smashed>>
  <2>1. loaded' \in BOOLEAN
    BY <1>0, <1>4
  <2>2. CaretThere(form') /\ (~loaded' => form'.caret = form'.kept)
    BY <1>1, <1>3, <2>1, CaretKeptIs
  <2>3. AtRest'
    BY <1>0, <1>1, <1>4, <2>2 DEF AtRest
  <2>4. StackTrue'
    BY <1>0, <1>4, StackStays
  <2> QED BY <1>0, <1>1, <1>4, <2>2, <2>3, <2>4, OtherKeys DEF CaretThere
<1>5. CASE chip' = NewChip /\ loaded' = (outcome = "reads") /\ calls' = << >> /\ smashed' = FALSE
  <2>1. loaded' \in BOOLEAN /\ smashed' \in BOOLEAN /\ << >> \in Seq(Nat) /\ Len(<< >>) = 0
    <3>1. (outcome = "reads") \in BOOLEAN /\ << >> \in Seq(Nat) /\ Len(<< >>) = 0
      OBVIOUS
    <3> QED BY <1>5, <3>1, Zenon
  <2>2. chip' \in Machines /\ chip'.sp = 0 /\ ~chip'.awaits /\ chip'.down = {}
    BY <1>5, NewChipIs
  <2>3. StackTrue'
    BY <1>5, <2>1, <2>2, ChipSizes DEF StackTrue
  <2>4. CaretThere(form') /\ (~loaded' => form'.caret = form'.kept)
    BY <1>1, <1>3, <2>1, CaretKeptIs
  <2>5. AtRest'
    BY <1>1, <2>2, <2>4 DEF AtRest
  <2> QED BY <1>1, <1>5, <2>1, <2>2, <2>3, <2>4, <2>5, OtherKeys DEF CaretThere
<1> QED BY <1>4, <1>5 DEF OpensRom

LEMMA ClicksInv == ASSUME ChipInv, NEW s, ClicksForm(s) PROVE ChipInv'
<1> DEFINE c == CASE s = "within" -> "edit"
                  [] s = "border" -> "twin"
                  [] OTHER        -> "none"
           b == form.listed /\ s # "close"
           f == [form EXCEPT !.listed = b, !.caret = c]
           g == [form EXCEPT !.listed = @ /\ s # "close", !.caret = c]
<1>0. /\ form \in Forms /\ AtRest /\ StackTrue /\ loaded \in BOOLEAN
      /\ chip \in Machines /\ smashed \in BOOLEAN /\ calls \in Seq(Nat)
  BY DEF ChipInv, ChipTypes
<1>1. /\ form' = CaretKept(g, loaded) /\ left = 0
      /\ UNCHANGED <<chip, keyHold, loaded, left, calls, histories, smashed>>
  BY Zenon DEF ClicksForm
<1>2. c \in Fields \cup {"none"} /\ b \in BOOLEAN
  BY <1>0 DEF Fields, Forms
<1> HIDE DEF c
<1>3. f = g
  BY Zenon
<1> HIDE DEF b, g
<1>4. f \in Forms
  BY <1>0, <1>2, CaretMoves
<1> HIDE DEF f
<1>5. CaretThere(form') /\ (~loaded => form'.caret = form'.kept)
  BY <1>0, <1>1, <1>3, <1>4, CaretKeptIs
<1>6. StackTrue' /\ AtRest'
  BY <1>0, <1>1, <1>5 DEF StackTrue, AtRest
<1> QED BY <1>0, <1>1, <1>5, <1>6, OtherKeys DEF CaretThere

LEMMA CallsInv == ASSUME ChipInv, NEW a \in Addresses, Calls(a) PROVE ChipInv'
<1>0. /\ InCycle /\ chip \in Machines /\ chip.pc \in Nat /\ chip.sp \in 0 .. 255 /\ calls \in Seq(Nat)
      /\ a \in Nat /\ StackTrue /\ smashed \in BOOLEAN
      /\ calls' = Append(calls, chip.pc)
  BY ChipSizes DEF Calls, Runs, ChipInv, ChipTypes, Machines
<1>1. /\ calls' \in Seq(Nat) /\ Len(calls') = Len(calls) + 1 /\ Len(calls) \in Nat
      /\ \A i \in 1 .. Len(calls) : calls'[i] = calls[i]
      /\ calls'[Len(calls) + 1] = chip.pc
  BY <1>0
<1>2. CASE chip.sp \in 0 .. StackDepth - 1
  <2>1. PushedTo(chip, chip.sp, chip.pc, chip.sp + 1, a, chip') /\ smashed' = smashed
    BY <1>2 DEF Calls, PushedTo
  <2>2. chip.sp + 1 \in 0 .. 255
    <3>1. chip.sp < StackDepth
      BY <1>2, ChipSizes
    <3> QED BY <1>0, <3>1, EightBits
  <2>3. /\ chip' \in Machines /\ chip'.down = chip.down /\ chip'.sp = chip.sp + 1
        /\ chip'.stack = [chip.stack EXCEPT ![chip.sp] = chip.pc] /\ chip.stack \in [0 .. StackDepth - 1 -> Nat]
    BY <1>0, <1>2, <2>1, <2>2, ChipPushes
  <2>4. StackTrue'
    <3>1. SUFFICES ASSUME ~smashed'
                   PROVE  /\ chip'.sp = Len(calls') /\ Len(calls') <= StackDepth
                          /\ \A i \in 1 .. Len(calls') : chip'.stack[i - 1] = calls'[i]
      BY DEF StackTrue
    <3>2. /\ chip.sp = Len(calls) /\ Len(calls) < StackDepth
          /\ \A i \in 1 .. Len(calls) : chip.stack[i - 1] = calls[i]
      BY <1>0, <1>2, <2>1, <3>1, ChipSizes DEF StackTrue
    <3>3. ASSUME NEW i \in 1 .. Len(calls) + 1 PROVE chip'.stack[i - 1] = calls'[i]
      <4>1. CASE i = Len(calls) + 1
        <5>1. i - 1 = chip.sp
          BY <1>1, <3>2, <4>1
        <5>2. chip'.stack[chip.sp] = chip.pc
          BY <1>2, <2>3
        <5> QED BY <1>1, <4>1, <5>1, <5>2
      <4>2. CASE i <= Len(calls)
        <5>1. i \in 1 .. Len(calls) /\ i - 1 # chip.sp /\ i - 1 \in 0 .. StackDepth - 1
          BY <1>1, <3>2, <4>2, ChipSizes
        <5> QED BY <1>1, <2>3, <3>2, <5>1
      <4> QED BY <1>1, <4>1, <4>2
    <3> QED BY <1>1, <2>3, <3>2, <3>3, ChipSizes
  <2>5. smashed' \in BOOLEAN
    BY <1>0, <2>1
  <2> QED BY <1>0, <1>1, <2>3, <2>4, <2>5, CycleKeys
<1>3. CASE ~(chip.sp \in 0 .. StackDepth - 1)
  <2>1. SentTo(chip, (chip.sp + 1) % 256, a, chip') /\ smashed' /\ smashed' \in BOOLEAN
    BY <1>3 DEF Calls, SentTo
  <2>2. (chip.sp + 1) % 256 \in 0 .. 255
    BY <1>0, EightBits
  <2>3. IsByte((chip.sp + 1) % 256) /\ IsNatural(a)
    BY <1>0, <2>2 DEF IsByte, IsNatural
  <2>4. chip' \in Machines /\ chip'.down = chip.down
    BY <1>0, <2>1, <2>3, ChipSteps DEF SentFrom
  <2> QED BY <1>0, <1>1, <2>1, <2>4, CycleKeys DEF StackTrue
<1> QED BY <1>2, <1>3

LEMMA ReturnsInv == ASSUME ChipInv, Returns PROVE ChipInv'
<1> DEFINE sp == (chip.sp + 255) % 256
<1>0. /\ InCycle /\ chip \in Machines /\ chip.sp \in 0 .. 255 /\ calls \in Seq(Nat)
      /\ StackTrue /\ smashed \in BOOLEAN /\ chip.stack \in [0 .. StackDepth - 1 -> Nat]
      /\ calls' = IF calls = << >> THEN calls ELSE SubSeq(calls, 1, Len(calls) - 1)
  BY DEF Returns, Runs, ChipInv, ChipTypes, Machines
<1>1. /\ Len(calls) \in Nat /\ calls' \in Seq(Nat)
      /\ calls # << >> => /\ Len(calls) > 0 /\ Len(calls') = Len(calls) - 1
                          /\ \A i \in 1 .. Len(calls) - 1 : calls'[i] = calls[i]
  <2>1. CASE calls = << >>
    BY <1>0, <2>1
  <2>2. CASE calls # << >>
    <3>1. Len(calls) > 0 /\ Len(calls) \in Nat /\ calls' = SubSeq(calls, 1, Len(calls) - 1)
      BY <1>0, <2>2
    <3>2. ASSUME NEW k \in Nat, k <= Len(calls)
          PROVE  /\ SubSeq(calls, 1, k) \in Seq(Nat) /\ Len(SubSeq(calls, 1, k)) = k
                 /\ \A i \in 1 .. k : SubSeq(calls, 1, k)[i] = calls[i]
      BY <1>0, <3>2
    <3>3. Len(calls) - 1 \in Nat /\ Len(calls) - 1 <= Len(calls)
      BY <3>1
    <3> QED BY <3>1, <3>2, <3>3
  <2> QED BY <2>1, <2>2
<1>2. sp \in 0 .. 255 /\ (chip.sp = 0 => sp = 255) /\ (chip.sp > 0 => sp = chip.sp - 1)
  <2>1. chip.sp \in 0 .. 255
    BY <1>0
  <2>2. PICK s \in 0 .. 255 : s = chip.sp
    BY <2>1
  <2>3. sp = (s + 255) % 256
    BY <2>2
  <2> HIDE DEF sp
  <2> QED BY <2>2, <2>3, EightBits
<1>3. CASE sp \in 0 .. StackDepth - 1
  <2>1. SentTo(chip, sp, chip.stack[sp], chip') /\ smashed' = smashed
    BY <1>3 DEF Returns, SentTo
  <2>2. chip.stack[sp] \in Nat
    BY <1>0, <1>3
  <2> HIDE DEF sp
  <2>a. IsByte(sp) /\ IsNatural(chip.stack[sp])
    BY <1>2, <2>2 DEF IsByte, IsNatural
  <2>3. chip' \in Machines /\ chip'.down = chip.down /\ chip'.sp = sp /\ chip'.stack = chip.stack
    BY <1>0, <2>a, <2>1, ChipSteps DEF SentFrom
  <2>4. StackTrue'
    <3>1. SUFFICES ASSUME ~smashed'
                   PROVE  /\ chip'.sp = Len(calls') /\ Len(calls') <= StackDepth
                          /\ \A i \in 1 .. Len(calls') : chip'.stack[i - 1] = calls'[i]
      BY DEF StackTrue
    <3>2. /\ chip.sp = Len(calls) /\ Len(calls) <= StackDepth
          /\ \A i \in 1 .. Len(calls) : chip.stack[i - 1] = calls[i]
      BY <1>0, <2>1, <3>1 DEF StackTrue
    <3>3. chip.sp > 0 /\ calls # << >>
      BY <1>0, <1>1, <1>2, <1>3, <3>2, ChipSizes
    <3>4. Len(calls') = Len(calls) - 1 /\ sp = Len(calls) - 1
      <4>1. Len(calls') = Len(calls) - 1
        BY <1>1, <3>3
      <4>2. sp = chip.sp - 1
        BY <1>2, <3>3
      <4> QED BY <3>2, <4>1, <4>2
    <3>5. \A i \in 1 .. Len(calls') : i \in 1 .. Len(calls) /\ calls'[i] = calls[i]
      BY <1>1, <3>3, <3>4
    <3>6. Len(calls') <= StackDepth
      BY <1>1, <3>2, <3>4, ChipSizes
    <3> QED BY <2>3, <3>2, <3>4, <3>5, <3>6
  <2>5. smashed' \in BOOLEAN
    BY <1>0, <2>1
  <2> QED BY <1>0, <1>1, <2>3, <2>4, <2>5, CycleKeys
<1>4. CASE ~(sp \in 0 .. StackDepth - 1)
  <2>1. PICK a \in Addresses : SentTo(chip, sp, a, chip')
    BY <1>4 DEF Returns, SentTo
  <2>2. smashed' /\ smashed' \in BOOLEAN /\ a \in Nat
    BY <1>4, ChipSizes DEF Returns
  <2> HIDE DEF sp
  <2>a. IsByte(sp) /\ IsNatural(a)
    BY <1>2, <2>2 DEF IsByte, IsNatural
  <2>3. chip' \in Machines /\ chip'.down = chip.down
    BY <1>0, <2>a, <2>1, ChipSteps DEF SentFrom
  <2> QED BY <1>0, <1>1, <2>2, <2>3, CycleKeys DEF StackTrue
<1> QED BY <1>3, <1>4

LEMMA PlainCycle ==
  ASSUME ChipInv, InCycle, chip' \in Machines, chip'.down = chip.down, chip'.sp = chip.sp,
         chip'.stack = chip.stack, UNCHANGED <<calls, smashed>>
  PROVE  ChipInv'
<1>1. StackTrue'
  BY StackStays DEF ChipInv
<1>2. smashed' \in BOOLEAN /\ calls' \in Seq(Nat)
  BY DEF ChipInv, ChipTypes
<1> QED BY <1>1, <1>2, CycleKeys

LEMMA EndsFrameInv == ASSUME ChipInv, EndsFrame PROVE ChipInv'
<1>1. chip \in Machines /\ Down(chip.dt) \in Nat /\ Down(chip.st) \in Nat
  BY DEF ChipInv, ChipTypes, Machines, Down
<1>2. CountedDown(chip, Down(chip.dt), Down(chip.st), chip')
  BY DEF EndsFrame, CountedDown
<1>3. chip' \in Machines /\ chip'.down = chip.down /\ chip'.sp = chip.sp /\ chip'.stack = chip.stack
  BY <1>1, <1>2, ChipCounts DEF SameMachine
<1>4. left = 1 /\ left' = 0 /\ UNCHANGED <<keyHold, loaded, form, calls, histories, smashed>>
  BY DEF EndsFrame
<1>5. StackTrue' /\ AtRest'
  BY <1>3, <1>4, StackStays DEF ChipInv, AtRest
<1> QED BY <1>3, <1>4, <1>5, OtherKeys DEF ChipInv, ChipTypes

LEMMA ChipStep == ASSUME ChipInv, [ChipNext]_chipvars PROVE ChipInv'
<1>0. chip \in Machines
  BY DEF ChipInv, ChipTypes
<1>1. ASSUME NEW outcome \in {"empty", "fails", "reads"}, OpensRom(outcome) PROVE ChipInv'
  BY <1>1, OpensInv
<1>11. ASSUME NEW s, ClicksForm(s) PROVE ChipInv'
  BY <1>11, ClicksInv
<1>2. ASSUME NEW ks \in {{}} \cup {{k} : k \in Pads}, NEW came \in BOOLEAN, BeginsFrame(ks, came)
      PROVE  ChipInv'
  BY <1>2, FrameKeys
<1>3. ASSUME NEW a \in Addresses, Jumps(a) PROVE ChipInv'
  <2>1. InCycle /\ JumpedTo(chip, a, chip') /\ UNCHANGED <<calls, smashed>>
    BY <1>3 DEF Jumps, Runs, JumpedTo
  <2>2. chip' \in Machines /\ chip'.down = chip.down /\ chip'.sp = chip.sp /\ chip'.stack = chip.stack
    BY <1>0, <2>1, ChipJumps, ChipSizes DEF SameMachine
  <2> QED BY <2>1, <2>2, PlainCycle
<1>4. ASSUME NEW a \in Addresses, Calls(a) PROVE ChipInv'
  BY <1>4, CallsInv
<1>5. CASE Waits
  BY <1>0, <1>5, PlainCycle DEF Waits
<1>6. CASE Returns
  BY <1>6, ReturnsInv
<1>7. CASE AwaitsKey
  <2>1. InCycle /\ WaitsNow(chip, chip') /\ UNCHANGED <<calls, smashed>>
    BY <1>7 DEF AwaitsKey, Runs, WaitsNow
  <2>2. chip' \in Machines /\ chip'.down = chip.down /\ chip'.sp = chip.sp /\ chip'.stack = chip.stack
    BY <1>0, <2>1, ChipWaits DEF SameMachine
  <2> QED BY <2>1, <2>2, PlainCycle
<1>8. CASE EndsFrame
  BY <1>8, EndsFrameInv
<1>9. ASSUME NEW n \in 1 .. TimerTop, SetsTimer(n) PROVE ChipInv'
  <2>1. InCycle /\ TimedTo(chip, n, chip') /\ UNCHANGED <<calls, smashed>>
    BY <1>9 DEF SetsTimer, Runs, TimedTo
  <2>2. n \in Nat
    BY ChipSizes
  <2>3. chip' \in Machines /\ chip'.down = chip.down /\ chip'.sp = chip.sp /\ chip'.stack = chip.stack
    BY <1>0, <2>1, <2>2, ChipTimes DEF SameMachine
  <2> QED BY <2>1, <2>3, PlainCycle
<1>10. CASE UNCHANGED chipvars
  <2>1. StackTrue' /\ AtRest'
    BY <1>10 DEF chipvars, ChipInv, StackTrue, AtRest
  <2> QED BY <1>10, <2>1, OtherKeys DEF chipvars, ChipInv, ChipTypes
<1> QED BY <1>1, <1>2, <1>3, <1>4, <1>5, <1>6, <1>7, <1>8, <1>9, <1>10, <1>11 DEF ChipNext

LEMMA ChipIsWhole == ASSUME ChipInv PROVE ChipWhole
<1>1. DownTrue /\ AtRest /\ StackTrue
  BY DEF ChipInv
<1>2. FreshKeys = {k \in Pads : pressed[k] <= Hold}
  BY DEF FreshKeys
<1> QED BY <1>1, <1>2 DEF ChipWhole, DownTrue, AtRest, StackTrue

(* What the machine reaches: an address a program has, and timers of eight bits.               *)

Reachable == Addresses \cup {0}

InReach(m) ==
    /\ m \in Machines
    /\ m.pc \in Reachable /\ m.stack \in [0 .. StackDepth - 1 -> Reachable]
    /\ m.dt \in 0 .. TimerTop /\ m.st \in 0 .. TimerTop

ChipReach == InReach(chip) /\ left \in 0 .. Cycles + 1

LEMMA NewInReach == InReach(NewChip)
<1>1. [i \in 0 .. StackDepth - 1 |-> 0] \in [0 .. StackDepth - 1 -> Reachable]
  BY DEF Reachable
<1>2. 0 \in 0 .. TimerTop /\ 0 \in Reachable
  BY ChipSizes DEF Reachable
<1> QED BY <1>1, <1>2, NewChipIs DEF InReach, NewChip

LEMMA JumpsInReach ==
  ASSUME NEW m, InReach(m), NEW a \in Reachable, NEW r, JumpedTo(m, a, r) PROVE InReach(r)
<1>1. a \in Nat
  BY ChipSizes DEF Reachable
<1> QED BY <1>1 DEF JumpedTo, InReach, Machines

LEMMA SentInReach ==
  ASSUME NEW m, InReach(m), NEW s \in 0 .. 255, NEW a \in Reachable, NEW r, SentTo(m, s, a, r)
  PROVE  InReach(r)
<1>1. a \in Nat
  BY ChipSizes DEF Reachable
<1> QED BY <1>1 DEF SentTo, InReach, Machines

LEMMA PushedInReach ==
  ASSUME NEW m, InReach(m), NEW i \in 0 .. StackDepth - 1, NEW v \in Reachable, NEW s \in 0 .. 255,
         NEW a \in Reachable, NEW r, PushedTo(m, i, v, s, a, r)
  PROVE  InReach(r)
<1> DEFINE w == [m.stack EXCEPT ![i] = v]
<1>1. a \in Nat /\ v \in Nat
  BY ChipSizes DEF Reachable
<1>2. w \in [0 .. StackDepth - 1 -> Reachable] /\ w \in [0 .. StackDepth - 1 -> Nat]
  BY <1>1 DEF InReach, Machines
<1>3. r = [m EXCEPT !.stack = w, !.sp = s, !.pc = a]
  BY Zenon DEF PushedTo
<1> HIDE DEF w
<1> QED BY <1>1, <1>2, <1>3 DEF InReach, Machines

LEMMA TimedInReach ==
  ASSUME NEW m, InReach(m), NEW n \in 1 .. TimerTop, NEW r, TimedTo(m, n, r) PROVE InReach(r)
<1>1. n \in Nat /\ n \in 0 .. TimerTop
  BY ChipSizes
<1>2. CASE r = [m EXCEPT !.dt = n]
  BY <1>1, <1>2 DEF InReach, Machines
<1>3. CASE r = [m EXCEPT !.st = n]
  BY <1>1, <1>3 DEF InReach, Machines
<1> QED BY <1>2, <1>3 DEF TimedTo

LEMMA CountedInReach ==
  ASSUME NEW m, InReach(m), NEW r, CountedDown(m, Down(m.dt), Down(m.st), r) PROVE InReach(r)
<1> DEFINE a == Down(m.dt)
           b == Down(m.st)
<1>1. a \in 0 .. TimerTop /\ b \in 0 .. TimerTop /\ a \in Nat /\ b \in Nat
  BY ChipSizes DEF InReach, Down
<1>2. r = [m EXCEPT !.dt = a, !.st = b]
  BY DEF CountedDown
<1> HIDE DEF a, b
<1> QED BY <1>1, <1>2 DEF InReach, Machines

LEMMA KeysInReach ==
  ASSUME NEW m, InReach(m), NEW d \in SUBSET Pads, NEW w \in BOOLEAN, NEW e \in SUBSET Pads, NEW r,
         r = [[m EXCEPT !.down = e, !.awaits = w] EXCEPT !.down = d]
  PROVE  InReach(r)
BY DEF InReach, Machines

LEMMA ReachStays ==
  ASSUME ChipInv, ChipReach, [ChipNext]_chipvars PROVE ChipReach'
<1>0. /\ InReach(chip) /\ chip \in Machines /\ left \in 0 .. Cycles + 1
      /\ Cycles \in Nat /\ Cycles + 1 \in 0 .. Cycles + 1
      /\ InReach(chip)' <=> InReach(chip')
  BY ChipSizes DEF ChipReach, InReach
<1>1. ASSUME NEW outcome \in {"empty", "fails", "reads"}, OpensRom(outcome) PROVE ChipReach'
  <2>1. (chip' = chip \/ chip' = NewChip) /\ left' = left
    BY <1>1, Zenon DEF OpensRom
  <2> QED BY <1>0, <2>1, NewInReach DEF ChipReach
<1>2. ASSUME NEW s, ClicksForm(s) PROVE ChipReach'
  <2>1. chip' = chip /\ left' = left
    BY <1>2, Zenon DEF ClicksForm
  <2> QED BY <1>0, <2>1 DEF ChipReach
<1>3. ASSUME NEW ks \in {{}} \cup {{k} : k \in Pads}, NEW came \in BOOLEAN, BeginsFrame(ks, came)
      PROVE  ChipReach'
  <2> DEFINE e == chip.down \cup ks
             w == chip.awaits /\ ks = {}
             h == IF came THEN Held(WithKeys(ks).down) ELSE keyHold
             d == {k \in Pads : h[k] > 0}
  <2>1. chip' = [[chip EXCEPT !.down = e, !.awaits = w] EXCEPT !.down = d] /\ left' = Cycles + 1
    BY <1>3, Zenon DEF BeginsFrame, WithKeys
  <2>2. e \in SUBSET Pads /\ w \in BOOLEAN /\ d \in SUBSET Pads
    <3>1. ks \in SUBSET Pads
      OBVIOUS
    <3> QED BY <1>0, <3>1 DEF Machines
  <2> HIDE DEF d, e, w
  <2> QED BY <1>0, <2>1, <2>2, KeysInReach DEF ChipReach
<1>4. ASSUME InCycle, InReach(chip') PROVE ChipReach'
  BY <1>0, <1>4 DEF InCycle, ChipReach
<1>5. ASSUME NEW a \in Addresses, Jumps(a) PROVE ChipReach'
  <2>1. JumpedTo(chip, a, chip') /\ InCycle /\ a \in Reachable
    BY <1>5 DEF Jumps, Runs, JumpedTo, Reachable
  <2> QED BY <1>0, <1>4, <2>1, JumpsInReach
<1>6. ASSUME NEW a \in Addresses, Calls(a) PROVE ChipReach'
  <2>0. InCycle /\ a \in Reachable /\ chip.sp \in 0 .. 255 /\ chip.pc \in Reachable
    BY <1>0, <1>6 DEF Calls, Runs, Reachable, InReach, Machines
  <2>1. CASE chip.sp \in 0 .. StackDepth - 1
    <3>1. PushedTo(chip, chip.sp, chip.pc, chip.sp + 1, a, chip')
      BY <1>6, <2>1 DEF Calls, PushedTo
    <3>2. chip.sp + 1 \in 0 .. 255
      <4>1. chip.sp < StackDepth
        BY <2>1, ChipSizes
      <4> QED BY <2>0, <4>1, EightBits
    <3> QED BY <1>0, <1>4, <2>0, <2>1, <3>1, <3>2, PushedInReach
  <2>2. CASE ~(chip.sp \in 0 .. StackDepth - 1)
    <3>1. SentTo(chip, (chip.sp + 1) % 256, a, chip')
      BY <1>6, <2>2 DEF Calls, SentTo
    <3>2. (chip.sp + 1) % 256 \in 0 .. 255
      BY <2>0, EightBits
    <3> QED BY <1>0, <1>4, <2>0, <3>1, <3>2, SentInReach
  <2> QED BY <2>1, <2>2
<1>7. CASE Waits
  BY <1>0, <1>4, <1>7 DEF Waits
<1>8. CASE Returns
  <2> DEFINE sp == (chip.sp + 255) % 256
  <2>1. sp \in 0 .. 255 /\ InCycle
    <3>1. chip.sp \in 0 .. 255 /\ InCycle
      BY <1>0, <1>8 DEF Machines, Returns, Runs
    <3> QED BY <3>1, EightBits
  <2>2. \/ sp \in 0 .. StackDepth - 1 /\ SentTo(chip, sp, chip.stack[sp], chip')
        \/ \E a \in Addresses : SentTo(chip, sp, a, chip')
    BY <1>8 DEF Returns, SentTo
  <2> HIDE DEF sp
  <2>3. PICK a \in Reachable : SentTo(chip, sp, a, chip')
    BY <1>0, <2>2 DEF InReach, Reachable
  <2> QED BY <1>0, <1>4, <2>1, <2>3, SentInReach
<1>9. CASE AwaitsKey
  <2>1. InCycle /\ chip' = [chip EXCEPT !.awaits = TRUE]
    BY <1>9 DEF AwaitsKey, Runs
  <2>2. InReach(chip')
    BY <1>0, <2>1 DEF InReach, Machines
  <2> QED BY <1>4, <2>1, <2>2
<1>10. CASE EndsFrame
  <2>1. CountedDown(chip, Down(chip.dt), Down(chip.st), chip') /\ left' = 0
    BY <1>10 DEF EndsFrame, CountedDown
  <2> QED BY <1>0, <2>1, CountedInReach DEF ChipReach
<1>11. ASSUME NEW n \in 1 .. TimerTop, SetsTimer(n) PROVE ChipReach'
  <2>1. InCycle /\ TimedTo(chip, n, chip')
    BY <1>11 DEF SetsTimer, Runs, TimedTo
  <2> QED BY <1>0, <1>4, <2>1, TimedInReach
<1>12. CASE UNCHANGED chipvars
  BY <1>0, <1>12 DEF chipvars, ChipReach
<1> QED BY <1>1, <1>2, <1>3, <1>5, <1>6, <1>7, <1>8, <1>9, <1>10, <1>11, <1>12 DEF ChipNext

LEMMA ChipTypesAre == ASSUME ChipInv, ChipReach PROVE ChipTypeOK
<1>1. form.kept \in Fields /\ form.caret \in {form.kept, "none"}
  BY DEF ChipInv, AtRest, CaretThere, Forms
<1> QED BY <1>1 DEF ChipInv, ChipTypes, ChipReach, InReach, Reachable, Machines, ChipTypeOK, Fields

\* The CHIP-8 runs at an address a program has, also after a call or a return past its stack;
\* its timers stay of their width (Chip8_Cycle, Chip8_UpdateTimers).
THEOREM ChipTypesHold == ChipSpec => []ChipTypeOK
<1>1. ChipInit => ChipInv /\ ChipReach
  BY ChipStarts, NewInReach, ChipSizes DEF ChipInit, ChipReach
<1>2. (ChipInv /\ ChipReach) /\ [ChipNext]_chipvars => (ChipInv /\ ChipReach)'
  BY ChipStep, ReachStays
<1>3. ChipInv /\ ChipReach => ChipTypeOK
  BY ChipTypesAre
<1> QED BY <1>1, <1>2, <1>3, PTL DEF ChipSpec

-----------------------------------------------------------------------------
(* The five games together, as the bench runs them: one of them moves and the others stand    *)
(* still, so that what each keeps, all keep.                                                   *)

GamesInv == SnakeInv /\ TetrisInv /\ WholeWar(war) /\ BricksInv /\ ChipInv

LEMMA OthersStand ==
  /\ SnakeInv /\ UNCHANGED snakevars => SnakeInv'
  /\ TetrisInv /\ UNCHANGED tetrisvars => TetrisInv'
  /\ WholeWar(war) /\ UNCHANGED war => WholeWar(war)'
  /\ BricksInv /\ UNCHANGED brickvars => BricksInv'
  /\ ChipInv /\ UNCHANGED chipvars => ChipInv'
BY SnakeStep, TetrisStep, WarStep, BricksStep, ChipStep

LEMMA GamesStep == ASSUME GamesInv, [Next]_vars PROVE GamesInv'
<1>0. SnakeInv /\ TetrisInv /\ WholeWar(war) /\ BricksInv /\ ChipInv
  BY DEF GamesInv
<1>1. CASE UNCHANGED gamevars
  BY <1>0, <1>1, OthersStand DEF gamevars, GamesInv
<1>2. CASE SnakeNext /\ UNCHANGED <<tetrisvars, war, brickvars, chipvars>>
  BY <1>0, <1>2, SnakeStep, OthersStand DEF GamesInv
<1>3. CASE TetrisNext /\ UNCHANGED <<snakevars, war, brickvars, chipvars>>
  BY <1>0, <1>3, TetrisStep, OthersStand DEF GamesInv
<1>4. CASE SpaceNext /\ UNCHANGED <<snakevars, tetrisvars, brickvars, chipvars>>
  BY <1>0, <1>4, WarStep, OthersStand DEF GamesInv
<1>5. CASE ArkanoidNext /\ UNCHANGED <<snakevars, tetrisvars, war, chipvars>>
  BY <1>0, <1>5, BricksStep, OthersStand DEF GamesInv
<1>6. CASE ChipNext /\ UNCHANGED <<snakevars, tetrisvars, war, brickvars>>
  BY <1>0, <1>6, ChipStep, OthersStand DEF GamesInv
<1>7. CASE UNCHANGED vars
  BY <1>1, <1>7 DEF vars
<1> QED BY <1>1, <1>2, <1>3, <1>4, <1>5, <1>6, <1>7 DEF Next, Only, OnlyGame

LEMMA GamesAre == ASSUME GamesInv PROVE GamesWhole
BY SnakeIsWhole, TetrisIsWhole, WarIsWhole, ChipIsWhole DEF GamesInv, GamesWhole, BricksInv

\* For every size of the boards, every number of foods, lasers and keys, the games keep their
\* boards whole: the snake is a path off its food and its walls, the falling piece lies apart
\* from the squares that are filled and a clear takes the full lines and no other, the war is
\* won and over for the right reasons, the last block is followed by the victory, a key of
\* the CHIP-8 is down for its hold and no longer than keys of any kind keep coming, and the
\* CHIP-8 returns to where it was called from until it leaves its stack (snake.c, tetris.c,
\* space.c, arkanoid.c, chip.c).
THEOREM GamesAreWhole == Spec => []GamesWhole
<1>1. Init => GamesInv
  <2>1. Init => SnakeInit /\ TetrisInit /\ SpaceInit /\ ArkanoidInit /\ ChipInit
    BY DEF Init
  <2>2. SpaceInit => WholeWar(war)
    BY NewWhole DEF SpaceInit
  <2> QED BY <2>1, <2>2, SnakeBegins, TetrisBegins, BricksStart, ChipStarts DEF GamesInv
<1>2. GamesInv /\ [Next]_vars => GamesInv'
  BY GamesStep
<1>3. GamesInv => GamesWhole
  BY GamesAre
<1> QED BY <1>1, <1>2, <1>3, PTL DEF Spec
-----------------------------------------------------------------------------
(* The bench runs one part and leaves the others where they are, so that what is proved of    *)
(* each part alone holds on the bench.                                                         *)

LEMMA BricksTypesAre == ASSUME BricksInv PROVE ArkanoidTypeOK
BY DEF BricksInv, BricksTypes, ArkanoidTypeOK

\* The snake and the blocks are of their types (snake.c, arkanoid.c).
LEMMA BoardsOfTypes ==
  /\ SnakeSpec => []SnakeTypeOK
  /\ ArkanoidSpec => []ArkanoidTypeOK
<1>1. SnakeInv => SnakeTypeOK
  BY SnakeIsWhole
<1>2. SnakeInv /\ [SnakeNext]_snakevars => SnakeInv'
  BY SnakeStep
<1> QED BY <1>1, <1>2, SnakeBegins, BricksStart, BricksStep, BricksTypesAre, PTL
        DEF SnakeSpec, ArkanoidSpec

LEMMA ProgramSteps ==
  [Next]_vars => /\ [GuiNext]_guivars /\ [MemoNext]_memovars /\ [ListsNext]_listvars
                 /\ [AudioNext]_audiovars /\ [SerialNext]_serialvars
<1> SUFFICES ASSUME [Next]_vars
             PROVE  /\ [GuiNext]_guivars /\ [MemoNext]_memovars /\ [ListsNext]_listvars
                    /\ [AudioNext]_audiovars /\ [SerialNext]_serialvars
  OBVIOUS
<1>1. CASE Only("forms", GuiNext, <<memovars, listvars, audiovars, serialvars, gamevars>>)
  BY <1>1 DEF Only
<1>2. CASE Only("texts", MemoNext, <<guivars, listvars, audiovars, serialvars, gamevars>>)
  BY <1>2 DEF Only
<1>3. CASE Only("lists", ListsNext, <<guivars, memovars, audiovars, serialvars, gamevars>>)
  BY <1>3 DEF Only
<1>4. CASE Only("sound", AudioNext, <<guivars, memovars, listvars, serialvars, gamevars>>)
  BY <1>4 DEF Only
<1>5. CASE Only("serial", SerialNext, <<guivars, memovars, listvars, audiovars, gamevars>>)
  BY <1>5 DEF Only
<1>6. CASE UNCHANGED <<guivars, memovars, listvars, audiovars, serialvars>>
  BY <1>6
<1> QED BY <1>1, <1>2, <1>3, <1>4, <1>5, <1>6 DEF Next, OnlyGame, Only, vars

LEMMA GameSteps ==
  [Next]_vars => /\ [SnakeNext]_snakevars /\ [TetrisNext]_tetrisvars /\ [SpaceNext]_war
                 /\ [ArkanoidNext]_brickvars /\ [ChipNext]_chipvars
<1> SUFFICES ASSUME [Next]_vars
             PROVE  /\ [SnakeNext]_snakevars /\ [TetrisNext]_tetrisvars /\ [SpaceNext]_war
                    /\ [ArkanoidNext]_brickvars /\ [ChipNext]_chipvars
  OBVIOUS
<1>1. CASE UNCHANGED gamevars
  BY <1>1 DEF gamevars
<1>2. CASE OnlyGame("snake", SnakeNext, <<tetrisvars, war, brickvars, chipvars>>)
  BY <1>2 DEF OnlyGame, Only
<1>3. CASE OnlyGame("tetris", TetrisNext, <<snakevars, war, brickvars, chipvars>>)
  BY <1>3 DEF OnlyGame, Only
<1>4. CASE OnlyGame("space", SpaceNext, <<snakevars, tetrisvars, brickvars, chipvars>>)
  BY <1>4 DEF OnlyGame, Only
<1>5. CASE OnlyGame("arkanoid", ArkanoidNext, <<snakevars, tetrisvars, war, chipvars>>)
  BY <1>5 DEF OnlyGame, Only
<1>6. CASE OnlyGame("chip", ChipNext, <<snakevars, tetrisvars, war, brickvars>>)
  BY <1>6 DEF OnlyGame, Only
<1> QED BY <1>1, <1>2, <1>3, <1>4, <1>5, <1>6 DEF Next, Only, vars

\* Forms, texts, lists, sound, serial ports and games each keep to their own specification
\* (libgui.c, TMemo.c, TListView.c, ac97.c, serial.c and the games).
THEOREM UserParts ==
  Spec => /\ GuiSpec /\ MemoSpec /\ ListsSpec /\ AudioSpec /\ SerialSpec
          /\ SnakeSpec /\ TetrisSpec /\ SpaceSpec /\ ArkanoidSpec /\ ChipSpec
<1>1. Init => /\ GuiInit /\ MemoInit /\ ListsInit /\ AudioInit /\ SerialInit
              /\ SnakeInit /\ TetrisInit /\ SpaceInit /\ ArkanoidInit /\ ChipInit
  BY DEF Init
<1> QED BY <1>1, ProgramSteps, GameSteps, PTL
        DEF Spec, GuiSpec, MemoSpec, ListsSpec, AudioSpec, SerialSpec,
            SnakeSpec, TetrisSpec, SpaceSpec, ArkanoidSpec, ChipSpec

\* What runs in ring 3 keeps its types, for any sizes: no more lives, lines, items or frames
\* than there are, and a piece, a caret and an address where they belong.
THEOREM UserTypes == Spec => []UserTypeOK
<1>1. /\ GuiTypeOK /\ MemoTypeOK /\ ListsTypeOK /\ AudioTypeOK /\ SerialTypeOK
      /\ SnakeTypeOK /\ TetrisTypeOK /\ SpaceTypeOK /\ ArkanoidTypeOK /\ ChipTypeOK
      => UserTypeOK
  BY DEF UserTypeOK
<1> QED BY <1>1, UserParts, GuiTypesHold, MemoTypesHold, ListsTypesHold, AudioTypesHold,
           SerialTypesHold, BoardsOfTypes, TetrisTypesHold, SpaceTypesHold, ChipTypesHold, PTL
=============================================================================
