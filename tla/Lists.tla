------------------------------- MODULE Lists -------------------------------
(***************************************************************************)
(* The list with its scroll bar and the rolling choice: sdk/TListView.c,   *)
(* sdk/TScrollBar.c, sdk/TComboBox.c and their part of libgui.c and of     *)
(* gui_set_prop, as gfile.c fills them.  A list and its bar each have a    *)
(* wrapper and a twin, and the twin of the list is scrolled by a callback  *)
(* of the wrapper of the bar.                                              *)
(***************************************************************************)
EXTENDS Integers

CONSTANTS
    FirstItems,   \* LVAllocatedItems of a new list, 32
    LastItems,    \* bound: the items a directory has
    RowsOfList,   \* (Height - 4) / 18
    RollItems     \* the items of a TComboBox, at most 8

ASSUME ListsAssumption == {FirstItems, LastItems, RowsOfList, RollItems} \subseteq Nat \ {0}

VARIABLES
    items,      \* LVItemCount
    room,       \* LVAllocatedItems
    array,      \* the length of the array LVItems really has
    item,       \* LVItemIndex
    bar,        \* wrapper of the bar: Position, Max, PageSize
    twin,       \* twin of the list: ItemCount, ItemIndex, ScrollY, and the array Items points to
    twinbar,    \* twin of the bar: Position, Max, PageSize
    choice,     \* ItemIndex of the rolling choice
    shown,      \* the number its twin shows, 0 before the first item
    choices,    \* its ItemCount
    refused     \* history: realloc failed

listvars == <<items, room, array, item, bar, twin, twinbar, choice, shown, choices, refused>>

EmptyBar == [position |-> 0, max |-> 0, page |-> RowsOfList]

\* GUI_CreateListView and GUI_CreateComboBox.
ListsInit ==
    /\ items = 0 /\ room = FirstItems /\ array = FirstItems /\ item = -1
    /\ bar = EmptyBar /\ twinbar = EmptyBar
    /\ twin = [items |-> 0, item |-> -1, scroll |-> 0, array |-> FirstItems]
    /\ choice = 0 /\ shown = 0 /\ choices = 0
    /\ refused = FALSE

Least(a, b) == IF a <= b THEN a ELSE b
Most(a, b) == IF a >= b THEN a ELSE b

-----------------------------------------------------------------------------
(* The bar, on a view v == [bar, twinbar, twin] *)

\* GUI_ScrollBar_SetPosition, with OnVScrollChange: nothing is sent if nothing moves.
SetPosition(v, p) ==
    LET q == Least(Most(p, 0), v.bar.max)
    IN  IF q = v.bar.position THEN v
        ELSE LET b == [v.bar EXCEPT !.position = q]
             IN  [v EXCEPT !.bar = b, !.twinbar = b, !.twin.scroll = q]

\* GUI_ScrollBar_SetRange.
SetRange(v, max, page) ==
    LET w == [v EXCEPT !.bar.max = Most(max, 0), !.bar.page = Most(page, 1),
                       !.twinbar.max = Most(max, 0), !.twinbar.page = Most(page, 1)]
    IN  IF w.bar.position > w.bar.max THEN SetPosition(w, w.bar.max) ELSE w

View == [bar |-> bar, twinbar |-> twinbar, twin |-> twin]
Views(v) == bar' = v.bar /\ twinbar' = v.twinbar /\ twin' = v.twin

Overflow(n) == IF n > RowsOfList THEN n - RowsOfList ELSE 0

-----------------------------------------------------------------------------
(* The list *)

\* GUI_ListView_AddItem: the room is doubled before realloc is known to succeed.
AddsItem ==
    /\ items < LastItems
    /\ \/ /\ items < room
          /\ UNCHANGED <<room, array>>
       \/ /\ items >= room
          /\ room' = 2 * room /\ array' = 2 * room
    /\ items' = items + 1
    /\ Views(SetRange([View EXCEPT !.twin.items = items + 1, !.twin.array = array'],
                      Overflow(items + 1), Least(RowsOfList, items + 1)))
    /\ UNCHANGED <<item, choice, shown, choices, refused>>

AddFails ==
    /\ items < LastItems /\ items >= room
    /\ room' = 2 * room
    /\ refused' = TRUE
    /\ UNCHANGED <<items, array, item, bar, twin, twinbar, choice, shown, choices>>

\* Mutant: the bar stays where it was.
BadClearsList ==
    /\ items' = 0 /\ item' = -1
    /\ Views([View EXCEPT !.twin.items = 0, !.twin.item = -1, !.bar.max = 0, !.twinbar.max = 0])
    /\ UNCHANGED <<room, array, choice, shown, choices, refused>>

\* GUI_ListView_Clear, which Carregar_Diretorio of gfile.c calls before it fills the list.
ClearsList ==
    /\ items' = 0 /\ item' = -1
    /\ Views(SetRange(SetPosition([View EXCEPT !.twin.items = 0, !.twin.item = -1], 0),
                      0, RowsOfList))
    /\ UNCHANGED <<room, array, choice, shown, choices, refused>>

\* GUI_ProcessMouseClick on a row: an empty row selects the last item, and an empty list -1.
SelectsRow(r) ==
    LET i == Least(r + twin.scroll, twin.items - 1)
    IN  /\ item' = i
        /\ twin' = [twin EXCEPT !.item = i]
        /\ UNCHANGED <<items, room, array, bar, twinbar, choice, shown, choices, refused>>

\* GUI_ProcessMouseClick on a half of the bar: a page.
ClicksHalf(up) ==
    /\ Views(SetPosition(View, IF up THEN bar.position - bar.page ELSE bar.position + bar.page))
    /\ UNCHANGED <<items, room, array, item, choice, shown, choices, refused>>

-----------------------------------------------------------------------------
(* The rolling choice *)

\* GUI_ComboBox_AddItem: the first item is shown.
AddsChoice ==
    /\ choices < RollItems
    /\ choices' = choices + 1
    /\ choice' = IF choices = 0 THEN 0 ELSE choice
    /\ shown' = IF choices = 0 THEN 1 ELSE shown
    /\ UNCHANGED <<items, room, array, item, bar, twin, twinbar, refused>>

\* GUI_ComboBox_Rotate and GUI_ComboBox_UpdateKernelText.
Rotates ==
    /\ choices > 0
    /\ choice' = (choice + 1) % choices
    /\ shown' = choice' + 1
    /\ UNCHANGED <<items, room, array, item, bar, twin, twinbar, choices, refused>>

ListsNext ==
    \/ AddsItem \/ AddFails \/ ClearsList
    \/ \E r \in 0 .. RowsOfList - 1 : SelectsRow(r)
    \/ \E up \in BOOLEAN : ClicksHalf(up)
    \/ AddsChoice \/ Rotates

ListsSpec == ListsInit /\ [][ListsNext]_listvars

-----------------------------------------------------------------------------
(* Properties *)

ListsTypeOK ==
    /\ items \in 0 .. LastItems /\ twin.items \in 0 .. LastItems
    /\ {room, array} \subseteq Nat \ {0}
    /\ item \in -1 .. LastItems
    /\ choice \in 0 .. RollItems /\ shown \in 0 .. RollItems /\ choices \in 0 .. RollItems
    /\ refused \in BOOLEAN

\* What the twins draw is what the wrappers hold, through every order of filling, clearing,
\* selecting and scrolling: the bar, the list and the choice; the list is never scrolled
\* beyond its last page, and the selected item is one the list has.
ListsTrue ==
    /\ twinbar = bar
    /\ twin = [items |-> items, item |-> item, scroll |-> bar.position, array |-> array]
    /\ bar.position \in 0 .. bar.max /\ bar.max = Overflow(items)
    /\ item \in -1 .. items - 1
    /\ choices > 0 => choice < choices /\ shown = choice + 1

\* The items fit in the array as long as no realloc failed: after one, the doubled room is
\* believed, and the next item is written past the end (GUI_ListView_AddItem).
ItemsFit == ~refused => items <= array

\* Both (TListView.c, TScrollBar.c, TComboBox.c).
ListsHold == ListsTrue /\ ItemsFit
=============================================================================
