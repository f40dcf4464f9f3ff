--------------------------- MODULE Desktop_proofs ---------------------------
(***************************************************************************)
(* The safety properties of Desktop, for any number of slots and programs: *)
(* types, the lock, the owners of the slots, the stack and the focus, and  *)
(* what the mouse holds.                                                   *)
(***************************************************************************)
EXTENDS Desktop, TLAPS

\* Every slot is somewhere in the explorer's stack.
Stacked == \A s \in Slots : \E i \in Slots : z[i] = s

\* A program in its loop, or filling its slot in, has one; whoever is about to
\* write a slot has it from an earlier read.
HasSlot(p) ==
  \/ step[p] \in {"run", "read", "work", "aimed", "half", "found", "closing", "leaving"}
  \/ phase[p] = "fill"

Aimed(p) == step[p] \in {"aimed", "half", "found"}

Placed ==
  /\ \A p \in Apps : HasSlot(p) => slot[p] \in Slots
  /\ \A p \in Apps : Aimed(p) => target[p] \in Slots
  /\ phase[Explorer] \in {"send", "half"} => focus \in Slots /\ step[Explorer] = "key"

TypeInv == TypeOK /\ Stacked /\ Placed

USE DesktopAssumption DEF Slots, Users

-----------------------------------------------------------------------------
(***************************************************************************)
(* The stack.                                                              *)
(***************************************************************************)

\* Place finds the slot.
LEMMA PlaceIsPlace ==
  ASSUME Stacked, NEW s \in Slots
  PROVE  Place(s) \in Slots /\ z[Place(s)] = s
BY DEF Stacked, Place

\* bring_to_front leaves a stack with the same slots and s at the top.
LEMMA FrontPermutes ==
  ASSUME TypeOK, Stacked, NEW s \in Slots
  PROVE  /\ Front(s) \in [Slots -> Slots]
         /\ Front(s)[Last] = s
         /\ \A i, j \in Slots : Front(s)[i] = Front(s)[j] => i = j
         /\ \A t \in Slots : \E i \in Slots : Front(s)[i] = t
<1> DEFINE k == Place(s)
<1> DEFINE g(i) == IF i < k THEN i ELSE IF i < Last THEN i + 1 ELSE k
<1>1. k \in Slots /\ z[k] = s
  BY PlaceIsPlace
<1>2. /\ z \in [Slots -> Slots]
      /\ \A i, j \in Slots : z[i] = z[j] => i = j
  BY DEF TypeOK
<1>3. Front(s) = [i \in Slots |-> IF i < k THEN z[i] ELSE IF i < Last THEN z[i + 1] ELSE s]
  BY DEF Front
<1> HIDE DEF k
<1>4. \A i \in Slots : g(i) \in Slots /\ Front(s)[i] = z[g(i)]
  BY <1>1, <1>2, <1>3
<1>5. \A i, j \in Slots : g(i) = g(j) => i = j
  BY <1>1
<1>6. \A j \in Slots : \E i \in Slots : g(i) = j
  <2> TAKE j \in Slots
  <2>1. CASE j < k
    <3> WITNESS j \in Slots
    <3> QED BY <2>1
  <2>2. CASE j = k
    <3> WITNESS Last \in Slots
    <3> QED BY <2>2, <1>1
  <2>3. CASE j > k
    <3>1. j - 1 \in Slots /\ g(j - 1) = j
      BY <2>3, <1>1
    <3> QED BY <3>1
  <2> QED BY <2>1, <2>2, <2>3, <1>1
<1>7. Front(s)[Last] = s
  BY <1>1, <1>3
<1>8. Front(s) \in [Slots -> Slots]
  BY <1>2, <1>3, <1>4
<1> HIDE DEF g
<1>9. \A i, j \in Slots : Front(s)[i] = Front(s)[j] => i = j
  BY <1>2, <1>4, <1>5
<1>10. \A t \in Slots : \E i \in Slots : Front(s)[i] = t
  <2> TAKE t \in Slots
  <2>1. PICK j \in Slots : z[j] = t
    BY DEF Stacked
  <2>2. PICK i \in Slots : g(i) = j
    BY <1>6
  <2> QED BY <2>1, <2>2, <1>4
<1> QED BY <1>7, <1>8, <1>9, <1>10

-----------------------------------------------------------------------------
(***************************************************************************)
(* Types.                                                                  *)
(***************************************************************************)

LEMMA WordTypes ==
  /\ Zero \in Words /\ One \in Words
  /\ Lock \in 1..Lock
  /\ \A s \in Slots : s \in 1..Lock /\ s # Lock /\ Mailbox(s) \in 1..Lock
BY DEF Zero, One, Words, Lock, Mailbox

LEMMA PageTypes ==
  ASSUME TypeOK, NEW s \in Slots
  PROVE  /\ KeyPut(s) \in [1..Lock -> Words]
         /\ FlagPut(s) \in [1..Lock -> Words]
         /\ FlagTaken(s) \in [1..Lock -> Words]
<1>1. word \in [1..Lock -> Words] /\ Mailbox(s) \in 1..Lock
  BY WordTypes DEF TypeOK
<1>2. KeyPut(s) \in [1..Lock -> Words]
  BY <1>1 DEF KeyPut, Words
<1>3. FlagPut(s) \in [1..Lock -> Words]
  BY <1>1 DEF FlagPut, Words
<1>4. FlagTaken(s) \in [1..Lock -> Words]
  BY <1>1 DEF FlagTaken, Words
<1> QED BY <1>2, <1>3, <1>4

LEMMA TypeInit == Init => TypeInv
<1> SUFFICES ASSUME Init PROVE TypeInv
  OBVIOUS
<1>1. TypeOK
  BY WordTypes DEF Init, TypeOK, Steps, Sections
<1>2. Stacked
  BY DEF Init, Stacked
<1>3. Placed
  BY DEF Init, Placed, HasSlot, Aimed
<1> QED BY <1>1, <1>2, <1>3 DEF TypeInv

LEMMA TypeStep == TypeInv /\ [Next]_vars => TypeInv'
<1> SUFFICES ASSUME TypeInv, [Next]_vars PROVE TypeInv'
  OBVIOUS
<1> USE DEF TypeInv
<1>0. CASE UNCHANGED vars
  BY <1>0 DEF vars, mouse, TypeOK, Stacked, Placed, HasSlot, Aimed
<1>1. ASSUME NEW u \in Users, Wants(u) PROVE TypeInv'
  <2>1. TypeOK'
    BY <1>1, WordTypes DEF Wants, Locks, Enter, TypeOK, mouse, Sections
  <2>2. Stacked' /\ Placed'
    <3>1. Stacked'
      BY <1>1 DEF Wants, Locks, mouse, Stacked
    <3>2. Placed'
      BY <1>1 DEF Wants, Locks, Enter, TypeOK, mouse, Placed, HasSlot, Aimed
    <3> QED BY <3>1, <3>2
  <2> QED BY <2>1, <2>2
<1>2. CASE PollsKeyboard
  <2>1. PICK x \in {"key", "sweep"} : Goto(Explorer, x)
    BY <1>2 DEF PollsKeyboard
  <2>2. TypeOK'
    BY <1>2, <2>1 DEF PollsKeyboard, Goto, TypeOK, Steps, Sections, mouse
  <2>3. Stacked' /\ Placed'
    <3>1. Stacked'
      BY <1>2, <2>1 DEF PollsKeyboard, mouse, Stacked
    <3>2. Placed'
      BY <1>2, <2>1 DEF PollsKeyboard, At, Goto, TypeOK, mouse, Placed, HasSlot, Aimed
    <3> QED BY <3>1, <3>2
  <2> QED BY <2>2, <2>3
<1>3. CASE RoutesKey
  <2>1. TypeOK'
    <3>1. CASE Enter(Explorer, "send") /\ UNCHANGED word
      BY <1>3, <3>1 DEF RoutesKey, Enter, TypeOK, mouse
    <3>2. CASE Leaves(Explorer, "sweep", word)
      BY <1>3, <3>2, WordTypes DEF RoutesKey, Leaves, TypeOK, Steps, Sections, mouse
    <3> QED BY <1>3, <3>1, <3>2 DEF RoutesKey
  <2>2. Stacked' /\ Placed'
    <3>1. Stacked'
      BY <1>3 DEF RoutesKey, mouse, Stacked
    <3>2. Placed'
      BY <1>3 DEF RoutesKey, At, Enter, Leaves, TypeOK, mouse, Placed, HasSlot, Aimed
    <3> QED BY <3>1, <3>2
  <2> QED BY <2>1, <2>2
<1>4. CASE PutsKey
  <2>1. focus \in Slots
    BY <1>4 DEF PutsKey, At, Placed
  <2>2. TypeOK'
    BY <1>4, <2>1, PageTypes DEF PutsKey, At, Enter, TypeOK, mouse
  <2>3. Stacked' /\ Placed'
    <3>1. Stacked'
      BY <1>4, <2>1 DEF PutsKey, mouse, Stacked
    <3>2. Placed'
      BY <1>4, <2>1 DEF PutsKey, At, Enter, TypeOK, mouse, Placed, HasSlot, Aimed
    <3> QED BY <3>1, <3>2
  <2> QED BY <2>2, <2>3
<1>5. CASE PutsFlag
  <2>1. focus \in Slots
    BY <1>5 DEF PutsFlag, At, Placed
  <2>2. TypeOK'
    BY <1>5, <2>1, PageTypes, WordTypes DEF PutsFlag, At, Leaves, TypeOK, Steps, Sections, mouse
  <2>3. Stacked' /\ Placed'
    <3>1. Stacked'
      BY <1>5, <2>1 DEF PutsFlag, mouse, Stacked
    <3>2. Placed'
      BY <1>5, <2>1 DEF PutsFlag, At, Leaves, TypeOK, mouse, Placed, HasSlot, Aimed
    <3> QED BY <3>1, <3>2
  <2> QED BY <2>2, <2>3
<1>6. CASE Sweeps
  <2>1. TypeOK'
    BY <1>6, WordTypes DEF Sweeps, Leaves, TypeOK, Steps, Sections
  <2>2. Stacked' /\ Placed'
    <3>1. Stacked'
      BY <1>6 DEF Sweeps, Stacked
    <3>2. Placed'
      BY <1>6 DEF Sweeps, Leaves, At, TypeOK, Placed, HasSlot, Aimed
    <3> QED BY <3>1, <3>2
  <2> QED BY <2>1, <2>2
<1>7. CASE Presses
  <2>1. PICK x \in {"click", "draw"} : Goto(Explorer, x)
    BY <1>7 DEF Presses
  <2>2. TypeOK'
    BY <1>7, <2>1 DEF Presses, Goto, TypeOK, Steps, Sections
  <2>3. Stacked' /\ Placed'
    <3>1. Stacked'
      BY <1>7, <2>1 DEF Presses, Stacked
    <3>2. Placed'
      BY <1>7, <2>1 DEF Presses, At, Goto, TypeOK, Placed, HasSlot, Aimed
    <3> QED BY <3>1, <3>2
  <2> QED BY <2>2, <2>3
<1>8. CASE Holds
  <2>1. TypeOK'
    BY <1>8 DEF Holds, At, Goto, TypeOK, Steps, Sections, mouse
  <2>2. Stacked'
    BY <1>8 DEF Holds, mouse, Stacked
  <2>3. Placed'
    BY <1>8 DEF Holds, At, Goto, TypeOK, mouse, Placed, HasSlot, Aimed
  <2> QED BY <2>1, <2>2, <2>3
<1>9. CASE Releases
  <2>1. TypeOK'
    BY <1>9 DEF Releases, Released, At, Goto, TypeOK, Steps, Sections
  <2>2. Stacked'
    BY <1>9 DEF Releases, Released, Stacked
  <2>3. Placed'
    BY <1>9 DEF Releases, Released, At, Goto, TypeOK, Placed, HasSlot, Aimed
  <2> QED BY <2>1, <2>2, <2>3
<1>10. CASE Clicks
  <2>1. /\ UNCHANGED <<owner, held, slot, target>>
        /\ At(Explorer, "click", "in")
    BY <1>10 DEF Clicks
  <2>2. CASE Leaves(Explorer, "draw", word) /\ UNCHANGED <<click, focus, z, drag, clicked>>
    BY <2>1, <2>2, WordTypes
       DEF At, Leaves, TypeOK, Steps, Sections, Stacked, Placed, HasSlot, Aimed
  <2>3. ASSUME NEW s \in Slots, NEW region, ClicksOn(s, region) PROVE TypeInv'
    <3>1. PICK w \in [1..Lock -> Words] : Leaves(Explorer, "draw", w)
      BY <2>3, WordTypes DEF ClicksOn, TypeOK
    <3>2. /\ focus' \in Slots \cup {NoSlot}
          /\ z' = z \/ z' = Front(s)
          /\ click' \in [Slots -> BOOLEAN]
          /\ drag' \in Slots \cup {NoSlot}
          /\ clicked' \in Slots \cup {NoSlot}
      BY <2>3 DEF ClicksOn, TypeOK
    <3>3. /\ z' \in [Slots -> Slots]
          /\ \A i, j \in Slots : z'[i] = z'[j] => i = j
          /\ Stacked'
      <4>1. CASE z' = z
        BY <4>1 DEF TypeOK, Stacked
      <4>2. CASE z' = Front(s)
        <5>1. /\ Front(s) \in [Slots -> Slots]
              /\ \A i, j \in Slots : Front(s)[i] = Front(s)[j] => i = j
              /\ \A t \in Slots : \E i \in Slots : Front(s)[i] = t
          BY FrontPermutes
        <5> QED BY <4>2, <5>1 DEF Stacked
      <4> QED BY <3>2, <4>1, <4>2
    <3>4. TypeOK'
      BY <2>1, <3>1, <3>2, <3>3, WordTypes DEF Leaves, At, TypeOK, Steps, Sections
    <3>5. Placed'
      BY <2>1, <3>1 DEF Leaves, At, TypeOK, Placed, HasSlot, Aimed
    <3> QED BY <3>3, <3>4, <3>5
  <2> QED BY <1>10, <2>2, <2>3 DEF Clicks, TopOf
<1>11. CASE Drags
  <2>1. TypeOK'
    BY <1>11, WordTypes DEF Drags, Leaves, TypeOK, Steps, Sections, mouse
  <2>2. Stacked' /\ Placed'
    <3>1. Stacked'
      BY <1>11 DEF Drags, mouse, Stacked
    <3>2. Placed'
      BY <1>11 DEF Drags, Leaves, At, TypeOK, mouse, Placed, HasSlot, Aimed
    <3> QED BY <3>1, <3>2
  <2> QED BY <2>1, <2>2
<1>12. CASE Draws
  <2>1. TypeOK'
    BY <1>12, WordTypes DEF Draws, Leaves, TypeOK, Steps, Sections, mouse
  <2>2. Stacked' /\ Placed'
    <3>1. Stacked'
      BY <1>12 DEF Draws, mouse, Stacked
    <3>2. Placed'
      BY <1>12 DEF Draws, Leaves, At, TypeOK, mouse, Placed, HasSlot, Aimed
    <3> QED BY <3>1, <3>2
  <2> QED BY <2>1, <2>2
<1>13. ASSUME NEW p \in Apps, Starts(p) PROVE TypeInv'
  <2>1. TypeOK'
    BY <1>13 DEF Starts, Goto, TypeOK, Steps, Sections, mouse
  <2>2. Stacked'
    BY <1>13 DEF Starts, mouse, Stacked
  <2>3. Placed'
    BY <1>13 DEF Starts, Goto, TypeOK, mouse, Placed, HasSlot, Aimed
  <2> QED BY <2>1, <2>2, <2>3
<1>14. ASSUME NEW p \in Apps, TakesSlot(p) PROVE TypeInv'
  <2>1. UNCHANGED <<focus, z, mouse, target>> /\ At(p, "register", "in")
    BY <1>14 DEF TakesSlot
  <2>2. CASE Leaves(p, "gone", word) /\ UNCHANGED <<owner, click, slot>>
    <3>1. TypeOK'
      BY <2>1, <2>2, WordTypes DEF Leaves, TypeOK, Steps, Sections, mouse
    <3>2. Stacked' /\ Placed'
      <4>1. Stacked'
        BY <2>1, <2>2 DEF mouse, Stacked
      <4>2. Placed'
        BY <2>1, <2>2 DEF Leaves, At, TypeOK, mouse, Placed, HasSlot, Aimed
      <4> QED BY <4>1, <4>2
    <3> QED BY <3>1, <3>2
  <2>3. ASSUME NEW s \in Slots,
               slot' = [slot EXCEPT ![p] = s],
               owner' = [owner EXCEPT ![s] = p],
               click' = [click EXCEPT ![s] = FALSE],
               Enter(p, "fill"), UNCHANGED word
        PROVE  TypeInv'
    <3>1. TypeOK'
      BY <2>1, <2>3 DEF Enter, TypeOK, mouse
    <3>2. Stacked' /\ Placed'
      <4>1. Stacked'
        BY <2>1, <2>3 DEF mouse, Stacked
      <4>2. Placed'
        BY <2>1, <2>3 DEF Enter, At, TypeOK, mouse, Placed, HasSlot, Aimed
      <4> QED BY <4>1, <4>2
    <3> QED BY <3>1, <3>2
  <2> QED BY <1>14, <2>2, <2>3 DEF TakesSlot
<1>15. ASSUME NEW p \in Apps, Activates(p) PROVE TypeInv'
  <2>1. slot[p] \in Slots
    BY <1>15 DEF Activates, At, Placed, HasSlot
  <2>2. TypeOK'
    BY <1>15, <2>1, WordTypes DEF Activates, At, Leaves, TypeOK, Steps, Sections, mouse
  <2>3. Stacked' /\ Placed'
    <3>1. Stacked'
      BY <1>15, <2>1 DEF Activates, mouse, Stacked
    <3>2. Placed'
      BY <1>15, <2>1 DEF Activates, At, Leaves, TypeOK, mouse, Placed, HasSlot, Aimed
    <3> QED BY <3>1, <3>2
  <2> QED BY <2>2, <2>3
<1>16. ASSUME NEW p \in Apps, LooksAtSlot(p) PROVE TypeInv'
  <2>1. TypeOK'
    BY <1>16 DEF LooksAtSlot, Goto, TypeOK, Steps, Sections, mouse
  <2>2. Stacked'
    BY <1>16 DEF LooksAtSlot, mouse, Stacked
  <2>3. Placed'
    BY <1>16 DEF LooksAtSlot, Goto, TypeOK, mouse, Placed, HasSlot, Aimed
  <2> QED BY <2>1, <2>2, <2>3
<1>17. ASSUME NEW p \in Apps, ReadsMailbox(p) PROVE TypeInv'
  <2>1. slot[p] \in Slots
    BY <1>17 DEF ReadsMailbox, Placed, HasSlot
  <2>2. TypeOK'
    <3>1. word' \in [1..Lock -> Words]
      <4>1. FlagTaken(slot[p]) \in [1..Lock -> Words]
        BY <2>1, PageTypes
      <4> QED BY <1>17, <4>1 DEF ReadsMailbox, TypeOK
    <3> QED BY <1>17, <3>1 DEF ReadsMailbox, Goto, TypeOK, Steps, Sections, mouse
  <2>3. Stacked' /\ Placed'
    <3>1. Stacked'
      BY <1>17, <2>1 DEF ReadsMailbox, mouse, Stacked
    <3>2. Placed'
      BY <1>17, <2>1 DEF ReadsMailbox, Goto, TypeOK, mouse, Placed, HasSlot, Aimed
    <3> QED BY <3>1, <3>2
  <2> QED BY <2>2, <2>3
<1>18. ASSUME NEW p \in Apps, Works(p) PROVE TypeInv'
  <2>1. TypeOK'
    BY <1>18 DEF Works, Goto, TypeOK, Steps, Sections, mouse
  <2>2. Stacked'
    BY <1>18 DEF Works, mouse, Stacked
  <2>3. Placed'
    BY <1>18 DEF Works, Goto, TypeOK, mouse, Placed, HasSlot, Aimed
  <2> QED BY <2>1, <2>2, <2>3
<1>19. ASSUME NEW p \in Apps, Aims(p) PROVE TypeInv'
  <2>1. focus \in Slots /\ target' = [target EXCEPT ![p] = focus]
    BY <1>19 DEF Aims, TypeOK
  <2>2. step[p] = "work" /\ Goto(p, "aimed")
        /\ UNCHANGED <<word, owner, click, focus, z, mouse, slot>>
    BY <1>19 DEF Aims
  <2>3. TypeOK'
    BY <2>1, <2>2 DEF Goto, TypeOK, Steps, mouse
  <2>4. Stacked'
    BY <2>2 DEF Stacked
  <2>5. Placed'
    BY <2>1, <2>2 DEF Goto, TypeOK, Placed, HasSlot, Aimed
  <2> QED BY <2>3, <2>4, <2>5
<1>20. ASSUME NEW p \in Apps, SendsKey(p) PROVE TypeInv'
  <2>1. slot[p] \in Slots /\ target[p] \in Slots
    BY <1>20 DEF SendsKey, Placed, HasSlot, Aimed
  <2>2. TypeOK'
    BY <1>20, <2>1, PageTypes DEF SendsKey, Goto, TypeOK, Steps, Sections, mouse
  <2>3. Stacked' /\ Placed'
    <3>1. Stacked'
      BY <1>20, <2>1 DEF SendsKey, mouse, Stacked
    <3>2. Placed'
      BY <1>20, <2>1 DEF SendsKey, Goto, TypeOK, mouse, Placed, HasSlot, Aimed
    <3> QED BY <3>1, <3>2
  <2> QED BY <2>2, <2>3
<1>21. ASSUME NEW p \in Apps, SendsFlag(p) PROVE TypeInv'
  <2>1. slot[p] \in Slots /\ target[p] \in Slots
    BY <1>21 DEF SendsFlag, Placed, HasSlot, Aimed
  <2>2. TypeOK'
    BY <1>21, <2>1, PageTypes DEF SendsFlag, Goto, TypeOK, Steps, Sections, mouse
  <2>3. Stacked' /\ Placed'
    <3>1. Stacked'
      BY <1>21, <2>1 DEF SendsFlag, mouse, Stacked
    <3>2. Placed'
      BY <1>21, <2>1 DEF SendsFlag, Goto, TypeOK, mouse, Placed, HasSlot, Aimed
    <3> QED BY <3>1, <3>2
  <2> QED BY <2>2, <2>3
<1>22. ASSUME NEW p \in Apps, Finds(p) PROVE TypeInv'
  <2>1. PICK s \in Slots : target' = [target EXCEPT ![p] = s]
    BY <1>22 DEF Finds
  <2>2. step[p] = "work" /\ Goto(p, "found")
        /\ UNCHANGED <<word, owner, click, focus, z, mouse, slot>>
    BY <1>22 DEF Finds
  <2>3. TypeOK'
    BY <2>1, <2>2 DEF Goto, TypeOK, Steps, mouse
  <2>4. Stacked'
    BY <2>2 DEF Stacked
  <2>5. Placed'
    BY <2>1, <2>2 DEF Goto, TypeOK, Placed, HasSlot, Aimed
  <2> QED BY <2>3, <2>4, <2>5
<1>23. ASSUME NEW p \in Apps, Ends(p) PROVE TypeInv'
  <2>1. slot[p] \in Slots /\ target[p] \in Slots
    BY <1>23 DEF Ends, Placed, HasSlot, Aimed
  <2>2. TypeOK'
    BY <1>23, <2>1, WordTypes DEF Ends, Goto, TypeOK, Steps, Sections, mouse
  <2>3. Stacked' /\ Placed'
    <3>1. Stacked'
      BY <1>23, <2>1 DEF Ends, mouse, Stacked
    <3>2. Placed'
      BY <1>23, <2>1 DEF Ends, Goto, TypeOK, mouse, Placed, HasSlot, Aimed
    <3> QED BY <3>1, <3>2
  <2> QED BY <2>2, <2>3
<1>24. ASSUME NEW p \in Apps, Closes(p) PROVE TypeInv'
  <2>1. slot[p] \in Slots
    BY <1>24 DEF Closes, Placed, HasSlot
  <2>2. TypeOK'
    BY <1>24, <2>1, WordTypes DEF Closes, Goto, TypeOK, Steps, Sections, mouse
  <2>3. Stacked' /\ Placed'
    <3>1. Stacked'
      BY <1>24, <2>1 DEF Closes, mouse, Stacked
    <3>2. Placed'
      BY <1>24, <2>1 DEF Closes, Goto, TypeOK, mouse, Placed, HasSlot, Aimed
    <3> QED BY <3>1, <3>2
  <2> QED BY <2>2, <2>3
<1>25. ASSUME NEW p \in Apps, Exits(p) PROVE TypeInv'
  <2>1. TypeOK'
    BY <1>25 DEF Exits, Goto, TypeOK, Steps, Sections, mouse
  <2>2. Stacked'
    BY <1>25 DEF Exits, mouse, Stacked
  <2>3. Placed'
    BY <1>25 DEF Exits, Goto, TypeOK, mouse, Placed, HasSlot, Aimed
  <2> QED BY <2>1, <2>2, <2>3
<1>26. ASSUME NEW p \in Apps, Dies(p) PROVE TypeInv'
  <2>1. TypeOK'
    BY <1>26 DEF Dies, Goto, TypeOK, Steps, mouse
  <2>2. Stacked' /\ Placed'
    <3>1. Stacked'
      BY <1>26 DEF Dies, mouse, Stacked
    <3>2. Placed'
      BY <1>26 DEF Dies, Goto, TypeOK, mouse, Placed, HasSlot, Aimed
    <3> QED BY <3>1, <3>2
  <2> QED BY <2>1, <2>2
<1> QED
  BY <1>0, <1>1, <1>2, <1>3, <1>4, <1>5, <1>6, <1>7, <1>8, <1>9, <1>10, <1>11, <1>12,
     <1>13, <1>14, <1>15, <1>16, <1>17, <1>18, <1>19, <1>20, <1>21, <1>22, <1>23, <1>24, <1>25, <1>26
     DEF Next, ExplorerStep, AppStep

\* The types of the page, and a stack that holds every slot exactly once.
THEOREM TypeCorrect == Spec => []TypeOK
<1>1. TypeInv => TypeOK
  BY DEF TypeInv
<1> QED BY TypeInit, TypeStep, <1>1, PTL DEF Spec

-----------------------------------------------------------------------------
(***************************************************************************)
(* The lock.                                                               *)
(***************************************************************************)

\* A step of the program with regard to the lock: u takes it, u leaves it, or
\* everybody stays in or out and, if its low byte is not 0, it is not made 0.
Takes(u) ==
  /\ word[Lock] = Zero /\ word'[Lock] = One
  /\ phase' = [phase EXCEPT ![u] = "in"]

Unlocks(u) ==
  /\ Inside(u)
  /\ phase' = [phase EXCEPT ![u] = "out"]

KeepsLock ==
  /\ \A u \in Users : Inside(u)' <=> Inside(u)
  /\ word[Lock].low # "0" => word'[Lock].low # "0"

LEMMA WordsOff ==
  ASSUME TypeOK, NEW s \in Slots
  PROVE  /\ word[Lock].low # "0" => KeyPut(s)[Lock].low # "0"
         /\ FlagPut(s)[Lock].low = word[Lock].low
         /\ FlagTaken(s)[Lock].low = word[Lock].low
         /\ \A w \in Words : [word EXCEPT ![s] = w][Lock] = word[Lock]
BY WordTypes DEF TypeOK, KeyPut, FlagPut, FlagTaken, Words, Lock, Mailbox

LEMMA LockMoves ==
  ASSUME TypeInv, [Next]_vars
  PROVE  KeepsLock \/ \E u \in Users : Takes(u) \/ Unlocks(u)
<1> USE DEF TypeInv
<1>0. CASE UNCHANGED vars
  BY <1>0 DEF vars, KeepsLock, Inside
<1>1. ASSUME NEW u \in Users, Wants(u) PROVE KeepsLock \/ Takes(u)
  <2>1. CASE word[Lock] = Zero
    BY <1>1, <2>1, WordTypes DEF Wants, Locks, Enter, Takes, TypeOK
  <2>2. CASE word[Lock] # Zero
    BY <1>1, <2>2, WordTypes DEF Wants, Locks, KeepsLock, Inside, One, TypeOK
  <2> QED BY <2>1, <2>2
<1>2. CASE PollsKeyboard
  BY <1>2 DEF PollsKeyboard, Goto, KeepsLock, Inside
<1>3. CASE RoutesKey
  <2>1. CASE Leaves(Explorer, "sweep", word)
    BY <1>3, <2>1 DEF RoutesKey, At, Leaves, Unlocks, Inside
  <2>2. CASE Enter(Explorer, "send") /\ UNCHANGED word
    BY <1>3, <2>2 DEF RoutesKey, At, Enter, KeepsLock, Inside, TypeOK
  <2> QED BY <1>3, <2>1, <2>2 DEF RoutesKey
<1>4. CASE PutsKey
  <2>1. focus \in Slots
    BY <1>4 DEF PutsKey, At, Placed
  <2> QED BY <1>4, <2>1, WordsOff DEF PutsKey, At, Enter, KeepsLock, Inside, TypeOK
<1>5. CASE PutsFlag
  BY <1>5 DEF PutsFlag, At, Leaves, Unlocks, Inside
<1>6. CASE Sweeps
  BY <1>6 DEF Sweeps, At, Leaves, Unlocks, Inside
<1>7. CASE Presses
  BY <1>7 DEF Presses, Goto, KeepsLock, Inside
<1>8. CASE Holds
  BY <1>8 DEF Holds, Goto, KeepsLock, Inside
<1>9. CASE Releases
  BY <1>9 DEF Releases, Goto, KeepsLock, Inside
<1>10. CASE Clicks
  BY <1>10 DEF Clicks, ClicksOn, At, Leaves, Unlocks, Inside
<1>11. CASE Drags
  BY <1>11 DEF Drags, At, Leaves, Unlocks, Inside
<1>12. CASE Draws
  BY <1>12 DEF Draws, At, Leaves, Unlocks, Inside
<1>13. ASSUME NEW p \in Apps, Starts(p) PROVE KeepsLock
  BY <1>13 DEF Starts, Goto, KeepsLock, Inside
<1>14. ASSUME NEW p \in Apps, TakesSlot(p) PROVE KeepsLock \/ Unlocks(p)
  <2>1. CASE Leaves(p, "gone", word)
    BY <1>14, <2>1 DEF TakesSlot, At, Leaves, Unlocks, Inside
  <2>2. CASE Enter(p, "fill") /\ UNCHANGED word
    BY <1>14, <2>2 DEF TakesSlot, At, Enter, KeepsLock, Inside, TypeOK
  <2> QED BY <1>14, <2>1, <2>2 DEF TakesSlot
<1>15. ASSUME NEW p \in Apps, Activates(p) PROVE Unlocks(p)
  BY <1>15 DEF Activates, At, Leaves, Unlocks, Inside
<1>16. ASSUME NEW p \in Apps, LooksAtSlot(p) PROVE KeepsLock
  BY <1>16 DEF LooksAtSlot, Goto, KeepsLock, Inside
<1>17. ASSUME NEW p \in Apps, ReadsMailbox(p) PROVE KeepsLock
  <2>1. slot[p] \in Slots
    BY <1>17 DEF ReadsMailbox, Placed, HasSlot
  <2> QED BY <1>17, <2>1, WordsOff DEF ReadsMailbox, Goto, KeepsLock, Inside
<1>18. ASSUME NEW p \in Apps, Works(p) PROVE KeepsLock
  BY <1>18 DEF Works, Goto, KeepsLock, Inside
<1>19. ASSUME NEW p \in Apps, Aims(p) PROVE KeepsLock
  BY <1>19 DEF Aims, Goto, KeepsLock, Inside
<1>20. ASSUME NEW p \in Apps, SendsKey(p) PROVE KeepsLock
  <2>1. target[p] \in Slots
    BY <1>20 DEF SendsKey, Placed, Aimed
  <2> QED BY <1>20, <2>1, WordsOff DEF SendsKey, Goto, KeepsLock, Inside
<1>21. ASSUME NEW p \in Apps, SendsFlag(p) PROVE KeepsLock
  <2>1. target[p] \in Slots
    BY <1>21 DEF SendsFlag, Placed, Aimed
  <2> QED BY <1>21, <2>1, WordsOff DEF SendsFlag, Goto, KeepsLock, Inside
<1>22. ASSUME NEW p \in Apps, Finds(p) PROVE KeepsLock
  BY <1>22 DEF Finds, Goto, KeepsLock, Inside
<1>23. ASSUME NEW p \in Apps, Ends(p) PROVE KeepsLock
  <2>1. target[p] \in Slots
    BY <1>23 DEF Ends, Placed, Aimed
  <2> QED BY <1>23, <2>1, WordsOff, WordTypes DEF Ends, Goto, KeepsLock, Inside
<1>24. ASSUME NEW p \in Apps, Closes(p) PROVE KeepsLock
  <2>1. slot[p] \in Slots
    BY <1>24 DEF Closes, Placed, HasSlot
  <2> QED BY <1>24, <2>1, WordsOff, WordTypes DEF Closes, Goto, KeepsLock, Inside
<1>25. ASSUME NEW p \in Apps, Exits(p) PROVE KeepsLock
  BY <1>25 DEF Exits, Goto, KeepsLock, Inside
<1>26. ASSUME NEW p \in Apps, Dies(p) PROVE KeepsLock
  BY <1>26 DEF Dies, Goto, KeepsLock, Inside
<1>27. CASE ExplorerStep
  <2>1. CASE Wants(Explorer)
    BY <2>1, <1>1
  <2> QED
    BY <1>27, <2>1, <1>2, <1>3, <1>4, <1>5, <1>6, <1>7, <1>8, <1>9, <1>10, <1>11, <1>12
       DEF ExplorerStep
<1>28. ASSUME NEW p \in Apps, AppStep(p) PROVE KeepsLock \/ Takes(p) \/ Unlocks(p)
  BY <1>28, <1>1, <1>14, <1>15, <1>16, <1>17, <1>18, <1>19, <1>20, <1>21, <1>22, <1>23, <1>24, <1>25
     DEF AppStep
<1> QED BY <1>0, <1>13, <1>26, <1>27, <1>28 DEF Next

\* Whoever is inside holds the lock, whatever keys are written over it.
LockInv ==
  /\ \A u \in Users : Inside(u) => word[Lock].low # "0"
  /\ LockExcludes

LEMMA LockInit == Init => LockInv
BY DEF Init, LockInv, LockExcludes, Inside

LEMMA LockStep == TypeInv /\ LockInv /\ [Next]_vars => LockInv'
<1> SUFFICES ASSUME TypeInv, LockInv, [Next]_vars PROVE LockInv'
  OBVIOUS
<1>0. phase \in [Users -> {"out", "in", "fill", "send", "half"}]
  BY DEF TypeInv, TypeOK
<1>1. CASE KeepsLock
  BY <1>1 DEF KeepsLock, LockInv, LockExcludes, Inside
<1>2. ASSUME NEW u \in Users, Takes(u) PROVE LockInv'
  <2>1. \A v \in Users : ~Inside(v)
    BY <1>2 DEF Takes, LockInv, Zero
  <2> QED BY <1>0, <1>2, <2>1 DEF Takes, LockInv, LockExcludes, Inside, One
<1>3. ASSUME NEW u \in Users, Unlocks(u) PROVE LockInv'
  <2>1. \A v \in Users : ~Inside(v)'
    BY <1>0, <1>3 DEF Unlocks, LockInv, LockExcludes, Inside
  <2> QED BY <2>1 DEF LockInv, LockExcludes
<1> QED BY <1>1, <1>2, <1>3, LockMoves

\* The sections of ipc_lock exclude each other.
THEOREM LockIsExclusive == Spec => []LockExcludes
<1>1. LockInv => LockExcludes
  BY DEF LockInv
<1> QED BY TypeInit, TypeStep, LockInit, LockStep, <1>1, PTL DEF Spec

-----------------------------------------------------------------------------
(***************************************************************************)
(* The owners of the slots.                                                *)
(***************************************************************************)

\* A slot whose low byte is 1, or that is being filled in, has an owner.
OwnerInv ==
  /\ \A s \in Slots : word[s].low = "1" => owner[s] # NoApp
  /\ \A p \in Apps : phase[p] = "fill" => owner[slot[p]] # NoApp

\* A step that takes no owner away, makes no low byte 1 and lets nobody begin
\* to fill a slot in keeps that.
KeepsOwners ==
  /\ owner' = owner /\ slot' = slot
  /\ \A s \in Slots : word'[s].low = "1" => word[s].low = "1"
  /\ \A p \in Apps : phase'[p] = "fill" => phase[p] = "fill"

LEMMA OwnersKept == OwnerInv /\ KeepsOwners => OwnerInv'
BY DEF OwnerInv, KeepsOwners

LEMMA NoNewOne ==
  ASSUME TypeOK, NEW s \in Slots, NEW t \in Slots
  PROVE  /\ KeyPut(s)[t].low = "1" => word[t].low = "1"
         /\ FlagPut(s)[t].low = "1" => word[t].low = "1"
         /\ FlagTaken(s)[t].low = "1" => word[t].low = "1"
         /\ [word EXCEPT ![s] = Zero][t].low = "1" => word[t].low = "1"
BY WordTypes DEF TypeOK, KeyPut, FlagPut, FlagTaken, Words, Lock, Mailbox, Zero

LEMMA UnlockingOwners ==
  ASSUME TypeOK, NEW u \in Users, NEW x, NEW w \in [1..Lock -> Words], Leaves(u, x, w)
  PROVE  /\ \A s \in Slots : word'[s] = w[s]
         /\ \A p \in Apps : phase'[p] = "fill" => phase[p] = "fill" /\ p # u
BY WordTypes DEF Leaves, TypeOK, Lock

LEMMA OwnerInit == Init => OwnerInv
BY WordTypes DEF Init, OwnerInv, Zero, Lock

LEMMA OwnerStep == TypeInv /\ LockInv /\ OwnerInv /\ [Next]_vars => OwnerInv'
<1> SUFFICES ASSUME TypeInv, LockInv, OwnerInv, [Next]_vars PROVE OwnerInv'
  OBVIOUS
<1> USE DEF TypeInv
<1>a. word \in [1..Lock -> Words]
  BY DEF TypeOK
<1>0. CASE UNCHANGED vars
  BY <1>0, OwnersKept DEF vars, KeepsOwners
<1>1. ASSUME NEW u \in Users, Wants(u) PROVE OwnerInv'
  BY <1>1, OwnersKept, WordTypes DEF Wants, Locks, Enter, KeepsOwners, TypeOK
<1>2. CASE PollsKeyboard
  BY <1>2, OwnersKept DEF PollsKeyboard, Goto, KeepsOwners
<1>3. CASE RoutesKey
  <2>1. CASE Enter(Explorer, "send") /\ UNCHANGED word
    BY <1>3, <2>1, OwnersKept DEF RoutesKey, Enter, KeepsOwners, TypeOK
  <2>2. CASE Leaves(Explorer, "sweep", word)
    BY <1>3, <1>a, <2>2, OwnersKept, UnlockingOwners DEF RoutesKey, KeepsOwners
  <2> QED BY <1>3, <2>1, <2>2 DEF RoutesKey
<1>4. CASE PutsKey
  <2>1. focus \in Slots
    BY <1>4 DEF PutsKey, At, Placed
  <2> QED BY <1>4, <2>1, NoNewOne, OwnersKept DEF PutsKey, Enter, KeepsOwners, TypeOK
<1>5. CASE PutsFlag
  <2>1. focus \in Slots
    BY <1>5 DEF PutsFlag, At, Placed
  <2>2. FlagPut(focus) \in [1..Lock -> Words]
    BY <2>1, PageTypes
  <2>3. Leaves(Explorer, "sweep", FlagPut(focus))
    BY <1>5 DEF PutsFlag
  <2>4. /\ \A s \in Slots : word'[s] = FlagPut(focus)[s]
        /\ \A p \in Apps : phase'[p] = "fill" => phase[p] = "fill"
    BY <2>2, <2>3, UnlockingOwners
  <2> QED BY <1>5, <2>1, <2>4, NoNewOne, OwnersKept DEF PutsFlag, KeepsOwners
<1>6. CASE Sweeps
  <2>1. /\ \A s \in Slots : word'[s] = word[s]
        /\ \A p \in Apps : phase'[p] = "fill" => phase[p] = "fill"
    BY <1>6, <1>a, UnlockingOwners DEF Sweeps
  <2>2. \A p \in Apps : phase'[p] # "fill"
    BY <1>6, <2>1 DEF Sweeps, At, LockInv, LockExcludes, Inside
  <2>3. \A s \in Slots : word[s].low = "1" => s \notin Collected
    BY DEF Collected, Shown, Zero
  <2>4. \A s \in Slots : s \notin Collected => owner'[s] = owner[s]
    BY <1>6 DEF Sweeps
  <2> QED BY <2>1, <2>2, <2>3, <2>4 DEF OwnerInv
<1>7. CASE Presses
  BY <1>7, OwnersKept DEF Presses, Goto, KeepsOwners
<1>8. CASE Holds
  BY <1>8, OwnersKept DEF Holds, Goto, KeepsOwners
<1>9. CASE Releases
  BY <1>9, OwnersKept DEF Releases, Goto, KeepsOwners
<1>10. CASE Clicks
  <2>1. UNCHANGED <<owner, slot>>
    BY <1>10 DEF Clicks
  <2>2. CASE Leaves(Explorer, "draw", word)
    BY <1>a, <2>1, <2>2, OwnersKept, UnlockingOwners DEF KeepsOwners
  <2>3. ASSUME NEW s \in Slots, NEW region, ClicksOn(s, region) PROVE OwnerInv'
    <3> DEFINE w == [word EXCEPT ![s] = IF region = "close" THEN Zero ELSE @]
    <3>1. w \in [1..Lock -> Words]
      BY <1>a, WordTypes
    <3>2. \A t \in Slots : w[t].low = "1" => word[t].low = "1"
      BY <1>a, WordTypes DEF Zero
    <3>3. Leaves(Explorer, "draw", w)
      BY <2>3 DEF ClicksOn
    <3> HIDE DEF w
    <3>4. /\ \A t \in Slots : word'[t] = w[t]
          /\ \A p \in Apps : phase'[p] = "fill" => phase[p] = "fill"
      BY <3>1, <3>3, UnlockingOwners
    <3> QED BY <2>1, <3>2, <3>4, OwnersKept DEF KeepsOwners
  <2> QED BY <1>10, <2>2, <2>3 DEF Clicks, TopOf
<1>11. CASE Drags
  BY <1>11, <1>a, OwnersKept, UnlockingOwners DEF Drags, KeepsOwners
<1>12. CASE Draws
  BY <1>12, <1>a, OwnersKept, UnlockingOwners DEF Draws, KeepsOwners
<1>13. ASSUME NEW p \in Apps, Starts(p) PROVE OwnerInv'
  BY <1>13, OwnersKept DEF Starts, Goto, KeepsOwners
<1>14. ASSUME NEW p \in Apps, TakesSlot(p) PROVE OwnerInv'
  <2>1. CASE Leaves(p, "gone", word) /\ UNCHANGED <<owner, click, slot>>
    BY <1>a, <2>1, OwnersKept, UnlockingOwners DEF KeepsOwners
  <2>2. ASSUME NEW s \in Slots,
               slot' = [slot EXCEPT ![p] = s],
               owner' = [owner EXCEPT ![s] = p],
               Enter(p, "fill"), UNCHANGED word
        PROVE  OwnerInv'
    <3>1. \A t \in Slots : owner[t] # NoApp => owner'[t] # NoApp
      BY <2>2 DEF TypeOK
    <3>2. owner'[slot'[p]] # NoApp
      BY <2>2 DEF TypeOK
    <3>3. \A q \in Apps : q # p => phase'[q] = phase[q] /\ slot'[q] = slot[q]
      BY <2>2 DEF Enter, TypeOK
    <3>4. \A q \in Apps : phase[q] = "fill" => slot[q] \in Slots
      BY DEF Placed, HasSlot
    <3> QED BY <2>2, <3>1, <3>2, <3>3, <3>4 DEF OwnerInv
  <2> QED BY <1>14, <2>1, <2>2 DEF TakesSlot
<1>15. ASSUME NEW p \in Apps, Activates(p) PROVE OwnerInv'
  <2>1. slot[p] \in Slots /\ owner[slot[p]] # NoApp /\ UNCHANGED <<owner, slot>>
    BY <1>15 DEF Activates, At, Placed, HasSlot, OwnerInv
  <2> DEFINE w == [word EXCEPT ![slot[p]] = One]
  <2>2. /\ w \in [1..Lock -> Words]
        /\ \A t \in Slots : t # slot[p] => w[t] = word[t]
    BY <1>a, <2>1, WordTypes
  <2>3. Leaves(p, "run", w)
    BY <1>15 DEF Activates
  <2> HIDE DEF w
  <2>4. /\ \A t \in Slots : word'[t] = w[t]
        /\ \A q \in Apps : phase'[q] = "fill" => phase[q] = "fill"
    BY <2>2, <2>3, UnlockingOwners
  <2> QED BY <2>1, <2>2, <2>4 DEF OwnerInv
<1>16. ASSUME NEW p \in Apps, LooksAtSlot(p) PROVE OwnerInv'
  BY <1>16, OwnersKept DEF LooksAtSlot, Goto, KeepsOwners
<1>17. ASSUME NEW p \in Apps, ReadsMailbox(p) PROVE OwnerInv'
  <2>1. slot[p] \in Slots
    BY <1>17 DEF ReadsMailbox, Placed, HasSlot
  <2> QED BY <1>17, <2>1, NoNewOne, OwnersKept DEF ReadsMailbox, Goto, KeepsOwners
<1>18. ASSUME NEW p \in Apps, Works(p) PROVE OwnerInv'
  BY <1>18, OwnersKept DEF Works, Goto, KeepsOwners
<1>19. ASSUME NEW p \in Apps, Aims(p) PROVE OwnerInv'
  BY <1>19, OwnersKept DEF Aims, Goto, KeepsOwners
<1>20. ASSUME NEW p \in Apps, SendsKey(p) PROVE OwnerInv'
  <2>1. target[p] \in Slots
    BY <1>20 DEF SendsKey, Placed, Aimed
  <2> QED BY <1>20, <2>1, NoNewOne, OwnersKept DEF SendsKey, Goto, KeepsOwners
<1>21. ASSUME NEW p \in Apps, SendsFlag(p) PROVE OwnerInv'
  <2>1. target[p] \in Slots
    BY <1>21 DEF SendsFlag, Placed, Aimed
  <2> QED BY <1>21, <2>1, NoNewOne, OwnersKept DEF SendsFlag, Goto, KeepsOwners
<1>22. ASSUME NEW p \in Apps, Finds(p) PROVE OwnerInv'
  BY <1>22, OwnersKept DEF Finds, Goto, KeepsOwners
<1>23. ASSUME NEW p \in Apps, Ends(p) PROVE OwnerInv'
  <2>1. target[p] \in Slots
    BY <1>23 DEF Ends, Placed, Aimed
  <2> QED BY <1>23, <2>1, NoNewOne, OwnersKept DEF Ends, Goto, KeepsOwners
<1>24. ASSUME NEW p \in Apps, Closes(p) PROVE OwnerInv'
  <2>1. slot[p] \in Slots
    BY <1>24 DEF Closes, Placed, HasSlot
  <2> QED BY <1>24, <2>1, NoNewOne, OwnersKept DEF Closes, Goto, KeepsOwners
<1>25. ASSUME NEW p \in Apps, Exits(p) PROVE OwnerInv'
  BY <1>25, OwnersKept DEF Exits, Goto, KeepsOwners
<1>26. ASSUME NEW p \in Apps, Dies(p) PROVE OwnerInv'
  BY <1>26, OwnersKept DEF Dies, Goto, KeepsOwners
<1> QED
  BY <1>0, <1>1, <1>2, <1>3, <1>4, <1>5, <1>6, <1>7, <1>8, <1>9, <1>10, <1>11, <1>12,
     <1>13, <1>14, <1>15, <1>16, <1>17, <1>18, <1>19, <1>20, <1>21, <1>22, <1>23, <1>24, <1>25, <1>26
     DEF Next, ExplorerStep, AppStep

\* No active window without an owner: a registration excludes the collector.
THEOREM OpenSlotsAreOwned == Spec => []OpenHasOwner
<1>1. OwnerInv => OpenHasOwner
  BY DEF OwnerInv, OpenHasOwner, One
<1> QED
  BY TypeInit, TypeStep, LockInit, LockStep, OwnerInit, OwnerStep, <1>1, PTL DEF Spec

-----------------------------------------------------------------------------
(***************************************************************************)
(* The explorer's own state: the focus, the stack and the mouse.           *)
(***************************************************************************)

\* A click is looked for only when nothing is held from an earlier one.
MouseInv ==
  /\ FocusOnTop
  /\ GrabsWhileHeld
  /\ step[Explorer] = "click" => held /\ drag = NoSlot

\* A step of the programs leaves the explorer where it is.
LEMMA AppsLeaveMouse ==
  ASSUME TypeOK, NEW p \in Apps, Starts(p) \/ AppStep(p) \/ Dies(p)
  PROVE  UNCHANGED <<focus, z, mouse>> /\ step'[Explorer] = step[Explorer]
<1>1. \A x : Goto(p, x) => step'[Explorer] = step[Explorer]
  BY DEF Goto, TypeOK
<1>2. \A ph : Enter(p, ph) => step'[Explorer] = step[Explorer]
  BY DEF Enter
<1>3. \A x, w : Leaves(p, x, w) => step'[Explorer] = step[Explorer]
  BY DEF Leaves, TypeOK
<1>4. CASE Wants(p)
  BY <1>4, <1>2 DEF Wants, Locks
<1>5. CASE TakesSlot(p)
  BY <1>5, <1>2, <1>3 DEF TakesSlot
<1>6. CASE Activates(p)
  BY <1>6, <1>3 DEF Activates
<1>7. CASE Starts(p) \/ LooksAtSlot(p) \/ ReadsMailbox(p) \/ Works(p) \/ Exits(p) \/ Dies(p)
  BY <1>7, <1>1 DEF Starts, LooksAtSlot, ReadsMailbox, Works, Exits, Dies
<1>8. CASE Aims(p) \/ SendsKey(p) \/ SendsFlag(p) \/ Finds(p) \/ Ends(p) \/ Closes(p)
  BY <1>8, <1>1 DEF Aims, SendsKey, SendsFlag, Finds, Ends, Closes
<1> QED BY <1>4, <1>5, <1>6, <1>7, <1>8 DEF AppStep

LEMMA MouseInit == Init => MouseInv
BY DEF Init, MouseInv, FocusOnTop, GrabsWhileHeld

LEMMA MouseStep == TypeInv /\ MouseInv /\ [Next]_vars => MouseInv'
<1> SUFFICES ASSUME TypeInv, MouseInv, [Next]_vars PROVE MouseInv'
  OBVIOUS
<1> USE DEF TypeInv
\* A step after which the explorer is not at a click, or is still at one.
<1>a. ASSUME UNCHANGED <<focus, z, mouse>>,
             step'[Explorer] = "click" => step[Explorer] = "click"
      PROVE  MouseInv'
  BY <1>a DEF MouseInv, FocusOnTop, GrabsWhileHeld, mouse
<1>b. \A x : Goto(Explorer, x) => step'[Explorer] = x
  BY DEF Goto, TypeOK
<1>c. \A x, w : Leaves(Explorer, x, w) => step'[Explorer] = x
  BY DEF Leaves, TypeOK
<1>0. CASE UNCHANGED vars
  BY <1>0, <1>a DEF vars
<1>1. CASE Wants(Explorer)
  BY <1>1, <1>a DEF Wants, Locks, Enter
<1>2. CASE PollsKeyboard
  BY <1>2, <1>a, <1>b DEF PollsKeyboard
<1>3. CASE RoutesKey \/ PutsKey \/ PutsFlag
  BY <1>3, <1>a, <1>c DEF RoutesKey, PutsKey, PutsFlag, Enter
<1>4. CASE Sweeps
  <2>1. step'[Explorer] = "mouse"
    BY <1>4, <1>c DEF Sweeps
  <2>2. FocusOnTop' /\ GrabsWhileHeld'
    BY <1>4 DEF Sweeps, MouseInv, FocusOnTop, GrabsWhileHeld
  <2> QED BY <2>1, <2>2 DEF MouseInv
<1>5. CASE Presses
  <2>1. drag = NoSlot \/ step'[Explorer] = "draw"
    BY <1>5, <1>b DEF Presses
  <2>2. FocusOnTop' /\ GrabsWhileHeld'
    BY <1>5 DEF Presses, MouseInv, FocusOnTop, GrabsWhileHeld
  <2> QED BY <1>5, <2>1, <2>2 DEF Presses, MouseInv
<1>6. CASE Holds
  BY <1>6, <1>a, <1>b DEF Holds
<1>7. CASE Releases
  <2>1. step'[Explorer] = "draw"
    BY <1>7, <1>b DEF Releases
  <2>2. FocusOnTop' /\ GrabsWhileHeld'
    BY <1>7 DEF Releases, Released, MouseInv, FocusOnTop, GrabsWhileHeld
  <2> QED BY <2>1, <2>2 DEF MouseInv
<1>8. CASE Clicks
  <2>1. step'[Explorer] = "draw"
    BY <1>8, <1>c DEF Clicks, ClicksOn
  <2>2. held /\ drag = NoSlot /\ held' = held
    BY <1>8 DEF Clicks, At, MouseInv
  <2>3. CASE UNCHANGED <<click, focus, z, drag, clicked>>
    BY <2>1, <2>2, <2>3 DEF MouseInv, FocusOnTop, GrabsWhileHeld
  <2>4. ASSUME NEW s \in Slots, NEW region, ClicksOn(s, region) PROVE MouseInv'
    <3>1. GrabsWhileHeld'
      BY <2>2, <2>4 DEF ClicksOn, GrabsWhileHeld
    <3>2. CASE UNCHANGED <<focus, z>>
      BY <2>1, <3>1, <3>2 DEF MouseInv, FocusOnTop
    <3>3. CASE focus' = s /\ z' = Front(s)
      <4>1. Front(s)[Last] = s
        BY FrontPermutes
      <4> QED BY <2>1, <3>1, <3>3, <4>1 DEF MouseInv, FocusOnTop
    <3> QED BY <2>4, <3>2, <3>3 DEF ClicksOn
  <2> QED BY <1>8, <2>3, <2>4 DEF Clicks, TopOf
<1>9. CASE Drags \/ Draws
  BY <1>9, <1>a, <1>c DEF Drags, Draws
<1>10. ASSUME NEW p \in Apps, Starts(p) \/ AppStep(p) \/ Dies(p) PROVE MouseInv'
  BY <1>10, <1>a, AppsLeaveMouse
<1> QED
  BY <1>0, <1>1, <1>2, <1>3, <1>4, <1>5, <1>6, <1>7, <1>8, <1>9, <1>10 DEF Next, ExplorerStep

\* The window that gets the keys is the top of the stack.
THEOREM FocusIsOnTop == Spec => []FocusOnTop
<1>1. MouseInv => FocusOnTop
  BY DEF MouseInv
<1> QED BY TypeInit, TypeStep, MouseInit, MouseStep, <1>1, PTL DEF Spec

\* The explorer holds on to no window once the button is up.
THEOREM GrabsEnd == Spec => []GrabsWhileHeld
<1>1. MouseInv => GrabsWhileHeld
  BY DEF MouseInv
<1> QED BY TypeInit, TypeStep, MouseInit, MouseStep, <1>1, PTL DEF Spec

=============================================================================
