--------------------------- MODULE Kernel_proofs ----------------------------
(***************************************************************************)
(* Theorems about the core of the kernel, for any sizes: a frame has one   *)
(* holder, what the one recovery point of K_TRY does promise, that the     *)
(* keyboard and the mouse do what the user did, and the types of all.      *)
(***************************************************************************)
EXTENDS MCKernel, Rings_proofs

-----------------------------------------------------------------------------
(***************************************************************************)
(* The search of a free frame.                                             *)
(***************************************************************************)

\* Every set of numbers has a least one.
LEMMA NatMin ==
    ASSUME NEW S \in SUBSET Nat, S # {}
    PROVE  \E i \in S : \A j \in S : i <= j
<1>1. PICK i \in S : \A j \in S : ~(<<j, i>> \in OpToRel(<, Nat))
  BY NatLessThanWellFounded, WFMin
<1>2. \A j \in S : ~(j < i)
  BY <1>1 DEF OpToRel
<1> QED BY <1>2

LEMMA WordType == \A f \in Frames \cup {LastFrame} : Word(f) \in Nat
BY FrameAssumption DEF Word, Frames

\* pmm_alloc_block's search, whole: it fails only when everything is marked.
LEMMA NextFitIsFree ==
    ASSUME last_bit_index \in Nat
    PROVE  NextFit = NoFrame \/ NextFit \in FreeFrames
<1> SUFFICES ASSUME FreeFrames # {} PROVE NextFit \in FreeFrames
  BY DEF NextFit
<1> DEFINE Far(f) == Distance(f) + last_bit_index
<1>1. \A f \in FreeFrames : f \in Nat /\ Distance(f) \in Int /\ Far(f) \in Nat
  BY WordType, FrameAssumption DEF Distance, FreeFrames, Frames
<1> HIDE DEF Far
<1>2. PICK n \in {Far(f) : f \in FreeFrames} : \A m \in {Far(f) : f \in FreeFrames} : n <= m
  <2>1. {Far(f) : f \in FreeFrames} \in SUBSET Nat /\ {Far(f) : f \in FreeFrames} # {}
    BY <1>1
  <2> QED BY <2>1, NatMin
<1>3. PICK f \in {g \in FreeFrames : Far(g) = n} : \A g \in {h \in FreeFrames : Far(h) = n} : f <= g
  <2>1. {g \in FreeFrames : Far(g) = n} \in SUBSET Nat /\ {g \in FreeFrames : Far(g) = n} # {}
    BY <1>1, <1>2
  <2> QED BY <2>1, NatMin
<1>4. \A g \in FreeFrames : Distance(f) < Distance(g) \/ (Distance(f) = Distance(g) /\ f <= g)
  <2>1. f \in FreeFrames /\ Far(f) = n
    BY <1>3
  <2>2. TAKE g \in FreeFrames
  <2>3. n <= Far(g) /\ (Far(g) = n => f <= g)
    BY <1>2, <1>3
  <2>4. Far(f) < Far(g) \/ (Far(f) = Far(g) /\ f <= g)
    BY <1>1, <2>1, <2>3
  <2> QED BY <1>1, <2>1, <2>4 DEF Far
<1>5. f \in FreeFrames
  BY <1>3
<1> HIDE DEF FreeFrames
<1> QED BY <1>4, <1>5 DEF NextFit

-----------------------------------------------------------------------------
(***************************************************************************)
(* The inductive invariant.                                                *)
(***************************************************************************)

MaybeFrame == Frames \cup {NoFrame}

Task == [todo : Seq(Places \cup {"start", "buffer"}), prog : Programs \cup {Kernel},
         frame : MaybeFrame, seen : MaybeFrame, reading : BOOLEAN]

TypeInv ==
    /\ used \subseteq Frames /\ kheap \subseteq Frames /\ lost \subseteq Frames
    /\ last_bit_index \in Nat
    /\ space \in [Programs -> [Places -> MaybeFrame]]
    /\ life \in [Programs -> {"none", "loading", "alive", "zombie"}]
    /\ task \in [Hands -> Task]
    /\ raced \in BOOLEAN

\* Each frame in a place, in a hand or in the heap is in no second one; all of them are
\* marked, and whatever else is marked is lost.
Owned ==
    /\ \A p, q \in Programs : \A x, y \in Places :
         space[p][x] = space[q][y] /\ space[p][x] # NoFrame => p = q /\ x = y
    /\ \A g, h \in Hands : task[g].frame = task[h].frame /\ task[g].frame # NoFrame => g = h
    /\ \A p \in Programs : \A x \in Places : \A h \in Hands :
         space[p][x] # NoFrame => space[p][x] # task[h].frame
    /\ \A p \in Programs : \A x \in Places : space[p][x] \notin kheap
    /\ \A h \in Hands : task[h].frame \notin kheap
    /\ \A p \in Programs : \A x \in Places : space[p][x] \in used \cup {NoFrame}
    /\ \A h \in Hands : task[h].frame \in used \cup {NoFrame}
    /\ kheap \subseteq used
    /\ \A f \in used :
         \/ f \in lost \/ f \in kheap
         \/ \E h \in Hands : task[h].frame = f
         \/ \E p \in Programs : \E x \in Places : space[p][x] = f

\* What was read of the bitmap still holds when it is marked.
Fresh == \A h \in Hands : task[h].reading /\ task[h].seen # NoFrame => task[h].seen \notin used

\* Who fills which program, and that what is still to be filled is empty.
Busy(h) == task[h].todo # << >>
Filling(h) ==
    /\ task[h].reading => Busy(h) /\ Head(task[h].todo) # "start" /\ ~Complete(h)
    /\ task[h].frame # NoFrame => Busy(h) /\ Head(task[h].todo) \in Pages \cup {"buffer"}
    /\ Busy(h) =>
         /\ h \in Loaders =>
              /\ task[h].prog \in Programs /\ life[task[h].prog] = "loading"
              /\ task[h].todo \in Seq(Core \cup {"image", "stack", "start"})
         /\ h = "call" =>
              /\ task[h].prog \in Programs /\ life[task[h].prog] = "alive"
              /\ task[h].todo = <<"heap">>
         /\ h = "shell" => task[h].todo = <<"buffer">>
    /\ \A i, j \in 1 .. Len(task[h].todo) : task[h].todo[i] = task[h].todo[j] => i = j
    /\ h # "shell" => \A i \in 1 .. Len(task[h].todo) :
         task[h].todo[i] \in Places => space[task[h].prog][task[h].todo[i]] = NoFrame

Filled ==
    /\ \A h \in Hands : Filling(h)
    /\ \A g, h \in Loaders : Busy(g) /\ Busy(h) /\ task[g].prog = task[h].prog => g = h
    /\ \A p \in Programs : life[p] = "none" => space[p] = Nobody

IInv == TypeInv /\ Filled /\ (raced \/ (Owned /\ Fresh))

-----------------------------------------------------------------------------
(***************************************************************************)
(* Where a frame goes, and that it has one holder there.                   *)
(***************************************************************************)

SameHands == \A h \in Hands : task'[h].frame = task[h].frame

LEMMA PlaceTakes ==
    ASSUME TypeInv, Owned, NEW p \in Programs, NEW x \in Places, NEW f \in Frames \ used,
           space[p][x] = NoFrame, space' = [space EXCEPT ![p][x] = f],
           used' = used \cup {f}, SameHands, UNCHANGED <<kheap, lost>>
    PROVE  Owned'
<1>1. \A q \in Programs : \A y \in Places :
        space'[q][y] = IF q = p /\ y = x THEN f ELSE space[q][y]
  BY DEF TypeInv
<1>2. f # NoFrame /\ \A q \in Programs : \A y \in Places : space[q][y] # f
  BY DEF Owned, Frames, NoFrame
<1>3. \A h \in Hands : task[h].frame # f
  BY <1>2 DEF Owned
<1>4. f \notin kheap
  BY DEF Owned
<1>5. \A q, r \in Programs : \A y, w \in Places :
        space'[q][y] = space'[r][w] /\ space'[q][y] # NoFrame => q = r /\ y = w
  BY <1>1, <1>2 DEF Owned
<1>6. \A q \in Programs : \A y \in Places :
        /\ space'[q][y] \in used' \cup {NoFrame} /\ space'[q][y] \notin kheap'
        /\ \A h \in Hands : space'[q][y] # NoFrame => space'[q][y] # task'[h].frame
  BY <1>1, <1>3, <1>4 DEF Owned, SameHands
<1>7. \A g \in used' : \/ g \in lost' \/ g \in kheap' \/ (\E h \in Hands : task'[h].frame = g)
                       \/ \E q \in Programs : \E y \in Places : space'[q][y] = g
  <2> TAKE g \in used'
  <2>1. CASE g = f
    BY <1>1, <2>1
  <2>2. CASE g # f
    <3>1. \A q \in Programs : \A y \in Places : space[q][y] = g => space'[q][y] = g
      BY <1>1, <2>2 DEF TypeInv, Frames, NoFrame
    <3> QED BY <2>2, <3>1 DEF Owned, SameHands
  <2> QED BY <2>1, <2>2
<1>8. \A h \in Hands : task'[h].frame \in used' \cup {NoFrame} /\ task'[h].frame \notin kheap'
  BY DEF Owned, SameHands
<1>9. kheap' \subseteq used'
  BY DEF Owned
<1>10. \A g, h \in Hands : task'[g].frame = task'[h].frame /\ task'[g].frame # NoFrame => g = h
  BY DEF Owned, SameHands
<1> QED BY <1>5, <1>6, <1>7, <1>8, <1>9, <1>10 DEF Owned

LEMMA HandTakes ==
    ASSUME TypeInv, Owned, NEW h \in Hands, NEW f \in Frames \ used,
           task[h].frame = NoFrame,
           task'[h].frame = f, \A g \in Hands \ {h} : task'[g].frame = task[g].frame,
           used' = used \cup {f}, UNCHANGED <<space, kheap, lost>>
    PROVE  Owned'
<1>2. f # NoFrame /\ \A q \in Programs : \A y \in Places : space[q][y] # f
  BY DEF Owned, Frames, NoFrame
<1>3. \A g \in Hands : task[g].frame # f
  BY <1>2 DEF Owned
<1>4. f \notin kheap
  BY DEF Owned
<1>5. \A g, k \in Hands : task'[g].frame = task'[k].frame /\ task'[g].frame # NoFrame => g = k
  BY <1>3 DEF Owned
<1>6. \A g \in Hands : task'[g].frame \in used' \cup {NoFrame} /\ task'[g].frame \notin kheap'
  BY <1>4 DEF Owned
<1>7. \A q \in Programs : \A y \in Places :
        /\ space'[q][y] \in used' \cup {NoFrame} /\ space'[q][y] \notin kheap'
        /\ \A g \in Hands : space'[q][y] # NoFrame => space'[q][y] # task'[g].frame
  BY <1>2 DEF Owned
<1>8. \A g \in used' : \/ g \in lost' \/ g \in kheap' \/ (\E k \in Hands : task'[k].frame = g)
                       \/ \E q \in Programs : \E y \in Places : space'[q][y] = g
  <2> TAKE g \in used'
  <2>1. CASE g = f
    BY <2>1
  <2>2. CASE g # f
    <3>1. g # NoFrame
      BY <2>2 DEF TypeInv, Frames, NoFrame
    <3> QED BY <2>2, <3>1 DEF Owned
  <2> QED BY <2>1, <2>2
<1>9. kheap' \subseteq used'
  BY DEF Owned
<1>10. \A q, r \in Programs : \A y, w \in Places :
         space'[q][y] = space'[r][w] /\ space'[q][y] # NoFrame => q = r /\ y = w
  BY DEF Owned
<1> QED BY <1>5, <1>6, <1>7, <1>8, <1>9, <1>10 DEF Owned

\* The frame in a hand is written into an empty place.
LEMMA HandPlaces ==
    ASSUME TypeInv, Owned, NEW h \in Hands, NEW p \in Programs, NEW x \in Places,
           space[p][x] = NoFrame, task[h].frame # NoFrame,
           space' = [space EXCEPT ![p][x] = task[h].frame],
           task'[h].frame = NoFrame, \A g \in Hands \ {h} : task'[g].frame = task[g].frame,
           UNCHANGED <<used, kheap, lost>>
    PROVE  Owned'
<1>1. \A q \in Programs : \A y \in Places :
        space'[q][y] = IF q = p /\ y = x THEN task[h].frame ELSE space[q][y]
  BY DEF TypeInv
<1>2. NoFrame \notin kheap
  BY DEF TypeInv, Frames, NoFrame
<1> QED BY <1>1, <1>2 DEF Owned

\* A hand gives its frame back, or forgets it.
LEMMA HandFrees ==
    ASSUME TypeInv, Owned, NEW h \in Hands,
           task'[h].frame = NoFrame, \A g \in Hands \ {h} : task'[g].frame = task[g].frame,
           used' = used \ ({task[h].frame} \ {NoFrame}), UNCHANGED <<space, kheap, lost>>
    PROVE  Owned'
<1>1. NoFrame \notin kheap /\ NoFrame \notin used
  BY DEF TypeInv, Frames, NoFrame
<1> QED BY <1>1 DEF Owned

LEMMA HandForgets ==
    ASSUME TypeInv, Owned, NEW h \in Hands,
           task'[h].frame = NoFrame, \A g \in Hands \ {h} : task'[g].frame = task[g].frame,
           lost' = lost \cup ({task[h].frame} \ {NoFrame}), UNCHANGED <<space, kheap, used>>
    PROVE  Owned'
<1>1. NoFrame \notin kheap /\ NoFrame \notin used
  BY DEF TypeInv, Frames, NoFrame
<1> QED BY <1>1 DEF Owned

\* A program's places are emptied: some of its frames are freed, the others lost.
LEMMA ProgramLeaves ==
    ASSUME TypeInv, Owned, NEW p \in Programs, NEW S \in SUBSET Places,
           space' = [space EXCEPT ![p] = Nobody],
           used' = used \ FramesAt(p, S), lost' = lost \cup FramesAt(p, Places \ S),
           SameHands, UNCHANGED kheap
    PROVE  Owned'
<1>1. \A q \in Programs : \A y \in Places :
        space'[q][y] = IF q = p THEN NoFrame ELSE space[q][y]
  BY DEF TypeInv, Nobody
<1>2. NoFrame \notin kheap /\ NoFrame \notin used
  BY DEF TypeInv, Frames, NoFrame
<1>3. \A f : f \in FramesAt(p, S) <=> f # NoFrame /\ \E y \in S : space[p][y] = f
  BY DEF FramesAt
<1>4. \A f : f \in FramesAt(p, Places \ S) <=> f # NoFrame /\ \E y \in Places \ S : space[p][y] = f
  BY DEF FramesAt
<1>5. \A q \in Programs : \A y \in Places : q # p => space[q][y] \notin FramesAt(p, S)
  BY <1>3 DEF Owned
<1>6. \A h \in Hands : task[h].frame \notin FramesAt(p, S)
  BY <1>3 DEF Owned
<1>7. \A f \in kheap : f \notin FramesAt(p, S)
  BY <1>3 DEF Owned
<1>8. \A f \in used' : f \in lost' \/ f \in kheap' \/ (\E h \in Hands : task'[h].frame = f)
                      \/ \E q \in Programs : \E y \in Places : space'[q][y] = f
  <2> TAKE f \in used'
  <2>1. f \in used /\ f \notin FramesAt(p, S) /\ f # NoFrame
    BY <1>2
  <2>2. CASE \E y \in Places : space[p][y] = f
    BY <1>3, <1>4, <2>1, <2>2
  <2>3. CASE ~\E y \in Places : space[p][y] = f
    BY <1>1, <2>1, <2>3 DEF Owned, SameHands
  <2> QED BY <2>2, <2>3
<1>9. \A q, r \in Programs : \A x, y \in Places :
        space'[q][x] = space'[r][y] /\ space'[q][x] # NoFrame => q = r /\ x = y
  BY <1>1 DEF Owned
<1>10. /\ \A q \in Programs : \A y \in Places : \A h \in Hands :
              space'[q][y] # NoFrame => space'[q][y] # task'[h].frame
       /\ \A q \in Programs : \A y \in Places : space'[q][y] \notin kheap'
       /\ \A q \in Programs : \A y \in Places : space'[q][y] \in used' \cup {NoFrame}
  BY <1>1, <1>2, <1>5 DEF Owned, SameHands
<1>11. /\ \A h \in Hands : task'[h].frame \notin kheap'
       /\ \A h \in Hands : task'[h].frame \in used' \cup {NoFrame}
  BY <1>6 DEF Owned, SameHands
<1>12. kheap' \subseteq used'
  BY <1>7 DEF Owned
<1>13. \A g, h \in Hands : task'[g].frame = task'[h].frame /\ task'[g].frame # NoFrame => g = h
  BY DEF Owned, SameHands
<1> QED BY <1>8, <1>9, <1>10, <1>11, <1>12, <1>13 DEF Owned

\* A new frame goes to the heap, or is lost at once.
LEMMA HeapTakes ==
    ASSUME TypeInv, Owned, NEW f \in Frames \ used,
           \/ kheap' = kheap \cup {f} /\ lost' = lost
           \/ lost' = lost \cup {f} /\ kheap' = kheap,
           used' = used \cup {f}, UNCHANGED space, SameHands
    PROVE  Owned'
<1>2. f # NoFrame /\ \A q \in Programs : \A y \in Places : space[q][y] # f
  BY DEF Owned, Frames, NoFrame
<1>3. \A g \in Hands : task[g].frame # f
  BY <1>2 DEF Owned
<1>4. \A g \in used' : \/ g \in lost' \/ g \in kheap' \/ (\E k \in Hands : task'[k].frame = g)
                       \/ \E q \in Programs : \E y \in Places : space'[q][y] = g
  BY DEF Owned, SameHands
<1>5. kheap' \subseteq used'
  BY DEF Owned
<1>6. \A q \in Programs : \A y \in Places :
        /\ space'[q][y] \in used' \cup {NoFrame} /\ space'[q][y] \notin kheap'
        /\ \A g \in Hands : space'[q][y] # NoFrame => space'[q][y] # task'[g].frame
  BY <1>2 DEF Owned, SameHands
<1>7. \A h \in Hands : task'[h].frame \in used' \cup {NoFrame} /\ task'[h].frame \notin kheap'
  BY <1>3 DEF Owned, SameHands
<1>8. \A g, h \in Hands : task'[g].frame = task'[h].frame /\ task'[g].frame # NoFrame => g = h
  BY DEF Owned, SameHands
<1>9. \A q, r \in Programs : \A y, w \in Places :
        space'[q][y] = space'[r][w] /\ space'[q][y] # NoFrame => q = r /\ y = w
  BY DEF Owned
<1> QED BY <1>4, <1>5, <1>6, <1>7, <1>8, <1>9 DEF Owned

\* Steps that move no frame.
LEMMA NothingMoves ==
    ASSUME Owned, SameHands, UNCHANGED <<used, space, kheap, lost>>
    PROVE  Owned'
BY DEF Owned, SameHands

-----------------------------------------------------------------------------
(***************************************************************************)
(* What a hand does next, and what the others see of it.                   *)
(***************************************************************************)

LowTables == {"pt", "s_pdpt", "s_pt", "h_pdpt", "h_pt"}

LEMMA MissingIs ==
    ASSUME NEW page \in Places \cup {"start", "buffer"}, NEW frame, NEW places
    PROVE  \/ MissingOf(page, frame, places) = page
           \/ /\ frame # NoFrame /\ page \in Pages
              /\ MissingOf(page, frame, places) \in LowTables
              /\ places[MissingOf(page, frame, places)] = NoFrame
<1> DEFINE t == TablesOf(page)
           gaps == {i \in 1 .. Len(t) : places[t[i]] = NoFrame}
<1>1. CASE frame = NoFrame \/ gaps = {}
  BY <1>1 DEF MissingOf
<1>2. CASE frame # NoFrame /\ gaps # {}
  <2>1. page \in Pages /\ Len(t) \in Nat /\ \A i \in 1 .. Len(t) : t[i] \in LowTables
    <3>1. CASE page \in Pages
      BY <3>1 DEF Pages, TablesOf, LowTables
    <3>2. CASE page \notin Pages
      <4>1. t = << >>
        BY <3>2 DEF Pages, TablesOf
      <4> QED BY <1>2, <4>1
    <3> QED BY <3>1, <3>2
  <2> DEFINE i == CHOOSE k \in gaps : \A j \in gaps : k <= j
  <2>2. i \in gaps
    <3>1. gaps \in SUBSET Nat
      BY <2>1
    <3> HIDE DEF gaps
    <3>2. \E k \in gaps : \A j \in gaps : k <= j
      BY <1>2, <3>1, NatMin
    <3> QED BY <3>2
  <2>3. MissingOf(page, frame, places) = t[i]
    BY <1>2 DEF MissingOf
  <2> HIDE DEF i, t
  <2> QED BY <1>2, <2>1, <2>2, <2>3
<1> QED BY <1>1, <1>2

LEMMA HandsAre ==
    /\ \A h \in Hands : h \in Loaders <=> h # "shell" /\ h # "call"
    /\ "kmalloc" \notin Hands
BY FrameAssumption DEF Hands

LEMMA TodoIs ==
    ASSUME TypeInv, NEW h \in Hands, Busy(h)
    PROVE  /\ Len(task[h].todo) \in Nat \ {0}
           /\ Head(task[h].todo) = task[h].todo[1]
           /\ Head(task[h].todo) \in Places \cup {"start", "buffer"}
           /\ Tail(task[h].todo) \in Seq(Places \cup {"start", "buffer"})
           /\ Len(Tail(task[h].todo)) = Len(task[h].todo) - 1
           /\ \A i \in 1 .. Len(task[h].todo) - 1 : Tail(task[h].todo)[i] = task[h].todo[i + 1]
           /\ \A S : task[h].todo \in Seq(S) =>
                 task[h].todo[1] \in S /\ Tail(task[h].todo) \in Seq(S)
<1>1. task[h].todo \in Seq(Places \cup {"start", "buffer"}) /\ task[h].todo # << >>
  BY DEF TypeInv, Task, Busy
<1> QED BY <1>1

\* Two hands never fill the same program.
LEMMA ProgramsDiffer ==
    ASSUME Filled, NEW g \in Hands, NEW h \in Hands \ {g}, Busy(g), Busy(h),
           g # "shell", h # "shell"
    PROVE  task[g].prog # task[h].prog
BY HandsAre DEF Filled, Filling

\* A hand that does not move goes on as before, unless its program was touched.
LEMMA OthersGoOn ==
    ASSUME TypeInv, Filled, NEW g \in Hands, task'[g] = task[g],
           Busy(g) /\ g # "shell" =>
             /\ space'[task[g].prog] = space[task[g].prog]
             /\ life'[task[g].prog] = life[task[g].prog]
    PROVE  Filling(g)'
<1>0. Filling(g)
  BY DEF Filled
<1>1. CASE ~Busy(g)
  BY <1>0, <1>1 DEF Filling, Busy, TypeInv, Task
<1>2. CASE Busy(g) /\ g # "shell"
  <2>1. Complete(g)' <=> Complete(g)
    BY <1>2 DEF Complete, Missing
  <2> QED BY <1>0, <1>2, <2>1 DEF Filling, Busy
<1>3. CASE Busy(g) /\ g = "shell"
  <2>1. Head(task[g].todo) = "buffer"
    BY <1>0, <1>3 DEF Filling
  <2>2. Missing(g) = "buffer" /\ Missing(g)' = "buffer"
    <3>1. \A frame, places : MissingOf("buffer", frame, places) = "buffer"
      BY MissingIs DEF Pages
    <3> QED BY <2>1, <3>1 DEF Missing
  <2>3. Complete(g)' <=> Complete(g)
    BY <2>2 DEF Complete
  <2> QED BY <1>0, <1>3, <2>3, HandsAre DEF Filling, Busy
<1> QED BY <1>1, <1>2, <1>3

LEMMA TaskChanges ==
    ASSUME TypeInv, NEW h \in Hands, NEW r \in Task, task' = [task EXCEPT ![h] = r]
    PROVE  /\ task' \in [Hands -> Task] /\ task'[h] = r
           /\ \A g \in Hands \ {h} : task'[g] = task[g]
BY DEF TypeInv

LEMMA RestIsTask == /\ Rest \in Task /\ Rest.todo = << >> /\ Rest.frame = NoFrame
                    /\ Rest.reading = FALSE /\ Rest.seen = NoFrame
BY DEF Rest, Task, MaybeFrame, NoFrame

\* A hand that rests fills nothing.
LEMMA RestFills ==
    ASSUME NEW h \in Hands, task'[h] = Rest
    PROVE  Filling(h)'
BY RestIsTask DEF Filling, Busy

LEMMA WordsOf ==
    ASSUME TypeInv, NEW h, NEW S \in SUBSET Frames, Unmarks(h, S)
    PROVE  /\ last_bit_index' \in {Word(f) : f \in S} \cup {last_bit_index}
           /\ last_bit_index' \in Nat
<1> DEFINE w == {Word(f) : f \in S} \cup {last_bit_index}
<1>1. w \in SUBSET Nat /\ w # {}
  BY WordType DEF TypeInv
<1>2. last_bit_index' = CHOOSE i \in w : \A j \in w : i <= j
  BY DEF Unmarks
<1> HIDE DEF w
<1>3. \E i \in w : \A j \in w : i <= j
  BY <1>1, NatMin
<1>4. last_bit_index' \in w
  BY <1>2, <1>3
<1> QED BY <1>1, <1>4 DEF w

-----------------------------------------------------------------------------
(***************************************************************************)
(* One lemma for each action.                                              *)
(***************************************************************************)

LEMMA AsksStep ==
    ASSUME IInv, NEW h \in Hands, Asks(h)
    PROVE  IInv'
<1> DEFINE r == [task[h] EXCEPT !.seen = NextFit, !.reading = TRUE]
<1>0. TypeInv /\ Filled
  BY DEF IInv
<1>1. NextFit \in MaybeFrame /\ NextFit \notin used
  BY <1>0, NextFitIsFree DEF TypeInv, MaybeFrame, FreeFrames, Frames, NoFrame
<1>2. /\ task' = [task EXCEPT ![h] = r]
      /\ UNCHANGED <<used, last_bit_index, space, life, kheap, cr3, lost>>
      /\ raced' = (raced \/ Overlaps(h)) /\ raced' \in BOOLEAN
  BY <1>0 DEF Asks, TypeInv, Task
<1>3. /\ r \in Task /\ r.todo = task[h].todo /\ r.prog = task[h].prog
      /\ r.frame = task[h].frame /\ r.seen = NextFit /\ r.reading
  BY <1>0, <1>1 DEF TypeInv, Task
<1> HIDE DEF r
<1>4. task' \in [Hands -> Task] /\ task'[h] = r /\ \A g \in Hands \ {h} : task'[g] = task[g]
  BY <1>0, <1>2, <1>3, TaskChanges
<1>5. TypeInv'
  BY <1>0, <1>2, <1>4 DEF TypeInv
<1>6. Filling(h)'
  <2>1. Filling(h) /\ Busy(h) /\ Head(task[h].todo) # "start" /\ ~Complete(h)
    BY <1>0 DEF Filled, Asks, Idle, Busy
  <2>2. Complete(h)' <=> Complete(h)
    BY <1>2, <1>3, <1>4 DEF Complete, Missing
  <2> QED BY <1>2, <1>3, <1>4, <2>1, <2>2 DEF Filling, Busy
<1>7. \A g \in Hands \ {h} : Filling(g)'
  BY <1>0, <1>2, <1>4, OthersGoOn
<1>8. Filled'
  <2>1. \A g \in Hands : Busy(g)' <=> Busy(g)
    BY <1>3, <1>4 DEF Busy
  <2>2. \A g \in Hands : task'[g].prog = task[g].prog
    BY <1>3, <1>4
  <2> QED BY <1>0, <1>2, <1>6, <1>7, <2>1, <2>2 DEF Filled, Hands
<1>9. ~raced /\ Owned => Owned'
  BY <1>2, <1>3, <1>4, NothingMoves DEF SameHands
<1>10. Fresh => Fresh'
  BY <1>1, <1>2, <1>3, <1>4 DEF Fresh
<1> QED BY <1>2, <1>5, <1>8, <1>9, <1>10 DEF IInv

\* Who gets or gives up a frame and goes on to the next: its list afterwards.
LEMMA TailFills ==
    ASSUME TypeInv, Filled, NEW h \in Hands, Busy(h), h # "shell",
           task'[h].todo = Tail(task[h].todo), task'[h].prog = task[h].prog,
           task'[h].frame = NoFrame, ~task'[h].reading,
           life'[task[h].prog] = life[task[h].prog],
           \A x \in Places : x # task[h].todo[1] =>
              space'[task[h].prog][x] = space[task[h].prog][x],
           h \in Loaders
    PROVE  Filling(h)'
<1>0. Filling(h) /\ h # "call"
  BY HandsAre DEF Filled
<1>1. /\ Len(task[h].todo) \in Nat \ {0}
      /\ Len(task'[h].todo) = Len(task[h].todo) - 1
      /\ \A i \in 1 .. Len(task[h].todo) - 1 : task'[h].todo[i] = task[h].todo[i + 1]
      /\ \A S : task[h].todo \in Seq(S) => task'[h].todo \in Seq(S)
  BY TodoIs
<1>2. \A i, j \in 1 .. Len(task'[h].todo) : task'[h].todo[i] = task'[h].todo[j] => i = j
  BY <1>0, <1>1 DEF Filling
<1>3. ASSUME NEW i \in 1 .. Len(task'[h].todo), task'[h].todo[i] \in Places
      PROVE  space'[task'[h].prog][task'[h].todo[i]] = NoFrame
  <2>1. i + 1 \in 1 .. Len(task[h].todo) /\ task'[h].todo[i] = task[h].todo[i + 1]
    BY <1>1
  <2>2. task[h].todo[i + 1] # task[h].todo[1]
    BY <1>0, <1>1, <2>1 DEF Filling
  <2>3. space[task[h].prog][task[h].todo[i + 1]] = NoFrame
    BY <1>0, <1>3, <2>1 DEF Filling
  <2> QED BY <1>3, <2>1, <2>2, <2>3
<1>4. /\ task'[h].prog \in Programs /\ life'[task'[h].prog] = "loading"
      /\ task'[h].todo \in Seq(Core \cup {"image", "stack", "start"})
  BY <1>0, <1>1 DEF Filling
<1> QED BY <1>0, <1>2, <1>3, <1>4 DEF Filling, Busy

LEMMA GetsTableStep ==
    ASSUME IInv, NEW h \in Hands, GetsTable(h)
    PROVE  IInv'
<1> DEFINE x == Missing(h)  p == task[h].prog  page == task[h].todo[1]
           r == [task[h] EXCEPT !.seen = NoFrame, !.reading = FALSE,
                                !.todo = IF Head(@) \in Core THEN Tail(@) ELSE @]
<1>0. TypeInv /\ Filled /\ Filling(h)
  BY DEF IInv, Filled
<1>1. /\ task[h].reading /\ task[h].seen # NoFrame /\ x \in Tables
      /\ space' = [space EXCEPT ![p][x] = task[h].seen]
      /\ Marks(h, task[h].seen) /\ UNCHANGED <<life, kheap, cr3, lost>>
  BY DEF GetsTable, Answered
<1>2. Busy(h) /\ ~Complete(h) /\ Head(task[h].todo) = page /\ page \in Places \cup {"start", "buffer"}
  BY <1>0, <1>1, TodoIs DEF Filling
<1>3. h # "shell"
  <2> SUFFICES ASSUME h = "shell" PROVE x = "buffer"
    BY <1>1 DEF Tables, Core
  <2>1. Head(task[h].todo) = "buffer"
    BY <1>0, <1>2 DEF Filling
  <2> QED BY <2>1, MissingIs DEF Missing, Pages
<1>4. p \in Programs /\ life[p] # "none"
  BY <1>0, <1>2, <1>3, HandsAre DEF Filling
<1>5. \/ x = page /\ page \in Core /\ task[h].frame = NoFrame /\ h \in Loaders
      \/ x \in LowTables /\ page \in Pages /\ space[p][x] = NoFrame
  <2>1. x = page \/ (x \in LowTables /\ page \in Pages /\ space[p][x] = NoFrame)
    BY <1>2, MissingIs DEF Missing
  <2>2. CASE x = page
    <3>1. page \in Core \/ page \in {"image", "stack", "start", "heap"}
      <4>1. CASE h \in Loaders
        <5>1. task[h].todo \in Seq(Core \cup {"image", "stack", "start"})
          BY <1>0, <1>2, <4>1 DEF Filling
        <5> QED BY <1>0, <1>2, <5>1, TodoIs
      <4>2. CASE h = "call"
        <5>1. task[h].todo = <<"heap">>
          BY <1>0, <1>2, <4>2 DEF Filling
        <5> QED BY <5>1
      <4> QED BY <1>3, <4>1, <4>2, HandsAre
    <3>2. page \in Core /\ page # "heap"
      BY <1>1, <2>2, <3>1 DEF Tables, Core
    <3>3. page \notin Pages \cup {"buffer"}
      BY <3>2 DEF Core, Pages
    <3>4. h \in Loaders
      BY <1>0, <1>2, <1>3, <3>2, HandsAre DEF Filling
    <3> QED BY <1>0, <1>2, <2>2, <3>2, <3>3, <3>4 DEF Filling
  <2> QED BY <2>1, <2>2
<1>6. space[p][x] = NoFrame
  <2>1. CASE x = page
    <3>1. 1 \in 1 .. Len(task[h].todo)
      BY <1>0, <1>2, TodoIs
    <3> QED BY <1>0, <1>1, <1>3, <2>1, <3>1 DEF Filling, Places
  <2> QED BY <1>5, <2>1
<1>7. task' = [task EXCEPT ![h] = r]
  BY <1>0 DEF GetsTable, TypeInv, Task
<1>8. /\ r \in Task /\ r.prog = p /\ r.frame = task[h].frame /\ r.seen = NoFrame /\ ~r.reading
      /\ r.todo = IF page \in Core THEN Tail(task[h].todo) ELSE task[h].todo
  <2> DEFINE todo == IF Head(task[h].todo) \in Core THEN Tail(task[h].todo) ELSE task[h].todo
  <2>1. todo \in Seq(Places \cup {"start", "buffer"})
    BY <1>0, <1>2, TodoIs DEF TypeInv, Task
  <2>2. r = [task[h] EXCEPT !.seen = NoFrame, !.reading = FALSE, !.todo = todo]
    BY <1>0 DEF TypeInv, Task
  <2> HIDE DEF r, todo
  <2>3. /\ r \in Task /\ r.prog = p /\ r.frame = task[h].frame /\ r.seen = NoFrame /\ ~r.reading
        /\ r.todo = todo
    BY <1>0, <2>1, <2>2 DEF TypeInv, Task, MaybeFrame
  <2> QED BY <1>2, <2>3 DEF todo
<1> HIDE DEF r, x, p
<1>9. task' \in [Hands -> Task] /\ task'[h] = r /\ \A g \in Hands \ {h} : task'[g] = task[g]
  BY <1>0, <1>7, <1>8, TaskChanges
<1>10. task[h].seen \in Frames /\ x \in Places
  BY <1>0, <1>1 DEF TypeInv, Task, MaybeFrame, Places
<1>11. TypeInv'
  <2>1. space' \in [Programs -> [Places -> MaybeFrame]]
    BY <1>0, <1>1, <1>10 DEF TypeInv, MaybeFrame
  <2>2. used' \subseteq Frames /\ last_bit_index' \in Nat /\ raced' \in BOOLEAN
    BY <1>0, <1>1, <1>10, WordType DEF Marks, TypeInv
  <2> QED BY <1>0, <1>1, <1>9, <2>1, <2>2 DEF TypeInv
<1>12. \A q \in Programs : \A y \in Places :
          space'[q][y] = IF q = p /\ y = x THEN task[h].seen ELSE space[q][y]
  BY <1>0, <1>1, <1>10 DEF TypeInv
<1>13. Filling(h)'
  <2>1. CASE page \in Core
    <3>1. h \in Loaders /\ x = page /\ r.frame = NoFrame
      BY <1>5, <1>8, <2>1 DEF Core, Pages
    <3>2. \A y \in Places : y # page => space'[p][y] = space[p][y]
      BY <1>4, <1>12, <3>1
    <3>3. life'[p] = life[p] /\ task'[h].todo = Tail(task[h].todo)
      BY <1>1, <1>8, <1>9, <2>1
    <3> QED BY <1>0, <1>2, <1>3, <1>8, <1>9, <3>1, <3>2, <3>3, TailFills DEF p
  <2>2. CASE page \notin Core
    <3>1. x \in LowTables /\ r.todo = task[h].todo
      BY <1>5, <1>8, <2>2
    <3>2. \A i \in 1 .. Len(task[h].todo) : task[h].todo[i] \notin LowTables
      <4>1. task[h].todo \in Seq(Core \cup {"image", "stack", "start"}) \/ task[h].todo = <<"heap">>
        BY <1>0, <1>2, <1>3, HandsAre DEF Filling
      <4> QED BY <4>1 DEF LowTables, Core
    <3>3. \A i \in 1 .. Len(task[h].todo) : task[h].todo[i] \in Places =>
             space'[p][task[h].todo[i]] = NoFrame
      BY <1>0, <1>3, <1>4, <1>12, <3>1, <3>2 DEF Filling, p
    <3>4. task'[h].todo = task[h].todo /\ task'[h].prog = p /\ task'[h].frame = task[h].frame
          /\ ~task'[h].reading /\ life' = life
      BY <1>1, <1>8, <1>9, <3>1
    <3> QED BY <1>0, <3>3, <3>4 DEF Filling, Busy, p
  <2> QED BY <2>1, <2>2
<1>14. \A g \in Hands \ {h} : Filling(g)'
  <2> TAKE g \in Hands \ {h}
  <2>1. Busy(g) /\ g # "shell" => task[g].prog # p /\ task[g].prog \in Programs
    BY <1>0, <1>2, <1>3, ProgramsDiffer, HandsAre DEF Filled, Filling, p
  <2>2. Busy(g) /\ g # "shell" => space'[task[g].prog] = space[task[g].prog]
    BY <1>0, <1>1, <2>1 DEF TypeInv
  <2> QED BY <1>0, <1>1, <1>9, <2>2, OthersGoOn
<1>15. Filled'
  <2>1. \A g \in Hands : (Busy(g)' => Busy(g)) /\ task'[g].prog = task[g].prog
    BY <1>2, <1>8, <1>9 DEF Busy, p
  <2>2. \A q \in Programs : life[q] = "none" => space'[q] = space[q]
    BY <1>0, <1>1, <1>4 DEF TypeInv
  <2> QED BY <1>0, <1>1, <1>13, <1>14, <2>1, <2>2 DEF Filled, Hands
<1>16. ASSUME ~raced' PROVE Owned' /\ Fresh'
  <2>1. Owned /\ Fresh /\ ~Overlaps(h)
    BY <1>1, <1>16 DEF IInv, Marks
  <2>2. task[h].seen \in Frames \ used
    BY <1>1, <1>10, <2>1 DEF Fresh
  <2>3. SameHands
    BY <1>8, <1>9 DEF SameHands
  <2>4. Owned'
    BY <1>0, <1>1, <1>4, <1>6, <1>10, <2>1, <2>2, <2>3, PlaceTakes DEF Marks
  <2>5. \A g \in Hands : ~task'[g].reading
    BY <1>8, <1>9, <2>1 DEF Overlaps
  <2> QED BY <2>4, <2>5 DEF Fresh
<1> QED BY <1>11, <1>15, <1>16 DEF IInv

LEMMA GetsPageStep ==
    ASSUME IInv, NEW h \in Hands, GetsPage(h)
    PROVE  IInv'
<1> DEFINE r == [task[h] EXCEPT !.frame = task[h].seen, !.seen = NoFrame, !.reading = FALSE]
<1>0. TypeInv /\ Filled /\ Filling(h)
  BY DEF IInv, Filled
<1>1. /\ task[h].reading /\ task[h].seen # NoFrame /\ Missing(h) \in Pages \cup {"buffer"}
      /\ Marks(h, task[h].seen) /\ UNCHANGED <<space, life, kheap, cr3, lost>>
  BY DEF GetsPage, Answered
<1>2. Busy(h) /\ ~Complete(h) /\ Head(task[h].todo) \in Places \cup {"start", "buffer"}
  BY <1>0, <1>1, TodoIs DEF Filling
<1>3. Missing(h) = Head(task[h].todo) /\ task[h].frame = NoFrame
  <2>1. Missing(h) \notin LowTables
    BY <1>1 DEF LowTables, Pages
  <2>2. Missing(h) = Head(task[h].todo)
    BY <1>2, <2>1, MissingIs DEF Missing
  <2> QED BY <1>2, <2>2 DEF Complete
<1>7. task' = [task EXCEPT ![h] = r]
  BY <1>0 DEF GetsPage, TypeInv, Task
<1>8. /\ r \in Task /\ r.prog = task[h].prog /\ r.frame = task[h].seen /\ ~r.reading
      /\ r.todo = task[h].todo
  BY <1>0 DEF TypeInv, Task, MaybeFrame
<1> HIDE DEF r
<1>9. task' \in [Hands -> Task] /\ task'[h] = r /\ \A g \in Hands \ {h} : task'[g] = task[g]
  BY <1>0, <1>7, <1>8, TaskChanges
<1>10. task[h].seen \in Frames
  BY <1>0, <1>1 DEF TypeInv, Task, MaybeFrame
<1>11. TypeInv'
  <2>2. used' \subseteq Frames /\ last_bit_index' \in Nat /\ raced' \in BOOLEAN
    BY <1>0, <1>1, <1>10, WordType DEF Marks, TypeInv
  <2> QED BY <1>0, <1>1, <1>9, <2>2 DEF TypeInv
<1>13. Filling(h)'
  BY <1>0, <1>1, <1>2, <1>3, <1>8, <1>9 DEF Filling, Busy
<1>14. \A g \in Hands \ {h} : Filling(g)'
  BY <1>0, <1>1, <1>9, OthersGoOn
<1>15. Filled'
  <2>1. \A g \in Hands : (Busy(g)' => Busy(g)) /\ task'[g].prog = task[g].prog
    BY <1>2, <1>8, <1>9 DEF Busy
  <2> QED BY <1>0, <1>1, <1>13, <1>14, <2>1 DEF Filled, Hands
<1>16. ASSUME ~raced' PROVE Owned' /\ Fresh'
  <2>1. Owned /\ Fresh /\ ~Overlaps(h)
    BY <1>1, <1>16 DEF IInv, Marks
  <2>2. task[h].seen \in Frames \ used
    BY <1>1, <1>10, <2>1 DEF Fresh
  <2>4. Owned'
    BY <1>0, <1>1, <1>3, <1>8, <1>9, <2>1, <2>2, HandTakes DEF Marks
  <2>5. \A g \in Hands : ~task'[g].reading
    BY <1>8, <1>9, <2>1 DEF Overlaps
  <2> QED BY <2>4, <2>5 DEF Fresh
<1> QED BY <1>11, <1>15, <1>16 DEF IInv

\* What a step that changes one hand must show of the others and of the programs.
LEMMA OneHandMoves ==
    ASSUME TypeInv, Filled, NEW h \in Hands, Filling(h)', Busy(h)' => Busy(h),
           Busy(h)' => task'[h].prog = task[h].prog,
           \A g \in Hands \ {h} : task'[g] = task[g],
           \A g \in Hands \ {h} : Busy(g) /\ g # "shell" =>
             /\ space'[task[g].prog] = space[task[g].prog]
             /\ life'[task[g].prog] = life[task[g].prog],
           \A p \in Programs : life'[p] = "none" => space'[p] = Nobody
    PROVE  Filled'
<1>1. \A g \in Hands : Filling(g)'
  BY OthersGoOn
<1>2. \A g \in Hands : (Busy(g)' => Busy(g)) /\ (Busy(g)' => task'[g].prog = task[g].prog)
  BY DEF Busy
<1> QED BY <1>1, <1>2 DEF Filled, Hands

LEMMA MapsPageStep ==
    ASSUME IInv, NEW h \in Hands, MapsPage(h)
    PROVE  IInv'
<1> DEFINE p == task[h].prog  page == task[h].todo[1]
           r == IF h = "call" THEN Rest ELSE [task[h] EXCEPT !.todo = Tail(@), !.frame = NoFrame]
<1>0. TypeInv /\ Filled /\ Filling(h)
  BY DEF IInv, Filled
<1>1. /\ Busy(h) /\ ~task[h].reading /\ Complete(h)
      /\ UNCHANGED <<used, last_bit_index, raced, life, kheap, cr3, lost>>
  BY DEF MapsPage, Idle, Busy, KeepsBitmap
<1>2. /\ Head(task[h].todo) = page /\ page \in Pages
      /\ Tail(task[h].todo) \in Seq(Places \cup {"start", "buffer"})
      /\ 1 \in 1 .. Len(task[h].todo)
  BY <1>0, <1>1, TodoIs DEF MapsPage
<1>3. h # "shell"
  <2> SUFFICES ASSUME h = "shell" PROVE page = "buffer"
    BY <1>2 DEF Pages
  <2> QED BY <1>0, <1>1 DEF Filling
<1>4. p \in Programs /\ life[p] # "none"
  BY <1>0, <1>1, <1>3, HandsAre DEF Filling
<1>5. space[p][page] = NoFrame /\ task[h].frame # NoFrame /\ page \in Places
  BY <1>0, <1>1, <1>2, <1>3 DEF Filling, Complete, Places
<1>6. space' = [space EXCEPT ![p][page] = task[h].frame] /\ task' = [task EXCEPT ![h] = r]
  <2>1. space' = [space EXCEPT ![p][page] = task[h].frame]
    BY <1>2 DEF MapsPage
  <2>2. task' = [task EXCEPT ![h] = r]
    BY DEF MapsPage
  <2> QED BY <2>1, <2>2
<1>7. r \in Task /\ r.frame = NoFrame /\ ~r.reading
  BY <1>0, <1>1, <1>2, RestIsTask DEF TypeInv, Task, MaybeFrame
<1>8. h # "call" => r.todo = Tail(task[h].todo) /\ r.prog = p
  BY <1>0 DEF TypeInv, Task
<1>a. h = "call" => r = Rest
  OBVIOUS
<1> HIDE DEF r, p
<1>9. task' \in [Hands -> Task] /\ task'[h] = r /\ \A g \in Hands \ {h} : task'[g] = task[g]
  BY <1>0, <1>6, <1>7, TaskChanges
<1>10. task[h].frame \in Frames
  BY <1>0, <1>5 DEF TypeInv, Task, MaybeFrame
<1>11. TypeInv'
  <2>1. space' \in [Programs -> [Places -> MaybeFrame]]
    BY <1>0, <1>5, <1>6, <1>10 DEF TypeInv, MaybeFrame
  <2> QED BY <1>0, <1>1, <1>9, <2>1 DEF TypeInv
<1>12. \A y \in Places : y # page => space'[p][y] = space[p][y]
  BY <1>0, <1>4, <1>6 DEF TypeInv
<1>13. Filling(h)'
  <2>1. CASE h = "call"
    BY <1>9, <1>a, <2>1, RestFills
  <2>2. CASE h # "call"
    <3>1. h \in Loaders /\ r.todo = Tail(task[h].todo) /\ r.prog = p
      BY <1>3, <1>8, <2>2, HandsAre
    <3>2. life' = life
      BY <1>1
    <3> QED BY <1>0, <1>1, <1>3, <1>7, <1>9, <1>12, <3>1, <3>2, TailFills DEF p
  <2> QED BY <2>1, <2>2
<1>14. Filled'
  <2>1. \A g \in Hands \ {h} : Busy(g) /\ g # "shell" => space'[task[g].prog] = space[task[g].prog]
    <3> TAKE g \in Hands \ {h}
    <3>1. Busy(g) /\ g # "shell" => task[g].prog # p /\ task[g].prog \in Programs
      BY <1>0, <1>1, <1>3, ProgramsDiffer, HandsAre DEF Filled, Filling, p
    <3> QED BY <1>0, <1>6, <3>1 DEF TypeInv
  <2>2. \A q \in Programs : life[q] = "none" => space'[q] = space[q]
    BY <1>0, <1>4, <1>6 DEF TypeInv
  <2>3. Busy(h)' => task'[h].prog = task[h].prog
    <3>1. h = "call" => ~Busy(h)'
      BY <1>9, <1>a, RestIsTask DEF Busy
    <3> QED BY <1>8, <1>9, <3>1 DEF p
  <2>4. \A q \in Programs : life'[q] = "none" => space'[q] = Nobody
    BY <1>0, <1>1, <2>2 DEF Filled
  <2> QED BY <1>0, <1>1, <1>9, <1>13, <2>1, <2>3, <2>4, OneHandMoves
<1>15. ASSUME Owned PROVE Owned'
  <2>1. task'[h].frame = NoFrame /\ \A g \in Hands \ {h} : task'[g].frame = task[g].frame
    BY <1>7, <1>9
  <2>2. space' = [space EXCEPT ![p][page] = task[h].frame]
    BY <1>6
  <2> HIDE DEF page
  <2> QED BY <1>0, <1>1, <1>4, <1>5, <1>15, <2>1, <2>2, HandPlaces
<1>16. Fresh => Fresh'
  BY <1>1, <1>7, <1>9 DEF Fresh
<1> QED BY <1>1, <1>11, <1>14, <1>15, <1>16 DEF IInv

LEMMA PageDroppedStep ==
    ASSUME IInv, NEW h \in Hands, PageDropped(h)
    PROVE  IInv'
<1> DEFINE r == [task[h] EXCEPT !.todo = Tail(task[h].todo), !.frame = NoFrame, !.reading = FALSE]
<1>0. TypeInv /\ Filled /\ Filling(h)
  BY DEF IInv, Filled
<1>1. /\ h \in Loaders /\ task[h].reading /\ Busy(h) /\ h # "shell"
      /\ lost' = lost \cup ({task[h].frame} \ {NoFrame})
      /\ UNCHANGED <<used, last_bit_index, raced, space, life, kheap, cr3>>
  BY <1>0, HandsAre DEF PageDropped, Answered, KeepsBitmap, Filling
<1>2. task' = [task EXCEPT ![h] = r]
  BY <1>0 DEF PageDropped, TypeInv, Task
<1>3. Tail(task[h].todo) \in Seq(Places \cup {"start", "buffer"})
  BY <1>0, <1>1, TodoIs
<1>4. /\ r \in Task /\ r.frame = NoFrame /\ ~r.reading
      /\ r.todo = Tail(task[h].todo) /\ r.prog = task[h].prog
  BY <1>0, <1>3 DEF TypeInv, Task, MaybeFrame
<1> HIDE DEF r
<1>5. task' \in [Hands -> Task] /\ task'[h] = r /\ \A g \in Hands \ {h} : task'[g] = task[g]
  BY <1>0, <1>2, <1>4, TaskChanges
<1>6. TypeInv'
  <2>1. lost' \subseteq Frames
    BY <1>0, <1>1 DEF TypeInv, Task, MaybeFrame
  <2> QED BY <1>0, <1>1, <1>5, <2>1 DEF TypeInv
<1>7. Filling(h)'
  BY <1>0, <1>1, <1>4, <1>5, TailFills
<1>8. Filled'
  <2>1. \A q \in Programs : life'[q] = "none" => space'[q] = Nobody
    BY <1>0, <1>1 DEF Filled
  <2> QED BY <1>0, <1>1, <1>4, <1>5, <1>7, <2>1, OneHandMoves
<1>9. Owned => Owned'
  BY <1>0, <1>1, <1>4, <1>5, HandForgets
<1>10. Fresh => Fresh'
  BY <1>1, <1>4, <1>5 DEF Fresh
<1> QED BY <1>1, <1>6, <1>8, <1>9, <1>10 DEF IInv

\* A program's frames go, because its load failed, or it was refused, or it was reaped.
LEMMA ProgramGoes ==
    ASSUME TypeInv, Filled, NEW p \in Programs,
           space' = [space EXCEPT ![p] = Nobody], life' = [life EXCEPT ![p] = "none"]
    PROVE  /\ space' \in [Programs -> [Places -> MaybeFrame]]
           /\ life' \in [Programs -> {"none", "loading", "alive", "zombie"}]
           /\ \A q \in Programs : life'[q] = "none" => space'[q] = Nobody
           /\ \A q \in Programs \ {p} : space'[q] = space[q] /\ life'[q] = life[q]
BY DEF TypeInv, Filled, Nobody, MaybeFrame

LEMMA FramesAtTyped ==
    ASSUME TypeInv, NEW p \in Programs, NEW S \in SUBSET Places
    PROVE  FramesAt(p, S) \in SUBSET Frames
BY DEF TypeInv, FramesAt, MaybeFrame

LEMMA UnloadsFreed == FreedByUnload \in SUBSET Places
BY DEF FreedByUnload, Places, Tables, Core, Pages

\* A loader that gives its program up has no frame in hand, so that none is forgotten.
LEMMA LoaderEmptyHanded ==
    ASSUME IInv, NEW h \in Loaders, Busy(h),
           \/ task[h].reading /\ Missing(h) \in Core \cup {"image"}
           \/ task[h].frame = NoFrame
           \/ Head(task[h].todo) = "start"
    PROVE  /\ task[h].frame = NoFrame /\ task[h].prog \in Programs
           /\ life[task[h].prog] = "loading" /\ h \in Hands /\ h # "shell" /\ h # "call"
<1>0. TypeInv /\ Filled /\ h \in Hands /\ h # "shell" /\ h # "call"
  BY HandsAre DEF IInv, Hands
<1>1. Filling(h)
  BY <1>0 DEF Filled
<1>2. task[h].prog \in Programs /\ life[task[h].prog] = "loading"
  BY <1>1 DEF Filling
<1>3. CASE task[h].frame = NoFrame
  BY <1>0, <1>2, <1>3
<1>4. CASE Head(task[h].todo) = "start"
  BY <1>0, <1>1, <1>2, <1>4 DEF Filling, Pages
<1>5. CASE task[h].reading /\ Missing(h) \in Core \cup {"image"} /\ task[h].frame # NoFrame
  <2>1. Missing(h) \notin LowTables
    BY <1>5 DEF Core, LowTables
  <2>2. Head(task[h].todo) \in Places \cup {"start", "buffer"}
    BY <1>0, TodoIs
  <2>3. Missing(h) = Head(task[h].todo)
    BY <2>1, <2>2, MissingIs DEF Missing
  <2> QED BY <1>1, <1>5, <2>3 DEF Filling, Complete
<1> QED BY <1>3, <1>4, <1>5

\* The last step of a loader: it rests, its program is loaded or gone.
LEMMA LoaderRests ==
    ASSUME IInv, NEW h \in Loaders, Busy(h),
           task[h].frame = NoFrame, task[h].prog \in Programs, life[task[h].prog] = "loading",
           task' = [task EXCEPT ![h] = Rest],
           \A q \in Programs \ {task[h].prog} : space'[q] = space[q] /\ life'[q] = life[q],
           \A q \in Programs : life'[q] = "none" => space'[q] = Nobody
    PROVE  /\ task' \in [Hands -> Task] /\ SameHands /\ Filled'
           /\ \A g \in Hands : task'[g].reading => g # h /\ task'[g] = task[g]
<1>0. TypeInv /\ Filled /\ h \in Hands /\ h # "shell" /\ h # "call"
  BY HandsAre DEF IInv, Hands
<1>1. task' \in [Hands -> Task] /\ task'[h] = Rest /\ \A g \in Hands \ {h} : task'[g] = task[g]
  BY <1>0, RestIsTask, TaskChanges
<1>2. Filling(h)' /\ ~Busy(h)'
  BY <1>0, <1>1, RestFills, RestIsTask DEF Busy
<1>3. \A g \in Hands \ {h} : Busy(g) /\ g # "shell" =>
        task[g].prog \in Programs \ {task[h].prog}
  BY <1>0, ProgramsDiffer, HandsAre DEF Filled, Filling
<1>4. Filled'
  BY <1>0, <1>1, <1>2, <1>3, OneHandMoves
<1> QED BY <1>1, <1>4, RestIsTask DEF SameHands

LEMMA LoadFailsStep ==
    ASSUME IInv, NEW h \in Hands, LoadFails(h)
    PROVE  IInv'
<1> DEFINE p == task[h].prog
<1>0. TypeInv /\ Filled /\ h \in Loaders /\ Busy(h)
  BY DEF IInv, LoadFails, Idle, Busy
<1>1. /\ Unloads(h, p, {}) /\ task' = [task EXCEPT ![h] = Rest] /\ UNCHANGED <<kheap, cr3>>
  BY DEF LoadFails
<1>2. task[h].frame = NoFrame /\ p \in Programs /\ life[p] = "loading"
  BY <1>0, LoaderEmptyHanded DEF LoadFails, Answered
<1>3. /\ Unmarks(h, FramesAt(p, FreedByUnload))
      /\ lost' = lost \cup FramesAt(p, Places \ FreedByUnload)
      /\ space' = [space EXCEPT ![p] = Nobody] /\ life' = [life EXCEPT ![p] = "none"]
  BY <1>1 DEF Unloads
<1> HIDE DEF p
<1>4. /\ space' \in [Programs -> [Places -> MaybeFrame]]
      /\ life' \in [Programs -> {"none", "loading", "alive", "zombie"}]
      /\ \A q \in Programs : life'[q] = "none" => space'[q] = Nobody
      /\ \A q \in Programs \ {p} : space'[q] = space[q] /\ life'[q] = life[q]
  BY <1>0, <1>2, <1>3, ProgramGoes
<1>5. /\ task' \in [Hands -> Task] /\ SameHands /\ Filled'
      /\ \A g \in Hands : task'[g].reading => g # h /\ task'[g] = task[g]
  BY <1>0, <1>1, <1>2, <1>4, LoaderRests DEF p
<1>6. TypeInv'
  <2>1. FramesAt(p, FreedByUnload) \in SUBSET Frames /\ lost' \subseteq Frames
    BY <1>0, <1>2, <1>3, FramesAtTyped, UnloadsFreed DEF TypeInv
  <2>2. last_bit_index' \in Nat
    BY <1>0, <1>3, <2>1, WordsOf
  <2>3. used' \subseteq Frames /\ raced' \in BOOLEAN
    BY <1>0, <1>3 DEF Unmarks, TypeInv
  <2> QED BY <1>0, <1>1, <1>4, <1>5, <2>1, <2>2, <2>3 DEF TypeInv
<1>7. ASSUME Owned PROVE Owned'
  BY <1>0, <1>1, <1>2, <1>3, <1>5, <1>7, UnloadsFreed, ProgramLeaves DEF Unmarks
<1>8. ASSUME Fresh PROVE Fresh'
  BY <1>3, <1>5, <1>8 DEF Fresh, Unmarks
<1>9. raced => raced'
  BY <1>3 DEF Unmarks
<1> QED BY <1>5, <1>6, <1>7, <1>8, <1>9 DEF IInv

LEMMA LoadEndsStep ==
    ASSUME IInv, NEW h \in Hands, LoadEnds(h)
    PROVE  IInv'
<1> DEFINE p == task[h].prog
<1>0. TypeInv /\ Filled /\ h \in Loaders /\ Busy(h)
  BY DEF IInv, LoadEnds, Idle, Busy
<1>1. task' = [task EXCEPT ![h] = Rest] /\ UNCHANGED <<used, last_bit_index, raced, kheap, cr3>>
  BY DEF LoadEnds, KeepsBitmap
<1>2. task[h].frame = NoFrame /\ p \in Programs /\ life[p] = "loading"
  BY <1>0, LoaderEmptyHanded DEF LoadEnds
<1>3. CASE life' = [life EXCEPT ![p] = "alive"] /\ UNCHANGED <<space, lost>>
  <2>1. /\ life' \in [Programs -> {"none", "loading", "alive", "zombie"}]
        /\ \A q \in Programs : life'[q] = "none" => space'[q] = Nobody
        /\ \A q \in Programs \ {p} : space'[q] = space[q] /\ life'[q] = life[q]
    BY <1>0, <1>2, <1>3 DEF TypeInv, Filled
  <2>2. /\ task' \in [Hands -> Task] /\ SameHands /\ Filled'
        /\ \A g \in Hands : task'[g].reading => g # h /\ task'[g] = task[g]
    BY <1>0, <1>1, <1>2, <2>1, LoaderRests
  <2>3. TypeInv'
    BY <1>0, <1>1, <1>3, <2>1, <2>2 DEF TypeInv
  <2>4. Owned => Owned'
    BY <1>1, <1>3, <2>2, NothingMoves
  <2>5. Fresh => Fresh'
    BY <1>1, <2>2 DEF Fresh
  <2> QED BY <1>1, <2>2, <2>3, <2>4, <2>5 DEF IInv
<1>4. CASE /\ lost' = lost \cup FramesAt(p, Places) /\ space' = [space EXCEPT ![p] = Nobody]
           /\ life' = [life EXCEPT ![p] = "none"]
  <2>1. /\ space' \in [Programs -> [Places -> MaybeFrame]]
        /\ life' \in [Programs -> {"none", "loading", "alive", "zombie"}]
        /\ \A q \in Programs : life'[q] = "none" => space'[q] = Nobody
        /\ \A q \in Programs \ {p} : space'[q] = space[q] /\ life'[q] = life[q]
    BY <1>0, <1>2, <1>4, ProgramGoes
  <2>2. /\ task' \in [Hands -> Task] /\ SameHands /\ Filled'
        /\ \A g \in Hands : task'[g].reading => g # h /\ task'[g] = task[g]
    BY <1>0, <1>1, <1>2, <2>1, LoaderRests
  <2>3. TypeInv'
    <3>1. lost' \subseteq Frames
      BY <1>0, <1>2, <1>4, FramesAtTyped DEF TypeInv
    <3> QED BY <1>0, <1>1, <2>1, <2>2, <3>1 DEF TypeInv
  <2>4. ASSUME Owned PROVE Owned'
    <3>1. FramesAt(p, {}) = {} /\ used' = used \ FramesAt(p, {}) /\ Places \ {} = Places
      BY <1>1 DEF FramesAt
    <3>2. {} \in SUBSET Places /\ kheap' = kheap
      BY <1>1
    <3> QED BY <1>0, <1>2, <1>4, <2>2, <2>4, <3>1, <3>2, ProgramLeaves
  <2>5. Fresh => Fresh'
    BY <1>1, <2>2 DEF Fresh
  <2> QED BY <1>1, <2>2, <2>3, <2>4, <2>5 DEF IInv
<1> QED BY <1>3, <1>4 DEF LoadEnds

\* A hand at rest is given work; no frame moves.
LEMMA Begins ==
    ASSUME IInv, NEW h \in Hands, ~Busy(h), NEW r \in Task, r.frame = NoFrame, ~r.reading,
           task' = [task EXCEPT ![h] = r],
           UNCHANGED <<used, last_bit_index, space, kheap, raced, lost>>,
           life' \in [Programs -> {"none", "loading", "alive", "zombie"}]
    PROVE  /\ TypeInv' /\ (raced' \/ (Owned' /\ Fresh'))
           /\ task'[h] = r /\ \A g \in Hands \ {h} : task'[g] = task[g]
<1>0. TypeInv /\ Filled /\ Filling(h)
  BY DEF IInv, Filled
<1>1. task' \in [Hands -> Task] /\ task'[h] = r /\ \A g \in Hands \ {h} : task'[g] = task[g]
  BY <1>0, TaskChanges
<1>2. task[h].frame = NoFrame
  BY <1>0 DEF Filling
<1>3. TypeInv'
  BY <1>0, <1>1 DEF TypeInv
<1>4. Owned => Owned'
  BY <1>1, <1>2, NothingMoves DEF SameHands
<1>5. Fresh => Fresh'
  BY <1>1 DEF Fresh
<1> QED BY <1>1, <1>3, <1>4, <1>5 DEF IInv

LEMMA StartsLoadStep ==
    ASSUME IInv, NEW h \in Loaders, NEW p \in Programs, StartsLoad(h, p)
    PROVE  IInv'
<1> DEFINE list == <<"pml4", "pdpt", "image", "stack", "start">>
           r == [Rest EXCEPT !.todo = list, !.prog = p]
<1>0. TypeInv /\ Filled /\ h \in Hands /\ ~Busy(h) /\ h # "shell" /\ h # "call"
  BY HandsAre DEF IInv, StartsLoad, Idle, Busy, Hands
<1>1. /\ life[p] = "none" /\ life' = [life EXCEPT ![p] = "loading"]
      /\ task' = [task EXCEPT ![h] = r]
      /\ UNCHANGED <<used, last_bit_index, space, kheap, cr3, raced, lost>>
  BY DEF StartsLoad
<1>2. /\ list \in Seq(Core \cup {"image", "stack", "start"}) /\ Len(list) = 5
      /\ list \in Seq(Places \cup {"start", "buffer"}) /\ list # << >>
      /\ \A i, j \in 1 .. 5 : list[i] = list[j] => i = j
  <2>1. Core \cup {"image", "stack", "start"} \in SUBSET (Places \cup {"start", "buffer"})
    BY DEF Core, Places, Tables, Pages
  <2>2. list \in Seq(Core \cup {"image", "stack", "start"})
    BY DEF Core
  <2>3. \A i, j \in 1 .. 5 : list[i] = list[j] => i = j
    OBVIOUS
  <2>4. Len(list) = 5 /\ list # << >>
    OBVIOUS
  <2> HIDE DEF list
  <2> QED BY <2>1, <2>2, <2>3, <2>4
<1> HIDE DEF list
<1>3. r \in Task /\ r.todo = list /\ r.prog = p /\ r.frame = NoFrame /\ ~r.reading
  BY <1>2 DEF Rest, Task, MaybeFrame
<1> HIDE DEF r
<1>4. /\ life' \in [Programs -> {"none", "loading", "alive", "zombie"}]
      /\ \A q \in Programs : life'[q] = IF q = p THEN "loading" ELSE life[q]
  BY <1>0, <1>1 DEF TypeInv
<1>5. /\ TypeInv' /\ (raced' \/ (Owned' /\ Fresh'))
      /\ task'[h] = r /\ \A g \in Hands \ {h} : task'[g] = task[g]
  BY <1>0, <1>1, <1>3, <1>4, Begins
<1>6. \A x \in Places : space'[p][x] = NoFrame
  BY <1>0, <1>1 DEF Filled, Nobody
<1>7. Filling(h)'
  BY <1>0, <1>2, <1>3, <1>4, <1>5, <1>6 DEF Filling, Busy
<1>8. \A g \in Hands \ {h} : Busy(g) /\ g # "shell" => task[g].prog \in Programs \ {p}
  BY <1>0, <1>1, HandsAre DEF Filled, Filling
<1>9. \A g \in Hands \ {h} : Filling(g)'
  BY <1>0, <1>1, <1>4, <1>5, <1>8, OthersGoOn
<1>10. \A g, k \in Loaders : Busy(g)' /\ Busy(k)' /\ task'[g].prog = task'[k].prog => g = k
  <2>1. \A g \in Loaders \ {h} : Busy(g)' => Busy(g) /\ task'[g].prog = task[g].prog /\ task[g].prog # p
    BY <1>5, <1>8, HandsAre DEF Busy, Hands
  <2>2. task'[h].prog = p
    BY <1>3, <1>5
  <2> QED BY <1>0, <2>1, <2>2 DEF Filled
<1>11. Filled'
  <2>1. \A q \in Programs : life'[q] = "none" => space'[q] = Nobody
    BY <1>0, <1>1, <1>4 DEF Filled
  <2> QED BY <1>7, <1>9, <1>10, <2>1 DEF Filled
<1> QED BY <1>5, <1>11 DEF IInv

LEMMA CallsSbrkStep ==
    ASSUME IInv, NEW p \in Programs, CallsSbrk(p)
    PROVE  IInv'
<1> DEFINE r == [Rest EXCEPT !.todo = <<"heap">>, !.prog = p]
<1>0. TypeInv /\ Filled /\ "call" \in Hands /\ ~Busy("call") /\ "call" \notin Loaders
  BY HandsAre DEF IInv, CallsSbrk, Idle, Busy, Hands
<1>1. /\ life[p] = "alive" /\ space[p]["heap"] = NoFrame /\ task' = [task EXCEPT !["call"] = r]
      /\ UNCHANGED <<used, last_bit_index, space, life, kheap, cr3, raced, lost>>
  BY DEF CallsSbrk
<1>3. r \in Task /\ r.todo = <<"heap">> /\ r.prog = p /\ r.frame = NoFrame /\ ~r.reading
  <2>1. <<"heap">> \in Seq(Places \cup {"start", "buffer"})
    BY DEF Places, Pages
  <2> QED BY <2>1 DEF Rest, Task, MaybeFrame
<1> HIDE DEF r
<1>5. /\ TypeInv' /\ (raced' \/ (Owned' /\ Fresh'))
      /\ task'["call"] = r /\ \A g \in Hands \ {"call"} : task'[g] = task[g]
  <2>1. life' \in [Programs -> {"none", "loading", "alive", "zombie"}]
    BY <1>0, <1>1 DEF TypeInv
  <2> QED BY <1>0, <1>1, <1>3, <2>1, Begins
<1>7. Filling("call")'
  BY <1>0, <1>1, <1>3, <1>5 DEF Filling, Busy
<1>9. \A g \in Hands \ {"call"} : Filling(g)'
  BY <1>0, <1>1, <1>5, OthersGoOn
<1>11. Filled'
  BY <1>0, <1>1, <1>5, <1>7, <1>9 DEF Filled, Busy, Hands
<1> QED BY <1>5, <1>11 DEF IInv

LEMMA BorrowsStep ==
    ASSUME IInv, Borrows
    PROVE  IInv'
<1> DEFINE r == [Rest EXCEPT !.todo = <<"buffer">>]
<1>0. TypeInv /\ Filled /\ "shell" \in Hands /\ ~Busy("shell") /\ "shell" \notin Loaders
  BY HandsAre DEF IInv, Borrows, Idle, Busy, Hands
<1>1. /\ task' = [task EXCEPT !["shell"] = r]
      /\ UNCHANGED <<used, last_bit_index, space, life, kheap, cr3, raced, lost>>
  BY DEF Borrows
<1>3. r \in Task /\ r.todo = <<"buffer">> /\ r.frame = NoFrame /\ ~r.reading
  <2>1. <<"buffer">> \in Seq(Places \cup {"start", "buffer"})
    OBVIOUS
  <2> QED BY <2>1 DEF Rest, Task, MaybeFrame
<1> HIDE DEF r
<1>5. /\ TypeInv' /\ (raced' \/ (Owned' /\ Fresh'))
      /\ task'["shell"] = r /\ \A g \in Hands \ {"shell"} : task'[g] = task[g]
  <2>1. life' \in [Programs -> {"none", "loading", "alive", "zombie"}]
    BY <1>0, <1>1 DEF TypeInv
  <2> QED BY <1>0, <1>1, <1>3, <2>1, Begins
<1>7. Filling("shell")'
  BY <1>0, <1>1, <1>3, <1>5 DEF Filling, Busy
<1>9. \A g \in Hands \ {"shell"} : Filling(g)'
  BY <1>0, <1>1, <1>5, OthersGoOn
<1>11. Filled'
  BY <1>0, <1>1, <1>5, <1>7, <1>9 DEF Filled, Busy, Hands
<1> QED BY <1>5, <1>11 DEF IInv

\* A call or the shell comes to its end, and what it had in hand is freed.
LEMMA GivesUp ==
    ASSUME IInv, NEW h \in Hands, task' = [task EXCEPT ![h] = Rest],
           Unmarks(h, {task[h].frame} \ {NoFrame}), UNCHANGED <<space, life, kheap, lost>>
    PROVE  IInv'
<1>0. TypeInv /\ Filled
  BY DEF IInv
<1>1. task' \in [Hands -> Task] /\ task'[h] = Rest /\ \A g \in Hands \ {h} : task'[g] = task[g]
  BY <1>0, RestIsTask, TaskChanges
<1>2. {task[h].frame} \ {NoFrame} \in SUBSET Frames
  BY <1>0 DEF TypeInv, Task, MaybeFrame
<1>3. used' = used \ ({task[h].frame} \ {NoFrame}) /\ raced' \in BOOLEAN /\ (raced => raced')
  BY <1>0 DEF Unmarks, TypeInv
<1>4. TypeInv'
  <2>1. last_bit_index' \in Nat
    BY <1>0, <1>2, WordsOf
  <2> QED BY <1>0, <1>1, <1>3, <2>1 DEF TypeInv
<1>5. Filling(h)' /\ ~Busy(h)'
  BY <1>1, RestFills, RestIsTask DEF Busy
<1>6. Filled'
  <2>1. \A q \in Programs : life'[q] = "none" => space'[q] = Nobody
    BY <1>0 DEF Filled
  <2> QED BY <1>0, <1>1, <1>5, <2>1, OneHandMoves
<1>7. Owned => Owned'
  BY <1>0, <1>1, <1>3, RestIsTask, HandFrees
<1>8. Fresh => Fresh'
  BY <1>1, <1>3, RestIsTask DEF Fresh
<1> QED BY <1>3, <1>4, <1>6, <1>7, <1>8 DEF IInv

LEMMA SbrkFailsStep ==
    ASSUME IInv, SbrkFails
    PROVE  IInv'
BY GivesUp DEF SbrkFails, Hands

LEMMA GivesBackStep ==
    ASSUME IInv, GivesBack
    PROVE  IInv'
BY GivesUp DEF GivesBack, Hands

\* Nobody fills a program that is alive but its own call.
LEMMA NobodyFills ==
    ASSUME Filled, NEW p \in Programs, life[p] \in {"alive", "zombie"}, ~Busy("call")
    PROVE  \A g \in Hands : Busy(g) /\ g # "shell" => task[g].prog \in Programs \ {p}
BY HandsAre DEF Filled, Filling

\* Steps that leave the hands alone.
LEMMA HandsStay ==
    ASSUME IInv, UNCHANGED task,
           \A g \in Hands : Busy(g) /\ g # "shell" =>
             /\ space'[task[g].prog] = space[task[g].prog]
             /\ life'[task[g].prog] = life[task[g].prog],
           \A p \in Programs : life'[p] = "none" => space'[p] = Nobody
    PROVE  Filled' /\ SameHands
<1>1. TypeInv /\ Filled
  BY DEF IInv
<1>2. \A g \in Hands : Filling(g)'
  BY <1>1, OthersGoOn
<1> QED BY <1>1, <1>2 DEF Filled, Busy, SameHands

LEMMA DiesStep ==
    ASSUME IInv, NEW p \in Programs, Dies(p)
    PROVE  IInv'
<1>0. TypeInv /\ Filled /\ ~Busy("call") /\ life[p] = "alive"
  BY DEF IInv, Dies, Idle, Busy
<1>1. /\ life' = [life EXCEPT ![p] = "zombie"]
      /\ UNCHANGED <<used, last_bit_index, space, task, kheap, cr3, raced, lost>>
  BY DEF Dies
<1>2. \A g \in Hands : Busy(g) /\ g # "shell" => task[g].prog \in Programs \ {p}
  BY <1>0, NobodyFills
<1>3. /\ \A q \in Programs \ {p} : life'[q] = life[q]
      /\ \A q \in Programs : life'[q] = "none" => space'[q] = Nobody
      /\ life' \in [Programs -> {"none", "loading", "alive", "zombie"}]
  BY <1>0, <1>1 DEF TypeInv, Filled
<1>4. Filled' /\ SameHands
  BY <1>1, <1>2, <1>3, HandsStay
<1>5. TypeInv'
  BY <1>0, <1>1, <1>3 DEF TypeInv
<1>6. Owned => Owned'
  BY <1>1, <1>4, NothingMoves
<1>7. Fresh => Fresh'
  BY <1>1 DEF Fresh
<1> QED BY <1>1, <1>4, <1>5, <1>6, <1>7 DEF IInv

LEMMA ReapedStep ==
    ASSUME IInv, NEW p \in Programs, Reaped(p)
    PROVE  IInv'
<1>0. TypeInv /\ Filled /\ life[p] = "zombie" /\ ~Busy("call")
  <2>1. Moves("shell")
    BY DEF Reaped
  <2> QED BY <2>1 DEF IInv, Reaped, Moves, Idle, Busy
<1>1. /\ Unmarks("task_b", FramesAt(p, FreedByUnload))
      /\ lost' = lost \cup FramesAt(p, Places \ FreedByUnload)
      /\ space' = [space EXCEPT ![p] = Nobody] /\ life' = [life EXCEPT ![p] = "none"]
      /\ UNCHANGED <<task, kheap, cr3>>
  BY DEF Reaped, Unloads
<1>2. \A g \in Hands : Busy(g) /\ g # "shell" => task[g].prog \in Programs \ {p}
  BY <1>0, NobodyFills
<1>3. /\ space' \in [Programs -> [Places -> MaybeFrame]]
      /\ life' \in [Programs -> {"none", "loading", "alive", "zombie"}]
      /\ \A q \in Programs : life'[q] = "none" => space'[q] = Nobody
      /\ \A q \in Programs \ {p} : space'[q] = space[q] /\ life'[q] = life[q]
  BY <1>0, <1>1, ProgramGoes
<1>4. Filled' /\ SameHands
  BY <1>1, <1>2, <1>3, HandsStay
<1>5. used' = used \ FramesAt(p, FreedByUnload) /\ raced' \in BOOLEAN /\ (raced => raced')
  BY <1>0, <1>1 DEF Unmarks, TypeInv
<1>6. TypeInv'
  <2>1. FramesAt(p, FreedByUnload) \in SUBSET Frames /\ lost' \subseteq Frames
    BY <1>0, <1>1, FramesAtTyped, UnloadsFreed DEF TypeInv
  <2>2. last_bit_index' \in Nat
    BY <1>0, <1>1, <2>1, WordsOf
  <2> QED BY <1>0, <1>1, <1>3, <1>5, <2>1, <2>2 DEF TypeInv
<1>7. ASSUME Owned PROVE Owned'
  BY <1>0, <1>1, <1>4, <1>5, <1>7, UnloadsFreed, ProgramLeaves
<1>8. Fresh => Fresh'
  BY <1>1, <1>5 DEF Fresh
<1> QED BY <1>4, <1>5, <1>6, <1>7, <1>8 DEF IInv

\* A frame marked while nobody reads the bitmap, for the heap or for nothing.
LEMMA TakenAtOnce ==
    ASSUME IInv, NEW h, h \in {"call", "kmalloc"}, h = "call" => ~Busy("call"),
           NextFit # NoFrame, Marks(h, NextFit),
           \/ kheap' = kheap \cup {NextFit} /\ lost' = lost
           \/ lost' = lost \cup {NextFit} /\ kheap' = kheap,
           UNCHANGED <<space, life, task>>
    PROVE  IInv'
<1>0. TypeInv /\ Filled
  BY DEF IInv
<1>1. NextFit \in Frames \ used
  BY <1>0, NextFitIsFree DEF TypeInv, FreeFrames
<1>2. Filled' /\ SameHands
  <2>1. \A p \in Programs : life'[p] = "none" => space'[p] = Nobody
    BY <1>0 DEF Filled
  <2> QED BY <2>1, HandsStay
<1>3. TypeInv'
  <2>1. used' \subseteq Frames /\ last_bit_index' \in Nat /\ raced' \in BOOLEAN
    BY <1>0, <1>1, WordType DEF Marks, TypeInv
  <2> QED BY <1>0, <1>1, <2>1 DEF TypeInv
<1>4. ASSUME ~raced' PROVE Owned' /\ Fresh'
  <2>1. Owned /\ Fresh /\ ~Overlaps(h)
    BY <1>4 DEF IInv, Marks
  <2>2. \A g \in Hands : ~task[g].reading
    <3>1. "call" \in Hands => (h = "call" => ~task["call"].reading)
      BY <1>0 DEF Filled, Filling
    <3> QED BY <2>1, <3>1, HandsAre DEF Overlaps
  <2>3. Owned'
    BY <1>0, <1>1, <1>2, <2>1, HeapTakes DEF Marks
  <2> QED BY <2>2, <2>3 DEF Fresh
<1> QED BY <1>2, <1>3, <1>4 DEF IInv

LEMMA HeapGrowsStep ==
    ASSUME IInv, HeapGrows
    PROVE  IInv'
BY TakenAtOnce DEF HeapGrows

\* Steps that change neither a frame, nor a program, nor a hand.
LEMMA NothingSteps ==
    ASSUME IInv, UNCHANGED <<used, last_bit_index, space, life, task, kheap, raced, lost>>
    PROVE  IInv'
<1>1. TypeInv' /\ (Owned => Owned') /\ (Fresh => Fresh')
  BY NothingMoves DEF IInv, TypeInv, SameHands, Fresh
<1>2. Filled'
  BY HandsStay DEF IInv, Filled
<1> QED BY <1>1, <1>2 DEF IInv

LEMMA StackFaultStep ==
    ASSUME IInv, NEW p \in Programs, StackFault(p)
    PROVE  IInv'
<1>1. CASE NextFit = NoFrame
  BY <1>1, NothingSteps DEF StackFault, KeepsBitmap
<1>2. CASE NextFit # NoFrame
  BY <1>2, TakenAtOnce DEF StackFault, Idle, Busy
<1> QED BY <1>1, <1>2

-----------------------------------------------------------------------------
(***************************************************************************)
(* The invariant, and what it says of the frames.                          *)
(***************************************************************************)

LEMMA InitInv == MemInit => IInv
<1> SUFFICES ASSUME MemInit PROVE IInv
  OBVIOUS
<1>1. \A h \in Hands : task[h] = Rest
  BY DEF MemInit
<1>2. TypeInv
  BY RestIsTask DEF MemInit, TypeInv, Nobody, MaybeFrame
<1>3. Filled
  <2>1. \A h \in Hands : Filling(h) /\ ~Busy(h)
    BY <1>1, RestIsTask DEF Filling, Busy
  <2> QED BY <2>1 DEF Filled, MemInit, Hands
<1>4. Owned /\ Fresh
  <2>1. \A p \in Programs : \A x \in Places : space[p][x] = NoFrame
    BY DEF MemInit, Nobody
  <2>2. kheap = {} /\ used = {}
    BY DEF MemInit
  <2> QED BY <1>1, <2>1, <2>2, RestIsTask DEF Owned, Fresh
<1> QED BY <1>2, <1>3, <1>4 DEF IInv

LEMMA NextInv == IInv /\ [MemNext]_memvars => IInv'
<1> SUFFICES ASSUME IInv, [MemNext]_memvars PROVE IInv'
  OBVIOUS
<1>1. ASSUME NEW h \in Hands,
             \/ Asks(h) \/ GetsTable(h) \/ GetsPage(h) \/ MapsPage(h)
             \/ LoadFails(h) \/ PageDropped(h) \/ LoadEnds(h)
      PROVE  IInv'
  BY <1>1, AsksStep, GetsTableStep, GetsPageStep, MapsPageStep, LoadFailsStep,
     PageDroppedStep, LoadEndsStep
<1>2. ASSUME NEW p \in Programs,
             \/ \E h \in Loaders : StartsLoad(h, p)
             \/ Dies(p) \/ Reaped(p) \/ CallsSbrk(p) \/ StackFault(p)
      PROVE  IInv'
  BY <1>2, StartsLoadStep, DiesStep, ReapedStep, CallsSbrkStep, StackFaultStep
<1>3. ASSUME NEW p \in Programs, OtherFault(p) PROVE IInv'
  BY <1>3, NothingSteps DEF OtherFault
<1>4. CASE SbrkFails \/ Borrows \/ GivesBack \/ HeapGrows
  BY <1>4, SbrkFailsStep, BorrowsStep, GivesBackStep, HeapGrowsStep
<1>5. CASE UNCHANGED memvars
  BY <1>5, NothingSteps DEF memvars
<1> QED BY <1>1, <1>2, <1>3, <1>4, <1>5 DEF MemNext

LEMMA PlacesFinite == IsFiniteSet(Places)
<1>1. \A a, b, c, d, e : IsFiniteSet({a, b, c, d, e})
  <2> TAKE a, b, c, d, e
  <2>1. IsFiniteSet({a})
    BY FS_Singleton
  <2>2. IsFiniteSet({a} \cup {b})
    BY <2>1, FS_AddElement
  <2>3. IsFiniteSet(({a} \cup {b}) \cup {c})
    BY <2>2, FS_AddElement
  <2>4. IsFiniteSet((({a} \cup {b}) \cup {c}) \cup {d})
    BY <2>3, FS_AddElement
  <2>5. IsFiniteSet(((({a} \cup {b}) \cup {c}) \cup {d}) \cup {e})
    BY <2>4, FS_AddElement
  <2>6. {a, b, c, d, e} = ((({a} \cup {b}) \cup {c}) \cup {d}) \cup {e}
    OBVIOUS
  <2> QED BY <2>5, <2>6
<1>2. Places = {"pml4", "pdpt", "pt", "s_pdpt", "s_pt"} \cup {"h_pdpt", "h_pt", "image", "stack", "heap"}
  BY DEF Places, Tables, Core, Pages
<1> QED BY <1>1, <1>2, FS_Union

\* A program holds as many frames as it has places filled.
LEMMA HeldCounted ==
    ASSUME TypeInv, Owned, NEW p \in Programs
    PROVE  Cardinality(Held(p)) = Cardinality({x \in Places : space[p][x] # NoFrame})
<1> DEFINE S == {x \in Places : space[p][x] # NoFrame}
           f == [x \in S |-> space[p][x]]
<1>1. IsFiniteSet(S)
  BY PlacesFinite, FS_Subset
<1>2. Held(p) = {space[p][x] : x \in S}
  BY DEF Held, FramesAt
<1>3. \A x, y \in S : space[p][x] = space[p][y] => x = y
  BY DEF Owned
<1> HIDE DEF S
<1>4. f \in Surjection(S, Held(p)) /\ f \in Injection(S, Held(p))
  <2>1. f \in [S -> Held(p)]
    BY <1>2
  <2>2. \A h \in Held(p) : \E x \in S : f[x] = h
    BY <1>2
  <2>3. \A x, y \in S : f[x] = f[y] => x = y
    BY <1>3
  <2> HIDE DEF f
  <2>4. f \in Surjection(S, Held(p))
    BY <2>1, <2>2 DEF Surjection
  <2>5. f \in Injection(S, Held(p))
    BY <2>1, <2>3 DEF Injection, IsInjective
  <2> QED BY <2>4, <2>5
<1> HIDE DEF f
<1>5. Cardinality(Held(p)) = Cardinality(S) <=> f \in Injection(S, Held(p))
  BY <1>1, <1>4, FS_Surjection
<1> QED BY <1>4, <1>5 DEF S

LEMMA InvSound == IInv => FramesSound
<1> SUFFICES ASSUME TypeInv, Owned PROVE FramesSound
  BY DEF IInv, FramesSound
<1>1. \A p \in Programs : \A f : f \in Held(p) <=> f # NoFrame /\ \E x \in Places : space[p][x] = f
  BY DEF Held, FramesAt
<1>2. \A f : f \in InHand <=> f # NoFrame /\ \E h \in Hands : task[h].frame = f
  BY DEF InHand
<1>3. NoFrame \notin used
  BY DEF TypeInv, Frames, NoFrame
<1>4. AllHeld \subseteq used
  <2>1. \A p \in Programs : Held(p) \subseteq used
    BY <1>1 DEF Owned
  <2>2. InHand \subseteq used /\ kheap \subseteq used
    BY <1>2 DEF Owned
  <2> QED BY <2>1, <2>2 DEF AllHeld
<1>5. used \subseteq AllHeld \cup lost
  <2> SUFFICES ASSUME NEW f \in used, f \notin lost, f \notin kheap PROVE f \in AllHeld
    BY DEF AllHeld
  <2>1. f # NoFrame
    BY <1>3
  <2>2. CASE \E h \in Hands : task[h].frame = f
    BY <1>2, <2>1, <2>2 DEF AllHeld
  <2>3. CASE \E p \in Programs : \E x \in Places : space[p][x] = f
    BY <1>1, <2>1, <2>3 DEF AllHeld
  <2> QED BY <2>2, <2>3 DEF Owned
<1>6. \A p \in Programs : Cardinality(Held(p)) = Cardinality({x \in Places : space[p][x] # NoFrame})
  BY HeldCounted
<1>7. \A p, q \in Programs : p # q => Held(p) \cap Held(q) = {}
  BY <1>1 DEF Owned
<1>8. \A g, h \in Hands : g # h /\ task[g].frame # NoFrame => task[g].frame # task[h].frame
  BY DEF Owned
<1>9. \A p \in Programs : Held(p) \cap (InHand \cup kheap) = {}
  BY <1>1, <1>2 DEF Owned
<1>10. InHand \cap kheap = {}
  BY <1>2 DEF Owned
<1> QED BY <1>4, <1>5, <1>6, <1>7, <1>8, <1>9, <1>10 DEF FramesSound

\* Frames in the places that are still to be filled, in hands and in the heap (pmm.c, vmm.c, elf.c).
THEOREM MemoryInvariant == MemSpec => []IInv
<1> QED BY InitInv, NextInv, PTL DEF MemSpec


\* As long as no preempted allocation was overtaken, every frame that a program, a hand of
\* the loader, of the shell or of a system call, or the kernel heap relies on is marked in
\* the bitmap and has that one holder, and nothing is marked but what is held or was
\* forgotten on one of the known paths (pmm.c, vmm.c, elf.c, SYS_SBRK).
THEOREM FramesAreSound == MemSpec => []FramesSound
<1> QED BY MemoryInvariant, InvSound, PTL

-----------------------------------------------------------------------------
(***************************************************************************)
(* What the one recovery point of K_TRY does promise, for any threads and  *)
(* any depth of nesting, in spite of being shared by all of them.          *)
(***************************************************************************)

Points == [owner : Runners, level : 0 .. MaxDepth, live : BOOLEAN, active : BOOLEAN]

PointInv ==
    /\ env \in Points /\ depth \in [Runners -> 0 .. MaxDepth]
    /\ sole = << sole[1], sole[2] >> /\ strayed \in BOOLEAN

\* A point that is on a frame is on one of its owner's.
FrameInv == env.live => 1 <= env.level /\ env.level <= depth[env.owner]

\* Who set the point last, with nobody since, is the one it is on, in the innermost block.
SoleInv ==
    /\ sole[2] \in {"set", "armed"} =>
          /\ env.live /\ env.owner = sole[1] /\ env.level = depth[env.owner]
    /\ sole[2] = "armed" => env.active

\* An armed point without a frame: somebody strayed.
GoneInv == env.active /\ ~env.live => strayed

RecoveryInv == PointInv /\ FrameInv /\ SoleInv /\ GoneInv /\ RecoveryTrue

-----------------------------------------------------------------------------

LEMMA InitRecovery == RecoveryInit => RecoveryInv
<1> SUFFICES ASSUME RecoveryInit PROVE RecoveryInv
  OBVIOUS
<1>0. MaxDepth \in Nat /\ 0 \in 0 .. MaxDepth /\ "boot" \in Runners
  BY RecoveryAssumption DEF Runners
<1>1. PointInv
  <2>1. env \in Points
    BY <1>0 DEF RecoveryInit, Points
  <2>2. depth \in [Runners -> 0 .. MaxDepth]
    BY <1>0 DEF RecoveryInit
  <2>3. sole = << sole[1], sole[2] >> /\ strayed \in BOOLEAN
    BY DEF RecoveryInit
  <2> QED BY <2>1, <2>2, <2>3 DEF PointInv
<1> QED BY <1>1 DEF RecoveryInit, RecoveryInv, FrameInv, SoleInv, GoneInv, RecoveryTrue, NoVerdict

\* A block is opened: the point is on it and nothing else is claimed of it.
LEMMA SetsRecovery == ASSUME RecoveryInv, NEW t \in Runners, Sets(t) PROVE RecoveryInv'
<1>1. depth[t] \in 0 .. MaxDepth /\ depth[t] < MaxDepth /\ MaxDepth \in Nat
  BY RecoveryAssumption DEF RecoveryInv, PointInv, Sets
<1>2. depth'[t] = depth[t] + 1 /\ depth[t] + 1 \in 1 .. MaxDepth
  BY <1>1 DEF RecoveryInv, PointInv, Sets
<1>3. PointInv'
  <2>1. depth[t] + 1 \in 0 .. MaxDepth
    BY <1>1
  <2>2. env' \in Points
    BY <2>1 DEF Sets, Points
  <2>3. depth' \in [Runners -> 0 .. MaxDepth]
    BY <2>1 DEF RecoveryInv, PointInv, Sets
  <2>4. sole' = << sole'[1], sole'[2] >> /\ strayed' \in BOOLEAN
    BY DEF Sets
  <2> QED BY <2>2, <2>3, <2>4 DEF PointInv
<1>4. FrameInv' /\ SoleInv' /\ GoneInv'
  BY <1>1, <1>2 DEF FrameInv, SoleInv, GoneInv, Sets
<1>5. RecoveryTrue'
  BY <1>1, <1>2 DEF RecoveryInv, RecoveryTrue, Sets
<1> QED BY <1>3, <1>4, <1>5 DEF RecoveryInv

LEMMA ArmsRecovery == ASSUME RecoveryInv, NEW t \in Runners, Arms(t) PROVE RecoveryInv'
<1>1. /\ env' = [env EXCEPT !.active = TRUE] /\ env \in Points /\ UNCHANGED <<depth, verdict>>
  BY DEF RecoveryInv, PointInv, Arms
<1>2. /\ env' \in Points /\ env'.active /\ env'.owner = env.owner /\ env'.level = env.level
      /\ env'.live = env.live
  BY <1>1 DEF Points
<1>3. PointInv' /\ FrameInv'
  BY <1>1, <1>2 DEF RecoveryInv, PointInv, FrameInv, Arms
<1>4. SoleInv' /\ GoneInv'
  <2>1. CASE sole = << t, "set" >>
    BY <1>1, <1>2, <2>1 DEF RecoveryInv, SoleInv, GoneInv, Arms
  <2>2. CASE sole # << t, "set" >>
    BY <1>1, <1>2, <2>2 DEF RecoveryInv, SoleInv, GoneInv, Arms
  <2> QED BY <2>1, <2>2
<1>5. RecoveryTrue'
  BY <1>1, <1>2, <1>3 DEF RecoveryInv, RecoveryTrue, FrameInv
<1> QED BY <1>3, <1>4, <1>5 DEF RecoveryInv

\* The frame of a block goes: the point goes with it, or is on an outer one.
LEMMA FrameGoes ==
  ASSUME RecoveryInv, NEW t \in Runners, depth[t] > 0,
         depth' = [depth EXCEPT ![t] = @ - 1], NEW e, e = LeavesFrame(env, t)
  PROVE  /\ e \in Points /\ e.active = env.active /\ depth' \in [Runners -> 0 .. MaxDepth]
         /\ e.live => 1 <= e.level /\ e.level <= depth'[e.owner]
<1>1. e \in Points /\ e.active = env.active /\ e.owner = env.owner /\ e.level = env.level
  BY DEF RecoveryInv, PointInv, Points, LeavesFrame
<1>2. e.live <=> env.live /\ ~(env.owner = t /\ env.level = depth[t])
  BY DEF RecoveryInv, PointInv, Points, LeavesFrame
<1>3. depth[t] \in 0 .. MaxDepth /\ env.level \in 0 .. MaxDepth /\ env.owner \in Runners
      /\ depth \in [Runners -> 0 .. MaxDepth] /\ MaxDepth \in Nat
  BY RecoveryAssumption DEF RecoveryInv, PointInv, Points
<1>4. depth' \in [Runners -> 0 .. MaxDepth]
  BY <1>3
<1>5. ASSUME e.live PROVE 1 <= e.level /\ e.level <= depth'[e.owner]
  <2>1. 1 <= env.level /\ env.level <= depth[env.owner]
    BY <1>2, <1>5 DEF RecoveryInv, FrameInv
  <2>2. CASE env.owner = t
    BY <1>1, <1>2, <1>3, <1>5, <2>1, <2>2
  <2>3. CASE env.owner # t
    BY <1>1, <1>3, <2>1, <2>3
  <2> QED BY <2>2, <2>3
<1> QED BY <1>1, <1>4, <1>5

LEMMA EndsRecovery == ASSUME RecoveryInv, NEW t \in Runners, Ends(t) PROVE RecoveryInv'
<1> DEFINE e == LeavesFrame(env, t)
<1>1. /\ e \in Points /\ depth' \in [Runners -> 0 .. MaxDepth]
      /\ e.live => 1 <= e.level /\ e.level <= depth'[e.owner]
  BY FrameGoes DEF Ends, InBlock
<1>2. env' = [e EXCEPT !.active = FALSE] /\ sole' = << t, "none" >> /\ strayed' = FALSE
      /\ verdict' = verdict
  BY DEF Ends, Disarmed
<1> HIDE DEF e
<1>3. /\ env' \in Points /\ env'.active = FALSE /\ env'.live = e.live /\ env'.level = e.level
      /\ env'.owner = e.owner
  BY <1>1, <1>2 DEF Points
<1> QED BY <1>1, <1>2, <1>3
        DEF RecoveryInv, PointInv, FrameInv, SoleInv, GoneInv, RecoveryTrue

LEMMA LeavesRecovery == ASSUME RecoveryInv, NEW t \in Runners, Leaves(t) PROVE RecoveryInv'
<1>1. /\ env' \in Points /\ depth' \in [Runners -> 0 .. MaxDepth]
      /\ env'.live => 1 <= env'.level /\ env'.level <= depth'[env'.owner]
  BY FrameGoes DEF Leaves, InBlock
<1>2. sole' = << t, "none" >> /\ strayed' = TRUE /\ verdict' = verdict
  BY DEF Leaves
<1> QED BY <1>1, <1>2
        DEF RecoveryInv, PointInv, FrameInv, SoleInv, GoneInv, RecoveryTrue

LEMMA RecoversRecovery == ASSUME RecoveryInv, NEW t \in Runners, Recovers(t) PROVE RecoveryInv'
<1>1. /\ env' = [env EXCEPT !.active = FALSE, !.live = FALSE] /\ env.active /\ env.owner = t
      /\ env.live /\ depth' = [depth EXCEPT ![t] = env.level - 1]
      /\ sole' = << t, "none" >> /\ strayed' = FALSE /\ verdict' = Verdict(t)
  BY DEF Recovers
<1>2. env.level \in 1 .. MaxDepth /\ MaxDepth \in Nat
  BY <1>1, RecoveryAssumption DEF RecoveryInv, PointInv, Points, FrameInv
<1>3. /\ env' \in Points /\ ~env'.active /\ ~env'.live
      /\ depth' \in [Runners -> 0 .. MaxDepth]
  <2>1. env.level - 1 \in 0 .. MaxDepth
    BY <1>2
  <2>2. depth' \in [Runners -> 0 .. MaxDepth]
    BY <1>1, <2>1 DEF RecoveryInv, PointInv
  <2>3. env' \in Points /\ ~env'.active /\ ~env'.live
    BY <1>1 DEF RecoveryInv, PointInv, Points
  <2> QED BY <2>2, <2>3
<1>4. verdict'.own /\ ~verdict'.wild
  BY <1>1 DEF Verdict
<1> QED BY <1>1, <1>3, <1>4
        DEF RecoveryInv, PointInv, FrameInv, SoleInv, GoneInv, RecoveryTrue

\* Nobody who was the only one to touch the point panics or goes wild.
LEMMA FaultsRecovery ==
  ASSUME RecoveryInv, NEW t \in Runners, Panics(t) \/ GoesWild(t) PROVE RecoveryInv'
<1>1. /\ \/ ~env.active
         \/ ~(env.owner = t /\ env.live)
      /\ UNCHANGED <<env, depth, sole, strayed>>
  BY DEF Panics, GoesWild
<1>2. verdict' = Verdict(t)
  BY DEF Panics, GoesWild
<1>3. ~verdict'.sure
  <2> SUFFICES ASSUME sole = << t, "armed" >> PROVE FALSE
    BY <1>2 DEF Verdict
  <2>1. env.active /\ env.live /\ env.owner = t
    BY DEF RecoveryInv, SoleInv
  <2> QED BY <1>1, <2>1
<1>4. verdict'.wild => verdict'.stray \/ verdict'.other
  BY <1>2 DEF Verdict, RecoveryInv, GoneInv
<1>5. RecoveryTrue'
  BY <1>1, <1>3, <1>4 DEF RecoveryInv, RecoveryTrue
<1> QED BY <1>1, <1>5 DEF RecoveryInv, PointInv, FrameInv, SoleInv, GoneInv

LEMMA NextRecovery == RecoveryInv /\ [RecoveryNext]_recoveryvars => RecoveryInv'
<1> SUFFICES ASSUME RecoveryInv, [RecoveryNext]_recoveryvars PROVE RecoveryInv'
  OBVIOUS
<1>1. CASE NextBootPhase \/ UNCHANGED recoveryvars
  BY <1>1 DEF NextBootPhase, recoveryvars, RecoveryInv, PointInv, FrameInv, SoleInv, GoneInv,
              RecoveryTrue
<1>2. ASSUME NEW t \in Runners,
             \/ Sets(t) \/ Arms(t) \/ Ends(t) \/ Leaves(t)
             \/ Recovers(t) \/ Panics(t) \/ GoesWild(t)
      PROVE  RecoveryInv'
  BY <1>2, SetsRecovery, ArmsRecovery, EndsRecovery, LeavesRecovery, RecoversRecovery,
     FaultsRecovery
<1> QED BY <1>1, <1>2 DEF RecoveryNext

\* Nobody's fault is lost as long as nobody touched the point since the block was opened; a
\* fault goes wild only after a return from the middle of a block, over another thread's
\* point, or over one armed by a thread that had not set it; and an armed point with a frame
\* is within the blocks of its thread (K_TRY, K_EXCEPT, exception_handler).
THEOREM RecoveryIsTrue == RecoverySpec => []RecoveryTrue
<1>1. RecoveryInv => RecoveryTrue
  BY DEF RecoveryInv
<1> QED BY InitRecovery, NextRecovery, <1>1, PTL DEF RecoverySpec

-----------------------------------------------------------------------------
(***************************************************************************)
(* The keyboard and the mouse.  A packet is followed from the moment the   *)
(* mouse moves: what of it is still to come, which byte the controller     *)
(* holds, and what the handler has of it.  A step of the handler that is   *)
(* out of place is a slip, so every case may take the place for granted.   *)
(***************************************************************************)

MouseBytes == [sync : BOOLEAN, neg : BOOLEAN, button : BOOLEAN, motion : 0 .. Span - 1, nth : 0 .. 4]
Positions  == [x : 0 .. Width - 1, button : BOOLEAN]
Motions    == (0 - Motion) .. Motion

FirstByte(d, b) == [Zero EXCEPT !.sync = TRUE, !.neg = d < 0, !.button = b]
SecondByte(d)   == [Zero EXCEPT !.motion = d % Span, !.sync = d % 2 = 1, !.nth = 1]
ThirdByte       == [Zero EXCEPT !.nth = 2]
FourthByte      == [Zero EXCEPT !.nth = 3]

InputTypes ==
    /\ buffer \in [from : {"nobody", "mouse"} \cup Keys, byte : MouseBytes]
    /\ coming \in Seq(MouseBytes) /\ commands \in 0 .. Commands
    /\ awaiting \in BOOLEAN /\ owed \in BOOLEAN
    /\ mouse \in [cycle : 0 .. 3, byte : [0 .. 2 -> MouseBytes], x : 0 .. Width - 1, button : BOOLEAN]
    /\ keyboard \in [shift : BOOLEAN, caps : BOOLEAN]
    /\ keys \in Rings
    /\ hand \in [held : SUBSET Shifts, caps : BOOLEAN]
    /\ moved \in Positions /\ slipped \in BOOLEAN /\ robbed \in BOOLEAN

\* What the handler will make of the packet it has, once its last byte is there.
Rel(B) == IF B[0].neg THEN B[1].motion - Span ELSE B[1].motion
Settles(m, o) == Clamp(m.x + Rel(m.byte)) = o.x /\ m.byte[0].button = o.button
Settled(m, o) == m.x = o.x /\ m.button = o.button

FromMouse == buffer.from = "mouse"

\* But for a last byte in the controller, the mouse is at o.
Rests(o) == IF FromMouse /\ buffer.byte.nth = 3 THEN mouse.cycle = 3 => Settles(mouse, o)
                                                ELSE Settled(mouse, o)

HasFirst(d, b)  == mouse.byte[0] = FirstByte(d, b)
HasSecond(d, b) == HasFirst(d, b) /\ mouse.byte[1] = SecondByte(d)

\* A packet of motion d and button b from the place o, with some of it still to come.
AllToCome(d, b, o) ==
    coming = <<FirstByte(d, b), SecondByte(d), ThirdByte, FourthByte>> /\ Rests(o)
ThreeToCome(d, b, o) ==
    /\ coming = <<SecondByte(d), ThirdByte, FourthByte>> /\ mouse.x = o.x
    /\ IF FromMouse THEN buffer.byte = FirstByte(d, b)
                    ELSE mouse.cycle = 1 /\ HasFirst(d, b)
TwoToCome(d, b, o) ==
    /\ coming = <<ThirdByte, FourthByte>> /\ mouse.x = o.x
    /\ IF FromMouse THEN buffer.byte = SecondByte(d) /\ (mouse.cycle = 1 => HasFirst(d, b))
                    ELSE mouse.cycle = 2 /\ HasSecond(d, b)
OneToCome(d, b, o) ==
    /\ coming = <<FourthByte>> /\ mouse.x = o.x
    /\ IF FromMouse THEN buffer.byte = ThirdByte /\ (mouse.cycle = 2 => HasSecond(d, b))
                    ELSE mouse.cycle = 3 /\ HasSecond(d, b)

Under(d, b, o) ==
    /\ moved = [x |-> Clamp(o.x + d), button |-> b]
    /\ \/ AllToCome(d, b, o) \/ ThreeToCome(d, b, o) \/ TwoToCome(d, b, o) \/ OneToCome(d, b, o)

\* Before the wheel is on, packets have no fourth byte, and without one nothing moves.
Early ==
    /\ Settled(mouse, moved)
    /\ FromMouse => buffer.byte.nth # 3
    /\ \A i \in 1 .. Len(coming) : coming[i].nth # 3

Streaming ==
    \/ coming = << >> /\ Rests(moved)
    \/ \E d \in Motions, b \in BOOLEAN, o \in Positions : Under(d, b, o)

MouseInv ==
    /\ coming # << >> => ~owed
    /\ ~slipped => IF commands > 0 THEN Early ELSE Streaming

\* A scan code in the controller is one the user has already turned into a held or a lifted
\* key, and the handler not yet.
KeyInv ==
    /\ RingSeq(keys) = typed
    /\ ~robbed =>
          /\ keyboard.caps = (IF buffer.from = "caps" THEN ~hand.caps ELSE hand.caps)
          /\ buffer.from \notin Shifts => (keyboard.shift => hand.held # {})

InputInv == InputTypes /\ MouseInv /\ KeyInv

LEMMA InputSizes == /\ Commands \in Nat /\ Commands > 1 /\ Span \in Nat /\ Motion \in Nat /\ Motion < Span
                    /\ Width \in Nat \ {0} /\ LineSize \in Nat \ {0}
BY InputAssumption

LEMMA ByteTypes ==
  /\ Zero \in MouseBytes /\ Answer \in MouseBytes /\ ThirdByte \in MouseBytes /\ FourthByte \in MouseBytes
  /\ Answer.nth = 4 /\ ThirdByte.nth = 2 /\ FourthByte.nth = 3
<1>1. 0 \in 0 .. Span - 1 /\ Span - 1 \in 0 .. Span - 1
  BY InputSizes
<1>2. Zero \in MouseBytes /\ Answer \in MouseBytes
  BY <1>1 DEF Zero, Answer, MouseBytes
<1>3. ThirdByte \in MouseBytes /\ FourthByte \in MouseBytes
      /\ ThirdByte.nth = 2 /\ FourthByte.nth = 3
  BY <1>2 DEF ThirdByte, FourthByte, MouseBytes
<1> QED BY <1>2, <1>3 DEF Answer

\* The two bytes that carry the motion carry it, in whichever direction.
LEMMA PacketBytes ==
  ASSUME NEW d \in Motions, NEW b \in BOOLEAN
  PROVE  /\ FirstByte(d, b) \in MouseBytes /\ FirstByte(d, b).nth = 0 /\ FirstByte(d, b).sync
         /\ FirstByte(d, b).button = b
         /\ SecondByte(d) \in MouseBytes /\ SecondByte(d).nth = 1
         /\ (IF FirstByte(d, b).neg THEN SecondByte(d).motion - Span ELSE SecondByte(d).motion) = d
<1>1. d \in Int /\ 0 - Motion <= d /\ d <= Motion /\ Span \in Nat /\ Motion \in Nat /\ Motion < Span
  BY InputSizes DEF Motions
<1>2. d % Span = (IF d < 0 THEN d + Span ELSE d)
  <2>1. CASE d < 0
    <3>1. d % Span = d + Span
      BY <1>1, <2>1
    <3> QED BY <2>1, <3>1
  <2>2. CASE d >= 0
    <3>1. d % Span = d
      BY <1>1, <2>2
    <3> QED BY <1>1, <2>2, <3>1
  <2> QED BY <1>1, <2>1, <2>2
<1>3. d % Span \in 0 .. Span - 1
  BY <1>1, <1>2
<1>4. 0 \in 0 .. Span - 1
  BY <1>1
<1>5. (d % 2 = 1) \in BOOLEAN /\ (d < 0) \in BOOLEAN
  OBVIOUS
<1>6. /\ Zero \in MouseBytes /\ Zero.motion = 0 /\ Zero.nth = 0 /\ Zero.neg = FALSE
  BY ByteTypes DEF Zero
<1>7. FirstByte(d, b) \in MouseBytes /\ SecondByte(d) \in MouseBytes
  <2> DEFINE neg == d < 0
             odd == d % 2 = 1
             m   == d % Span
  <2>1. neg \in BOOLEAN /\ odd \in BOOLEAN /\ m \in 0 .. Span - 1 /\ 1 \in 0 .. 4
    BY <1>3, <1>5
  <2>2. /\ FirstByte(d, b) = [Zero EXCEPT !.sync = TRUE, !.neg = neg, !.button = b]
        /\ SecondByte(d) = [Zero EXCEPT !.motion = m, !.sync = odd, !.nth = 1]
    BY DEF FirstByte, SecondByte
  <2> HIDE DEF neg, odd, m
  <2>3. FirstByte(d, b) \in MouseBytes
    BY <1>6, <2>1, <2>2 DEF MouseBytes
  <2>4. SecondByte(d) \in MouseBytes
    BY <1>6, <2>1, <2>2 DEF MouseBytes
  <2> QED BY <2>3, <2>4
<1>8. /\ FirstByte(d, b).sync = TRUE /\ FirstByte(d, b).neg = (d < 0) /\ FirstByte(d, b).button = b
      /\ FirstByte(d, b).nth = 0
  BY <1>6 DEF FirstByte, MouseBytes
<1>9. SecondByte(d).motion = d % Span /\ SecondByte(d).nth = 1
  BY <1>6 DEF SecondByte, MouseBytes
<1>10. (IF FirstByte(d, b).neg THEN SecondByte(d).motion - Span ELSE SecondByte(d).motion) = d
  <2>1. CASE d < 0
    <3>1. SecondByte(d).motion = d + Span /\ FirstByte(d, b).neg = TRUE
      BY <1>2, <1>8, <1>9, <2>1
    <3> QED BY <1>1, <3>1
  <2>2. CASE d >= 0
    <3>1. ~(d < 0)
      BY <1>1, <2>2
    <3>2. SecondByte(d).motion = d
      BY <1>2, <1>9, <3>1
    <3>3. ~FirstByte(d, b).neg
      BY <1>8, <3>1, Zenon
    <3> QED BY <3>2, <3>3
  <2> QED BY <1>1, <2>1, <2>2
<1> QED BY <1>7, <1>8, <1>9, <1>10

LEMMA ClampIs == ASSUME NEW x \in Int PROVE Clamp(x) \in 0 .. Width - 1
BY InputSizes DEF Clamp

LEMMA PacketIs ==
  ASSUME NEW d, NEW b
  PROVE  Packet(d, b) = IF commands > 0 THEN <<FirstByte(d, b), SecondByte(d), ThirdByte>>
                        ELSE <<FirstByte(d, b), SecondByte(d), ThirdByte, FourthByte>>
BY DEF Packet, FirstByte, SecondByte, ThirdByte, FourthByte

\* What is left of a packet when its first byte is taken.
LEMMA Shorter ==
  ASSUME NEW w, NEW x, NEW y, NEW z
  PROVE  /\ Head(<<w, x, y, z>>) = w /\ Tail(<<w, x, y, z>>) = <<x, y, z>>
         /\ Head(<<x, y, z>>) = x /\ Tail(<<x, y, z>>) = <<y, z>>
         /\ Head(<<y, z>>) = y /\ Tail(<<y, z>>) = <<z>>
         /\ Head(<<z>>) = z /\ Tail(<<z>>) = << >>
OBVIOUS

LEMMA FromKinds == /\ "mouse" \notin Keys /\ "nobody" \notin Keys /\ "mouse" # "nobody"
                   /\ Shifts \subseteq Keys /\ "caps" \in Keys /\ "caps" \notin Shifts
                   /\ "mouse" \notin Shifts /\ "nobody" \notin Shifts
                   /\ Empty.from = "nobody" /\ Empty.byte = Zero
BY DEF Keys, Shifts, Empty

-----------------------------------------------------------------------------
(* Types. *)

\* What the handler makes of a byte.
Handled(m, b) ==
    IF m.cycle = 0 /\ ~b.sync THEN m
    ELSE IF m.cycle < 3 THEN [m EXCEPT !.byte[m.cycle] = b, !.cycle = @ + 1]
    ELSE [m EXCEPT !.cycle = 0, !.button = m.byte[0].button, !.x = Clamp(@ + Rel(m.byte)),
                   !.byte = [i \in 0 .. 2 |-> Zero]]

MouseStates == [cycle : 0 .. 3, byte : [0 .. 2 -> MouseBytes], x : 0 .. Width - 1, button : BOOLEAN]

LEMMA RelIs == ASSUME NEW m \in MouseStates PROVE Rel(m.byte) \in Int
<1>1. m.byte[1] \in MouseBytes /\ Span \in Int
  BY InputSizes DEF MouseStates
<1>2. m.byte[1].motion \in Int
  BY <1>1, InputSizes DEF MouseBytes
<1> QED BY <1>1, <1>2 DEF Rel

\* Before its last place the handler keeps the byte and the mouse; in it, the mouse moves.
LEMMA HandledKeeps ==
  ASSUME NEW m \in MouseStates, NEW b \in MouseBytes, m.cycle # 3
  PROVE  /\ Handled(m, b) \in MouseStates
         /\ Handled(m, b).x = m.x /\ Handled(m, b).button = m.button
         /\ (m.cycle # 0 \/ b.sync) =>
               Handled(m, b).cycle = m.cycle + 1 /\ Handled(m, b).byte = [m.byte EXCEPT ![m.cycle] = b]
<1>1. m.cycle \in 0 .. 2 /\ m.byte \in [0 .. 2 -> MouseBytes]
  BY DEF MouseStates
<1>2. CASE m.cycle = 0 /\ ~b.sync
  BY <1>2 DEF Handled
<1>3. CASE ~(m.cycle = 0 /\ ~b.sync)
  <2> DEFINE B == [m.byte EXCEPT ![m.cycle] = b]
             c == m.cycle + 1
  <2>1. Handled(m, b) = [m EXCEPT !.byte = B, !.cycle = c]
    BY <1>1, <1>3 DEF Handled
  <2>2. B \in [0 .. 2 -> MouseBytes] /\ c \in 0 .. 3
    BY <1>1
  <2> HIDE DEF B, c
  <2>3. /\ Handled(m, b) \in MouseStates
        /\ Handled(m, b).x = m.x /\ Handled(m, b).button = m.button
        /\ Handled(m, b).cycle = c /\ Handled(m, b).byte = B
    BY <2>1, <2>2 DEF MouseStates
  <2> QED BY <2>3 DEF B, c
<1> QED BY <1>2, <1>3

LEMMA HandledMoves ==
  ASSUME NEW m \in MouseStates, NEW b \in MouseBytes, m.cycle = 3
  PROVE  /\ Handled(m, b) \in MouseStates
         /\ Handled(m, b).x = Clamp(m.x + Rel(m.byte)) /\ Handled(m, b).button = m.byte[0].button
<1>1. /\ m.x + Rel(m.byte) \in Int /\ m.byte[0] \in MouseBytes
  BY RelIs, InputSizes DEF MouseStates
<1>2. Clamp(m.x + Rel(m.byte)) \in 0 .. Width - 1 /\ m.byte[0].button \in BOOLEAN
  BY <1>1, ClampIs DEF MouseBytes
<1>3. [i \in 0 .. 2 |-> Zero] \in [0 .. 2 -> MouseBytes]
  BY ByteTypes
<1> DEFINE u == m.byte[0].button
           x == Clamp(m.x + Rel(m.byte))
           Z == [i \in 0 .. 2 |-> Zero]
<1>4. Handled(m, b) = [m EXCEPT !.cycle = 0, !.button = u, !.x = x, !.byte = Z]
  BY DEF Handled
<1>5. u \in BOOLEAN /\ x \in 0 .. Width - 1 /\ Z \in [0 .. 2 -> MouseBytes] /\ 0 \in 0 .. 3
  BY <1>2, <1>3
<1> HIDE DEF u, x, Z
<1>6. /\ Handled(m, b) \in MouseStates /\ Handled(m, b).x = x /\ Handled(m, b).button = u
  BY <1>4, <1>5 DEF MouseStates
<1> QED BY <1>6 DEF u, x

LEMMA MouseHandlerIs ==
  ASSUME MouseHandler
  PROVE  /\ FromMouse /\ buffer' = Empty
         /\ slipped' = (slipped \/ (buffer.byte.nth # mouse.cycle))
         /\ mouse' = Handled(mouse, buffer.byte)
         /\ UNCHANGED <<coming, commands, awaiting, owed, moved, keyboard, keys, typed, foreground,
                        line, hand, robbed>>
BY DEF MouseHandler, FromMouse, Handled, Rel, keyvars

\* The parts of the type invariant.
HardwareTypes ==
    /\ buffer \in [from : {"nobody", "mouse"} \cup Keys, byte : MouseBytes]
    /\ coming \in Seq(MouseBytes) /\ commands \in 0 .. Commands
    /\ awaiting \in BOOLEAN /\ owed \in BOOLEAN

HandlerTypes ==
    /\ mouse \in MouseStates
    /\ keyboard \in [shift : BOOLEAN, caps : BOOLEAN]
    /\ keys \in Rings

HistoryTypes ==
    /\ hand \in [held : SUBSET Shifts, caps : BOOLEAN]
    /\ moved \in Positions /\ slipped \in BOOLEAN /\ robbed \in BOOLEAN

LEMMA TypeParts == InputTypes <=> HardwareTypes /\ HandlerTypes /\ HistoryTypes
BY DEF InputTypes, HardwareTypes, HandlerTypes, HistoryTypes, MouseStates

LEMMA EmptyIs == Empty \in [from : {"nobody", "mouse"} \cup Keys, byte : MouseBytes]
BY ByteTypes DEF Empty

LEMMA InputTypesInit == InputInit => InputTypes
<1> SUFFICES ASSUME InputInit PROVE InputTypes
  OBVIOUS
<1>1. HardwareTypes
  <2>1. Commands \in 0 .. Commands /\ << >> \in Seq(MouseBytes)
    BY InputSizes
  <2> QED BY <2>1, EmptyIs DEF InputInit, HardwareTypes
<1>2. Width \div 2 \in 0 .. Width - 1
  BY InputSizes
<1>3. mouse \in MouseStates
  <2>1. [i \in 0 .. 2 |-> Zero] \in [0 .. 2 -> MouseBytes]
    BY ByteTypes
  <2> QED BY <1>2, <2>1 DEF InputInit, MouseStates
<1>4. HandlerTypes
  BY <1>3, EmptyRingIs DEF InputInit, HandlerTypes
<1>5. HistoryTypes
  BY <1>2 DEF InputInit, HistoryTypes, Positions
<1> QED BY <1>1, <1>4, <1>5, TypeParts

LEMMA InputTypesStep == InputTypes /\ [InputNext]_inputvars => InputTypes'
<1> SUFFICES ASSUME HardwareTypes, HandlerTypes, HistoryTypes, [InputNext]_inputvars
             PROVE  HardwareTypes' /\ HandlerTypes' /\ HistoryTypes'
  BY DEF InputTypes, HardwareTypes, HandlerTypes, HistoryTypes, MouseStates
<1>1. ASSUME NEW d \in Motions, NEW b \in BOOLEAN, MouseMoves(d, b)
      PROVE  HardwareTypes' /\ HandlerTypes' /\ HistoryTypes'
  <2>1. Packet(d, b) \in Seq(MouseBytes)
    <3>1. /\ FirstByte(d, b) \in MouseBytes /\ SecondByte(d) \in MouseBytes
          /\ ThirdByte \in MouseBytes /\ FourthByte \in MouseBytes
      BY PacketBytes, ByteTypes
    <3>2. /\ <<FirstByte(d, b), SecondByte(d), ThirdByte>> \in Seq(MouseBytes)
          /\ <<FirstByte(d, b), SecondByte(d), ThirdByte, FourthByte>> \in Seq(MouseBytes)
      BY <3>1
    <3> QED BY <3>2, PacketIs
  <2>2. HardwareTypes'
    BY <1>1, <2>1 DEF MouseMoves, HardwareTypes
  <2>3. moved.x \in Int /\ d \in Int
    BY InputSizes DEF HistoryTypes, Positions, Motions
  <2>4. Clamp(moved.x + d) \in 0 .. Width - 1
    BY <2>3, ClampIs
  <2>5. [x |-> Clamp(moved.x + d), button |-> b] \in Positions
    BY <2>4 DEF Positions
  <2>6. HistoryTypes'
    BY <1>1, <2>5 DEF MouseMoves, HistoryTypes
  <2>7. HandlerTypes'
    BY <1>1 DEF MouseMoves, HandlerTypes, keyvars
  <2> QED BY <2>2, <2>6, <2>7
<1>2. ASSUME NEW k \in Keys, KeyMoves(k) PROVE HardwareTypes' /\ HandlerTypes' /\ HistoryTypes'
  <2>1. HardwareTypes'
    BY <1>2, ByteTypes DEF KeyMoves, HardwareTypes
  <2>2. HandlerTypes'
    BY <1>2 DEF KeyMoves, HandlerTypes, mousevars, keyvars
  <2>3. HistoryTypes'
    BY <1>2 DEF KeyMoves, HistoryTypes, mousevars
  <2> QED BY <2>1, <2>2, <2>3
<1>3. CASE MouseSends
  <2>1. HardwareTypes'
    <3>1. CASE owed
      <4>1. buffer' = [from |-> "mouse", byte |-> Answer]
        BY <1>3, <3>1 DEF MouseSends
      <4>2. buffer' \in [from : {"nobody", "mouse"} \cup Keys, byte : MouseBytes]
        BY <4>1, ByteTypes
      <4>3. owed' \in BOOLEAN /\ UNCHANGED <<coming, commands, awaiting>>
        BY <1>3, <3>1 DEF MouseSends
      <4> QED BY <4>2, <4>3 DEF HardwareTypes
    <3>2. CASE ~owed
      <4>1. Head(coming) \in MouseBytes /\ Tail(coming) \in Seq(MouseBytes)
        BY <1>3, <3>2 DEF MouseSends, HardwareTypes
      <4> QED BY <1>3, <3>2, <4>1 DEF MouseSends, HardwareTypes
    <3> QED BY <3>1, <3>2
  <2>2. HandlerTypes' /\ HistoryTypes'
    BY <1>3 DEF MouseSends, HandlerTypes, HistoryTypes, mousevars, keyvars
  <2> QED BY <2>1, <2>2
<1>4. CASE SendsCommand
  BY <1>4, InputSizes DEF SendsCommand, HardwareTypes, HandlerTypes, HistoryTypes, mousevars, keyvars
<1>5. CASE ReadsAnswer
  BY <1>5, EmptyIs DEF ReadsAnswer, HardwareTypes, HandlerTypes, HistoryTypes, keyvars
<1>6. CASE MouseHandler
  <2>1. Handled(mouse, buffer.byte) \in MouseStates
    BY HandledKeeps, HandledMoves DEF HardwareTypes, HandlerTypes
  <2> QED BY <1>6, <2>1, MouseHandlerIs, EmptyIs DEF HardwareTypes, HandlerTypes, HistoryTypes
<1>7. CASE KeyboardHandler
  <2>1. CharOf(buffer.from) \in Nat
    BY DEF CharOf, Enter, Erase, Upper, Lower
  <2>2. keys' \in Rings
    BY <1>7, <2>1, PushAppends DEF KeyboardHandler, HandlerTypes
  <2>3. keyboard' \in [shift : BOOLEAN, caps : BOOLEAN]
    <3> DEFINE k == buffer.from
               sh == IF k \in Shifts THEN k \in hand.held ELSE keyboard.shift
               cp == IF k = "caps" THEN ~keyboard.caps ELSE keyboard.caps
    <3>1. keyboard' = [keyboard EXCEPT !.shift = sh, !.caps = cp]
      BY <1>7 DEF KeyboardHandler
    <3>2. keyboard \in [shift : BOOLEAN, caps : BOOLEAN]
      BY DEF HandlerTypes
    <3>3. keyboard.shift \in BOOLEAN /\ keyboard.caps \in BOOLEAN
      BY <3>2
    <3>4. sh \in BOOLEAN
      <4>1. CASE k \in Shifts
        BY <4>1
      <4>2. CASE k \notin Shifts
        BY <3>3, <4>2
      <4> QED BY <4>1, <4>2
    <3>5. cp \in BOOLEAN
      BY <3>3, Zenon
    <3> HIDE DEF sh, cp
    <3> QED BY <3>1, <3>2, <3>4, <3>5
  <2>4. HandlerTypes'
    BY <1>7, <2>2, <2>3 DEF KeyboardHandler, HandlerTypes, mousevars
  <2> QED BY <1>7, <2>4, EmptyIs DEF KeyboardHandler, HardwareTypes, HistoryTypes, mousevars
<1>8. CASE ProgramReads \/ ShellReads
  <2>1. keys' \in Rings
    BY <1>8, PopTakes DEF ProgramReads, ShellReads, HandlerTypes
  <2> QED BY <1>8, <2>1 DEF ProgramReads, ShellReads, HardwareTypes, HandlerTypes, HistoryTypes, mousevars
<1>9. CASE ForegroundSet
  BY <1>9 DEF ForegroundSet, HardwareTypes, HandlerTypes, HistoryTypes, mousevars, keyvars
<1>10. CASE UNCHANGED inputvars
  BY <1>10 DEF inputvars, HardwareTypes, HandlerTypes, HistoryTypes
<1> QED BY <1>1, <1>2, <1>3, <1>4, <1>5, <1>6, <1>7, <1>8, <1>9, <1>10 DEF InputNext, Motions

-----------------------------------------------------------------------------
(* The keyboard. *)

KeyState ==
    ~robbed =>
        /\ keyboard.caps = (IF buffer.from = "caps" THEN ~hand.caps ELSE hand.caps)
        /\ buffer.from \notin Shifts => (keyboard.shift => hand.held # {})

LEMMA KeyInvInit == InputInit => KeyInv
<1> SUFFICES ASSUME InputInit PROVE KeyInv
  OBVIOUS
<1>1. RingSeq(keys) = typed
  BY EmptyRingIs DEF InputInit
<1>2. keyboard.caps = hand.caps /\ ~keyboard.shift /\ buffer = Empty
  BY DEF InputInit
<1>3. "nobody" # "caps"
  OBVIOUS
<1> QED BY <1>1, <1>2, <1>3, FromKinds DEF KeyInv

LEMMA KeyStep ==
  ASSUME InputTypes, KeyState, [InputNext]_inputvars
  PROVE  KeyState'
<1>0. /\ buffer.from \in {"nobody", "mouse"} \cup Keys
      /\ keyboard \in [shift : BOOLEAN, caps : BOOLEAN] /\ hand \in [held : SUBSET Shifts, caps : BOOLEAN]
  BY DEF InputTypes
<1>1. ASSUME UNCHANGED <<keyboard, hand>>, robbed => robbed',
             ~robbed' => /\ buffer.from \notin Keys
                         /\ buffer'.from \notin Keys
      PROVE  KeyState'
  BY <1>1, FromKinds DEF KeyState
<1>2. ASSUME NEW d \in Motions, NEW b \in BOOLEAN, MouseMoves(d, b) PROVE KeyState'
  BY <1>2 DEF MouseMoves, KeyState, keyvars
<1>3. ASSUME NEW k \in Keys, KeyMoves(k) PROVE KeyState'
  <2> DEFINE held == IF k \in hand.held THEN hand.held \ {k} ELSE hand.held \cup ({k} \cap Shifts)
             caps == IF k = "caps" THEN ~hand.caps ELSE hand.caps
  <2>1. /\ buffer = Empty /\ buffer'.from = k /\ UNCHANGED <<keyboard, robbed>>
        /\ hand'.held = held /\ hand'.caps = caps
    BY <1>3 DEF KeyMoves, keyvars
  <2>2. CASE robbed
    BY <2>1, <2>2 DEF KeyState
  <2>3. CASE ~robbed
    <3>1. keyboard.caps = hand.caps /\ (keyboard.shift => hand.held # {})
      BY <2>1, <2>3, FromKinds DEF KeyState
    <3>2. keyboard.caps = (IF k = "caps" THEN ~caps ELSE caps)
      BY <1>0, <3>1
    <3>3. k \notin Shifts => held = hand.held
      BY <1>0
    <3> QED BY <2>1, <3>1, <3>2, <3>3 DEF KeyState
  <2> QED BY <2>2, <2>3
<1>4. CASE MouseSends
  <2>1. buffer = Empty /\ buffer'.from = "mouse" /\ UNCHANGED <<keyboard, hand, robbed>>
    BY <1>4 DEF MouseSends, keyvars
  <2> QED BY <1>1, <2>1, FromKinds
<1>5. CASE SendsCommand
  BY <1>5 DEF SendsCommand, KeyState, keyvars
<1>6. CASE ReadsAnswer
  <2>1. buffer' = Empty /\ UNCHANGED <<keyboard, hand>> /\ robbed' = (robbed \/ (buffer.from \in Keys))
    BY <1>6 DEF ReadsAnswer, keyvars
  <2> QED BY <1>1, <2>1, FromKinds
<1>7. CASE MouseHandler
  <2>1. buffer.from = "mouse" /\ buffer' = Empty /\ UNCHANGED <<keyboard, hand, robbed>>
    BY <1>7, MouseHandlerIs DEF FromMouse
  <2> QED BY <1>1, <2>1, FromKinds
<1>8. CASE KeyboardHandler
  <2> DEFINE k == buffer.from
             sh == IF k \in Shifts THEN k \in hand.held ELSE keyboard.shift
             cp == IF k = "caps" THEN ~keyboard.caps ELSE keyboard.caps
  <2>1. /\ buffer' = Empty /\ UNCHANGED <<hand, robbed>>
        /\ keyboard' = [keyboard EXCEPT !.shift = sh, !.caps = cp]
    BY <1>8 DEF KeyboardHandler
  <2>2. keyboard'.shift = sh /\ keyboard'.caps = cp
    BY <1>0, <2>1
  <2>3. CASE robbed
    BY <2>1, <2>3 DEF KeyState
  <2>4. CASE ~robbed
    <3>1. cp = hand.caps
      BY <1>0, <2>4 DEF KeyState
    <3>2. sh => hand.held # {}
      BY <2>4 DEF KeyState
    <3>3. keyboard'.caps = hand.caps /\ (keyboard'.shift => hand.held # {})
      BY <2>2, <3>1, <3>2
    <3>4. buffer'.from # "caps"
      BY <2>1, FromKinds
    <3> QED BY <2>1, <3>3, <3>4 DEF KeyState
  <2> QED BY <2>3, <2>4
<1>9. CASE ProgramReads \/ ShellReads
  BY <1>9 DEF ProgramReads, ShellReads, KeyState
<1>10. CASE ForegroundSet
  BY <1>10 DEF ForegroundSet, KeyState, keyvars
<1>11. CASE UNCHANGED inputvars
  BY <1>11 DEF inputvars, KeyState
<1> QED BY <1>2, <1>3, <1>4, <1>5, <1>6, <1>7, <1>8, <1>9, <1>10, <1>11 DEF InputNext, Motions

LEMMA TypedStep ==
  ASSUME InputTypes, RingSeq(keys) = typed, [InputNext]_inputvars
  PROVE  RingSeq(keys') = typed'
<1>0. keys \in Rings
  BY DEF InputTypes
<1>1. ASSUME UNCHANGED <<keys, typed>> PROVE RingSeq(keys') = typed'
  BY <1>1
<1>2. CASE KeyboardHandler
  <2>1. CharOf(buffer.from) \in Nat
    BY DEF CharOf, Enter, Erase, Upper, Lower
  <2>2. \/ keys' = RingPush(keys, CharOf(buffer.from)) /\ typed' = Fill(typed, CharOf(buffer.from))
        \/ UNCHANGED <<keys, typed>>
    BY <1>2 DEF KeyboardHandler
  <2> QED BY <1>0, <1>1, <2>1, <2>2, PushAppends DEF Fill, Pushed
<1>3. CASE ProgramReads \/ ShellReads
  BY <1>0, <1>3, PopTakes DEF ProgramReads, ShellReads
<1>4. CASE ~(KeyboardHandler \/ ProgramReads \/ ShellReads)
  <2>1. UNCHANGED <<keys, typed>>
    BY <1>4 DEF InputNext, MouseMoves, KeyMoves, MouseSends, SendsCommand, ReadsAnswer, MouseHandler,
                ForegroundSet, keyvars, inputvars
  <2> QED BY <1>1, <2>1
<1> QED BY <1>2, <1>3, <1>4

-----------------------------------------------------------------------------
(* The mouse. *)

\* What the other device, the readers and mouse_init's waiting leave alone.
LEMMA MouseFrame ==
  ASSUME MouseInv, UNCHANGED <<coming, commands, owed, mouse, moved>>,
         slipped => slipped', FromMouse' <=> FromMouse, FromMouse => buffer' = buffer
  PROVE  MouseInv'
<1>1. ASSUME NEW o, Rests(o) PROVE Rests(o)'
  BY <1>1 DEF Rests, FromMouse, Settles, Settled
<1>2. ASSUME NEW d, NEW b, NEW o, Under(d, b, o) PROVE Under(d, b, o)'
  BY <1>1, <1>2 DEF Under, AllToCome, ThreeToCome, TwoToCome, OneToCome, HasFirst, HasSecond, FromMouse
<1>3. Streaming => Streaming'
  <2>1. CASE coming = << >> /\ Rests(moved)
    <3>1. Rests(moved)'
      BY <2>1 DEF Rests, FromMouse, Settles, Settled
    <3> QED BY <2>1, <3>1 DEF Streaming
  <2>2. CASE \E d \in Motions, b \in BOOLEAN, o \in Positions : Under(d, b, o)
    BY <1>2, <2>2 DEF Streaming
  <2> QED BY <2>1, <2>2 DEF Streaming
<1>4. Early => Early'
  BY DEF Early, FromMouse, Settled
<1> QED BY <1>3, <1>4 DEF MouseInv

\* The mouse begins a packet.
LEMMA MouseMovesStep ==
  ASSUME InputTypes, MouseInv, NEW d \in Motions, NEW b \in BOOLEAN, MouseMoves(d, b)
  PROVE  MouseInv'
<1>1. /\ coming = << >> /\ ~owed /\ coming' = Packet(d, b)
      /\ moved' = (IF commands > 0 THEN moved ELSE [x |-> Clamp(moved.x + d), button |-> b])
      /\ UNCHANGED <<buffer, commands, owed, mouse, slipped>>
  BY DEF MouseMoves
<1>2. CASE slipped
  BY <1>1, <1>2 DEF MouseInv
<1>3. CASE ~slipped /\ commands > 0
  <2>1. coming' = <<FirstByte(d, b), SecondByte(d), ThirdByte>> /\ moved' = moved
    BY <1>1, <1>3, PacketIs
  <2>2. \A i \in 1 .. Len(coming') : coming'[i].nth # 3
    BY <2>1, PacketBytes, ByteTypes
  <2>3. Early'
    BY <1>1, <1>3, <2>1, <2>2 DEF MouseInv, Early, FromMouse, Settled
  <2> QED BY <1>1, <1>3, <2>3 DEF MouseInv
<1>4. CASE ~slipped /\ ~(commands > 0)
  <2>1. coming' = <<FirstByte(d, b), SecondByte(d), ThirdByte, FourthByte>>
    BY <1>1, <1>4, PacketIs
  <2>2. Rests(moved)
    <3>1. \A e, c, o : ~Under(e, c, o)
      BY <1>1 DEF Under, AllToCome, ThreeToCome, TwoToCome, OneToCome
    <3> QED BY <1>4, <3>1 DEF MouseInv, Streaming
  <2>3. PICK o \in Positions : o = moved
    BY DEF InputTypes
  <2>4. Rests(o)'
    BY <1>1, <2>2, <2>3 DEF Rests, FromMouse, Settles, Settled
  <2>5. Under(d, b, o)'
    BY <1>1, <1>4, <2>1, <2>3, <2>4 DEF Under, AllToCome
  <2>6. Streaming'
    BY <2>5 DEF Streaming
  <2> QED BY <1>1, <1>4, <2>6 DEF MouseInv
<1> QED BY <1>2, <1>3, <1>4

\* The controller gets the next byte.
LEMMA SendStreams ==
  ASSUME InputTypes, ~FromMouse, Streaming, coming # << >>,
         buffer' = [from |-> "mouse", byte |-> Head(coming)], coming' = Tail(coming),
         UNCHANGED <<mouse, moved>>
  PROVE  Streaming'
<1>1. PICK d \in Motions, b \in BOOLEAN, o \in Positions : Under(d, b, o)
  BY DEF Streaming
<1>2. FromMouse' /\ buffer'.byte = Head(coming)
  BY DEF FromMouse
<1>3. moved' = [x |-> Clamp(o.x + d), button |-> b]
  BY <1>1 DEF Under
<1>4. CASE AllToCome(d, b, o)
  <2>1. ThreeToCome(d, b, o)'
    BY <1>2, <1>4, Shorter DEF AllToCome, ThreeToCome, Rests, Settled
  <2>2. Under(d, b, o)'
    BY <1>3, <2>1 DEF Under
  <2> QED BY <2>2 DEF Streaming
<1>5. CASE ThreeToCome(d, b, o)
  <2>1. TwoToCome(d, b, o)'
    BY <1>2, <1>5, Shorter DEF ThreeToCome, TwoToCome, HasFirst
  <2>2. Under(d, b, o)'
    BY <1>3, <2>1 DEF Under
  <2> QED BY <2>2 DEF Streaming
<1>6. CASE TwoToCome(d, b, o)
  <2>1. OneToCome(d, b, o)'
    BY <1>2, <1>6, Shorter DEF TwoToCome, OneToCome, HasFirst, HasSecond
  <2>2. Under(d, b, o)'
    BY <1>3, <2>1 DEF Under
  <2> QED BY <2>2 DEF Streaming
<1>7. CASE OneToCome(d, b, o)
  <2>1. /\ coming' = << >> /\ buffer'.byte = FourthByte
        /\ mouse.x = o.x /\ mouse.byte[0] = FirstByte(d, b) /\ mouse.byte[1] = SecondByte(d)
    BY <1>2, <1>7, Shorter DEF OneToCome, HasFirst, HasSecond
  <2>2. Rel(mouse.byte) = d
    BY <2>1, PacketBytes DEF Rel
  <2>3. mouse.byte[0].button = b
    BY <2>1, PacketBytes
  <2>4. Settles(mouse, moved)
    BY <1>3, <2>1, <2>2, <2>3 DEF Settles
  <2>5. Rests(moved)'
    BY <1>2, <2>1, <2>4, ByteTypes DEF Rests, Settles
  <2> QED BY <2>1, <2>5 DEF Streaming
<1> QED BY <1>1, <1>4, <1>5, <1>6, <1>7 DEF Under

LEMMA MouseSendsStep == ASSUME InputTypes, MouseInv, MouseSends PROVE MouseInv'
<1>1. /\ buffer = Empty /\ ~FromMouse /\ UNCHANGED <<commands, mouse, moved, slipped>>
  BY FromKinds DEF MouseSends, mousevars, FromMouse
<1>2. CASE owed
  <2>1. /\ buffer' = [from |-> "mouse", byte |-> Answer] /\ owed' = FALSE /\ coming' = coming
        /\ coming = << >>
    BY <1>2 DEF MouseSends, MouseInv
  <2>2. FromMouse' /\ buffer'.byte.nth = 4
    BY <2>1, ByteTypes DEF FromMouse
  <2>3. Early => Early'
    BY <1>1, <2>1, <2>2 DEF Early, Settled
  <2>4. Streaming => Streaming'
    <3>1. \A d, b, o : ~Under(d, b, o)
      BY <2>1 DEF Under, AllToCome, ThreeToCome, TwoToCome, OneToCome
    <3>2. Rests(moved) => Rests(moved)'
      BY <1>1, <2>2 DEF Rests, Settled
    <3> QED BY <2>1, <3>1, <3>2 DEF Streaming
  <2> QED BY <1>1, <2>1, <2>3, <2>4 DEF MouseInv
<1>3. CASE ~owed
  <2>1. /\ coming # << >> /\ buffer' = [from |-> "mouse", byte |-> Head(coming)]
        /\ coming' = Tail(coming) /\ owed' = FALSE
    BY <1>3 DEF MouseSends
  <2>2. Streaming => Streaming'
    BY <1>1, <2>1, SendStreams
  <2>3. Early => Early'
    <3>1. coming \in Seq(MouseBytes)
      BY DEF InputTypes
    <3>2. Head(coming) = coming[1] /\ 1 \in 1 .. Len(coming)
      BY <2>1, <3>1
    <3>3. \A i \in 1 .. Len(Tail(coming)) : Tail(coming)[i] = coming[i + 1] /\ i + 1 \in 1 .. Len(coming)
      BY <2>1, <3>1
    <3>4. buffer'.byte = coming[1]
      BY <2>1, <3>2
    <3> QED BY <1>1, <2>1, <3>2, <3>3, <3>4 DEF Early, Settled
  <2> QED BY <1>1, <2>1, <2>2, <2>3 DEF MouseInv
<1> QED BY <1>2, <1>3

\* A command cuts off what was to come; with the last one the stream proper begins.
LEMMA SendsCommandStep == ASSUME InputTypes, MouseInv, SendsCommand PROVE MouseInv'
<1>1. /\ commands > 0 /\ coming' = << >> /\ UNCHANGED <<buffer, mouse, moved, slipped>>
  BY DEF SendsCommand, mousevars
<1>2. CASE slipped
  BY <1>1, <1>2 DEF MouseInv
<1>3. CASE ~slipped
  <2>1. Early
    BY <1>1, <1>3 DEF MouseInv
  <2>2. Early'
    BY <1>1, <2>1 DEF Early, Settled, FromMouse
  <2>3. Streaming'
    BY <1>1, <2>1 DEF Early, Streaming, Rests, Settled, FromMouse
  <2> QED BY <1>1, <2>2, <2>3 DEF MouseInv
<1> QED BY <1>2, <1>3

\* Whatever mouse_init takes but an answer is a slip.
LEMMA ReadsAnswerStep == ASSUME InputTypes, MouseInv, ReadsAnswer PROVE MouseInv'
<1>1. /\ buffer' = Empty /\ UNCHANGED <<coming, commands, owed, mouse, moved>>
      /\ slipped' = (slipped \/ (FromMouse /\ buffer.byte.nth # 4))
  BY DEF ReadsAnswer, FromMouse
<1>2. ~FromMouse'
  BY <1>1, FromKinds DEF FromMouse
<1>3. CASE slipped'
  BY <1>1, <1>3 DEF MouseInv
<1>4. CASE ~slipped' /\ ~FromMouse
  BY <1>1, <1>2, <1>4, MouseFrame
<1>5. CASE ~slipped' /\ FromMouse
  <2>1. ~slipped /\ buffer.byte.nth = 4
    BY <1>1, <1>5
  <2>2. Early => Early'
    BY <1>1, <1>2 DEF Early, Settled
  <2>3. ASSUME NEW o, Rests(o) PROVE Rests(o)'
    BY <1>1, <1>2, <2>1, <2>3 DEF Rests, Settled
  <2>4. ASSUME NEW d \in Motions, NEW b \in BOOLEAN, NEW o, Under(d, b, o) PROVE Under(d, b, o)'
    <3>1. ~ThreeToCome(d, b, o) /\ ~TwoToCome(d, b, o) /\ ~OneToCome(d, b, o)
      BY <1>5, <2>1, PacketBytes, ByteTypes DEF ThreeToCome, TwoToCome, OneToCome
    <3>2. AllToCome(d, b, o)'
      BY <1>1, <2>3, <2>4, <3>1 DEF Under, AllToCome
    <3> QED BY <1>1, <2>4, <3>2 DEF Under
  <2>5. Rests(moved) => Rests(moved)'
    BY <1>1, <1>2, <2>1 DEF Rests, Settled
  <2>6. Streaming => Streaming'
    BY <1>1, <2>4, <2>5 DEF Streaming
  <2> QED BY <1>1, <2>1, <2>2, <2>6 DEF MouseInv
<1> QED BY <1>3, <1>4, <1>5

\* The handler takes the byte that is in its place.
LEMMA MouseHandlerStep == ASSUME InputTypes, MouseInv, MouseHandler PROVE MouseInv'
<1>1. /\ FromMouse /\ buffer' = Empty /\ mouse' = Handled(mouse, buffer.byte)
      /\ slipped' = (slipped \/ (buffer.byte.nth # mouse.cycle))
      /\ UNCHANGED <<coming, commands, owed, moved>>
  BY MouseHandlerIs
<1>2. ~FromMouse'
  BY <1>1, FromKinds DEF FromMouse
<1>3. mouse \in MouseStates /\ buffer.byte \in MouseBytes
  BY TypeParts DEF HardwareTypes, HandlerTypes
<1>4. CASE slipped'
  BY <1>1, <1>4 DEF MouseInv
<1>5. CASE ~slipped'
  <2>1. ~slipped /\ buffer.byte.nth = mouse.cycle
    BY <1>1, <1>5
  <2>2. Early => Early'
    <3>1. ASSUME Early PROVE Settled(mouse, moved)'
      <4>1. mouse.cycle # 3
        BY <1>1, <2>1, <3>1 DEF Early
      <4> QED BY <1>1, <1>3, <3>1, <4>1, HandledKeeps DEF Early, Settled
    <3> QED BY <1>1, <1>2, <3>1 DEF Early
  <2>3. ASSUME NEW o, Rests(o) PROVE Settled(mouse', o)
    <3>1. CASE mouse.cycle = 3
      BY <1>1, <1>3, <2>1, <2>3, <3>1, HandledMoves DEF Rests, Settles, Settled
    <3>2. CASE mouse.cycle # 3
      BY <1>1, <1>3, <2>1, <2>3, <3>2, HandledKeeps DEF Rests, Settled
    <3> QED BY <3>1, <3>2
  <2>4. ASSUME NEW d \in Motions, NEW b \in BOOLEAN, NEW o, Under(d, b, o) PROVE Under(d, b, o)'
    <3>0. moved' = [x |-> Clamp(o.x + d), button |-> b]
      BY <1>1, <2>4 DEF Under
    <3> DEFINE c == mouse.cycle
               B == mouse.byte
    <3>1. CASE AllToCome(d, b, o)
      <4>1. Settled(mouse', o)
        BY <2>3, <3>1 DEF AllToCome
      <4>2. AllToCome(d, b, o)'
        BY <1>1, <1>2, <3>1, <4>1 DEF AllToCome, Rests, Settled
      <4> QED BY <3>0, <4>2 DEF Under
    <3>2. CASE ThreeToCome(d, b, o)
      <4>1. buffer.byte = FirstByte(d, b) /\ c = 0 /\ buffer.byte.sync
        BY <1>1, <2>1, <3>2, PacketBytes DEF ThreeToCome
      <4>2. mouse'.x = mouse.x /\ mouse'.cycle = 1 /\ mouse'.byte = [B EXCEPT ![0] = buffer.byte]
        BY <1>1, <1>3, <4>1, HandledKeeps
      <4>3. mouse'.byte[0] = FirstByte(d, b)
        BY <1>3, <4>1, <4>2 DEF MouseStates
      <4>4. ThreeToCome(d, b, o)'
        BY <1>1, <1>2, <3>2, <4>2, <4>3 DEF ThreeToCome, HasFirst
      <4> QED BY <3>0, <4>4 DEF Under
    <3>3. CASE TwoToCome(d, b, o)
      <4>1. buffer.byte = SecondByte(d) /\ c = 1 /\ B[0] = FirstByte(d, b)
        BY <1>1, <2>1, <3>3, PacketBytes DEF TwoToCome, HasFirst
      <4>2. mouse'.x = mouse.x /\ mouse'.cycle = 2 /\ mouse'.byte = [B EXCEPT ![1] = buffer.byte]
        BY <1>1, <1>3, <4>1, HandledKeeps
      <4>3. mouse'.byte[0] = FirstByte(d, b) /\ mouse'.byte[1] = SecondByte(d)
        BY <1>3, <4>1, <4>2 DEF MouseStates
      <4>4. TwoToCome(d, b, o)'
        BY <1>1, <1>2, <3>3, <4>2, <4>3 DEF TwoToCome, HasFirst, HasSecond
      <4> QED BY <3>0, <4>4 DEF Under
    <3>4. CASE OneToCome(d, b, o)
      <4>1. buffer.byte = ThirdByte /\ c = 2 /\ B[0] = FirstByte(d, b) /\ B[1] = SecondByte(d)
        BY <1>1, <2>1, <3>4, ByteTypes DEF OneToCome, HasFirst, HasSecond
      <4>2. mouse'.x = mouse.x /\ mouse'.cycle = 3 /\ mouse'.byte = [B EXCEPT ![2] = buffer.byte]
        BY <1>1, <1>3, <4>1, HandledKeeps
      <4>3. mouse'.byte[0] = FirstByte(d, b) /\ mouse'.byte[1] = SecondByte(d)
        BY <1>3, <4>1, <4>2 DEF MouseStates
      <4>4. OneToCome(d, b, o)'
        BY <1>1, <1>2, <3>4, <4>2, <4>3 DEF OneToCome, HasFirst, HasSecond
      <4> QED BY <3>0, <4>4 DEF Under
    <3> QED BY <2>4, <3>1, <3>2, <3>3, <3>4 DEF Under
  <2>5. Rests(moved) => Rests(moved)'
    <3>1. Rests(moved) => Settled(mouse', moved)
      BY <2>3
    <3> QED BY <1>1, <1>2, <3>1 DEF Rests, Settled
  <2>6. Streaming => Streaming'
    BY <1>1, <2>4, <2>5 DEF Streaming
  <2> QED BY <1>1, <2>1, <2>2, <2>6 DEF MouseInv
<1> QED BY <1>4, <1>5

LEMMA MouseStep == ASSUME InputTypes, MouseInv, [InputNext]_inputvars PROVE MouseInv'
<1>1. ASSUME NEW d \in Motions, NEW b \in BOOLEAN, MouseMoves(d, b) PROVE MouseInv'
  BY <1>1, MouseMovesStep
<1>2. ASSUME NEW k \in Keys, KeyMoves(k) PROVE MouseInv'
  <2>1. buffer = Empty /\ buffer'.from = k /\ UNCHANGED <<coming, commands, owed, mouse, moved, slipped>>
    BY <1>2 DEF KeyMoves, mousevars
  <2>2. ~FromMouse /\ ~FromMouse'
    BY <2>1, FromKinds DEF FromMouse
  <2> QED BY <2>1, <2>2, MouseFrame
<1>3. CASE KeyboardHandler
  <2>1. buffer.from \in Keys /\ buffer' = Empty /\ UNCHANGED <<coming, commands, owed, mouse, moved, slipped>>
    BY <1>3 DEF KeyboardHandler, mousevars
  <2>2. ~FromMouse /\ ~FromMouse'
    BY <2>1, FromKinds DEF FromMouse
  <2> QED BY <2>1, <2>2, MouseFrame
<1>4. CASE ProgramReads \/ ShellReads \/ ForegroundSet \/ UNCHANGED inputvars
  <2>1. UNCHANGED <<buffer, coming, commands, owed, mouse, moved, slipped>>
    BY <1>4 DEF ProgramReads, ShellReads, ForegroundSet, inputvars, mousevars
  <2>2. FromMouse' <=> FromMouse
    BY <2>1 DEF FromMouse
  <2> QED BY <2>1, <2>2, MouseFrame
<1> QED BY <1>1, <1>2, <1>3, <1>4, MouseSendsStep, SendsCommandStep, ReadsAnswerStep, MouseHandlerStep
        DEF InputNext, Motions

LEMMA MouseInvInit == InputInit => MouseInv
<1> SUFFICES ASSUME InputInit PROVE MouseInv
  OBVIOUS
<1>1. coming = << >> /\ buffer = Empty /\ commands = Commands /\ mouse.x = moved.x /\ mouse.button = moved.button
  BY DEF InputInit
<1>2. ~FromMouse
  BY <1>1, FromKinds DEF FromMouse
<1> QED BY <1>1, <1>2, InputSizes DEF MouseInv, Early, Settled

-----------------------------------------------------------------------------
\* What of a packet is still to come, where the mouse will be, and what the ring holds
\* (keyboard_handler, mouse_handler, mouse_init).
THEOREM InputInvariant == InputSpec => []InputInv
<1>1. InputInit => InputInv
  BY InputTypesInit, MouseInvInit, KeyInvInit DEF InputInv
<1>2. InputInv /\ [InputNext]_inputvars => InputInv'
  <2> SUFFICES ASSUME InputInv, [InputNext]_inputvars PROVE InputInv'
    OBVIOUS
  <2>1. InputTypes /\ MouseInv /\ RingSeq(keys) = typed /\ KeyState
    BY DEF InputInv, KeyInv, KeyState
  <2>2. InputTypes' /\ MouseInv'
    BY <2>1, InputTypesStep, MouseStep
  <2>3. RingSeq(keys') = typed' /\ KeyState'
    BY <2>1, TypedStep, KeyStep
  <2>4. RingSeq(keys)' = RingSeq(keys')
    BY DEF RingSeq, RingCount
  <2> QED BY <2>2, <2>3, <2>4 DEF InputInv, KeyInv, KeyState
<1> QED BY <1>1, <1>2, PTL DEF InputSpec

(* What the two handlers make of the bytes of one controller is what the user did: the mouse  *)
(* is where it was moved to unless the handler once took a byte for another, and readers get  *)
(* the characters typed in order, for any screen, ring and commands (keyboard_handler,        *)
(* mouse_handler, mouse_init).                                                                *)
THEOREM InputIsTrue == InputSpec => []InputTrue
<1>1. InputInv => InputTrue
  <2> SUFFICES ASSUME InputInv PROVE MouseTrue /\ KeysTrue
    BY DEF InputTrue
  <2>1. MouseTrue
    <3> SUFFICES ASSUME commands = 0, ~slipped, coming = << >>, ~FromMouse PROVE Settled(mouse, moved)
      BY DEF MouseTrue, FromMouse, Settled
    <3>1. \A d, b, o : ~Under(d, b, o)
      BY DEF Under, AllToCome, ThreeToCome, TwoToCome, OneToCome
    <3> QED BY <3>1 DEF InputInv, MouseInv, Streaming, Rests
  <2>2. KeysTrue
    <3>1. hand.held \subseteq Shifts
      BY DEF InputInv, InputTypes
    <3> QED BY <3>1, FromKinds DEF InputInv, KeyInv, KeysTrue
  <2> QED BY <2>1, <2>2
<1> QED BY <1>1, InputInvariant, PTL

\* The shell's line ends before its buffer does (shell_task).
LEMMA LineFits == InputSpec => [](line \in 0 .. LineSize - 1)
<1> DEFINE Short == line \in 0 .. LineSize - 1
<1>1. InputInit => Short
  BY InputSizes DEF InputInit
<1>2. Short /\ [InputNext]_inputvars => Short'
  <2> SUFFICES ASSUME Short, [InputNext]_inputvars PROVE Short'
    OBVIOUS
  <2>1. CASE ShellReads
    <3> DEFINE c == RingHead(keys)
    <3>1. line' = IF c = Enter THEN 0
                  ELSE IF c = Erase THEN (IF line > 0 THEN line - 1 ELSE 0)
                  ELSE IF line < LineSize - 1 THEN line + 1 ELSE line
      BY <2>1 DEF ShellReads, Enter, Erase
    <3> QED BY <3>1, InputSizes
  <2>2. CASE UNCHANGED inputvars
    BY <2>2 DEF inputvars
  <2>3. CASE \/ \E d \in (0 - Motion) .. Motion, b \in BOOLEAN : MouseMoves(d, b)
             \/ MouseSends \/ SendsCommand \/ ReadsAnswer \/ MouseHandler
    <3>1. line' = line
      BY <2>3 DEF MouseMoves, MouseSends, SendsCommand, ReadsAnswer, MouseHandler
    <3> QED BY <3>1
  <2>4. CASE \/ \E k \in Keys : KeyMoves(k)
             \/ KeyboardHandler \/ ProgramReads \/ ForegroundSet
    <3>1. line' = line
      BY <2>4 DEF KeyMoves, KeyboardHandler, ProgramReads, ForegroundSet
    <3> QED BY <3>1
  <2> HIDE DEF Short
  <2> QED BY <2>1, <2>2, <2>3, <2>4 DEF InputNext
<1> QED BY <1>1, <1>2, PTL DEF InputSpec

\* The mouse stays on the screen, the line and the ring in their arrays, and mouse_init sends
\* no more than its commands (keyboard_handler, mouse_handler).
THEOREM InputTypesHold == InputSpec => []InputTypeOK
<1>1. InputInv /\ line \in 0 .. LineSize - 1 => InputTypeOK
  <2> SUFFICES ASSUME InputTypes, line \in 0 .. LineSize - 1 PROVE InputTypeOK
    BY DEF InputInv
  <2>1. mouse.cycle \in 0 .. 3 /\ mouse.x \in 0 .. Width - 1 /\ hand.held \subseteq Shifts
    BY DEF InputTypes
  <2>2. keys.head \in RingPlaces /\ keys.tail \in RingPlaces
    BY DEF InputTypes, Rings
  <2> QED BY <2>1, <2>2 DEF InputTypes, InputTypeOK, RingPlaces
<1> QED BY <1>1, LineFits, InputInvariant, PTL

-----------------------------------------------------------------------------
(***************************************************************************)
(* The types, and all five parts at once: each behaviour of the bench is   *)
(* one of each part, so that what is proved of a part holds of the bench.  *)
(***************************************************************************)

\* Where pmm_alloc_block looks first is a word of the bitmap, and CR3 is one of two things.
SearchInv ==
    /\ last_bit_index \in 0 .. Word(LastFrame)
    /\ cr3 \in {"good", "fault address"}

LEMMA WordsOrdered ==
    ASSUME NEW f \in Nat, NEW g \in Nat, f <= g
    PROVE  Word(f) \in 0 .. Word(g)
<1>1. WordSize \in Nat /\ WordSize > 0
  BY FrameAssumption
<1>2. /\ Word(f) \in Nat /\ Word(g) \in Nat
      /\ f = (WordSize * Word(f)) + (f % WordSize) /\ f % WordSize \in 0 .. WordSize - 1
      /\ g = (WordSize * Word(g)) + (g % WordSize) /\ g % WordSize \in 0 .. WordSize - 1
  BY <1>1 DEF Word
<1>3. ASSUME Word(g) < Word(f) PROVE FALSE
  <2>1. Word(g) + 1 <= Word(f)
    BY <1>2, <1>3
  <2>2. WordSize * (Word(g) + 1) <= WordSize * Word(f)
    BY <1>1, <1>2, <2>1
  <2>3. WordSize * (Word(g) + 1) = (WordSize * Word(g)) + WordSize
    BY <1>1, <1>2
  <2> QED BY <1>1, <1>2, <2>2, <2>3
<1> QED BY <1>2, <1>3

LEMMA SearchSteps == IInv /\ SearchInv /\ [MemNext]_memvars => SearchInv'
<1> SUFFICES ASSUME IInv, SearchInv, [MemNext]_memvars PROVE SearchInv'
  OBVIOUS
<1> DEFINE Bound == last_bit_index' \in 0 .. Word(LastFrame)
<1>0. TypeInv /\ LastFrame \in Nat
  BY FrameAssumption DEF IInv
<1>1. \A f \in Frames : Word(f) \in 0 .. Word(LastFrame)
  BY <1>0, WordsOrdered DEF Frames
<1>2. ASSUME NEW h, NEW f \in Frames, Marks(h, f) PROVE Bound
  BY <1>1, <1>2 DEF Marks
<1>3. ASSUME NEW h, NEW S \in SUBSET Frames, Unmarks(h, S) PROVE Bound
  BY <1>0, <1>1, <1>3, WordsOf DEF SearchInv
<1>4. ASSUME KeepsBitmap PROVE Bound
  BY <1>4 DEF KeepsBitmap, SearchInv
<1>5. ASSUME last_bit_index' = last_bit_index PROVE Bound
  BY <1>5 DEF SearchInv
<1>6. \A h \in Hands : /\ {task[h].frame} \ {NoFrame} \in SUBSET Frames
                       /\ task[h].seen # NoFrame => task[h].seen \in Frames
  BY <1>0 DEF TypeInv, Task, MaybeFrame
<1>7. "call" \in Hands /\ "shell" \in Hands
  BY DEF Hands
<1>8. NextFit # NoFrame => NextFit \in Frames
  BY <1>0, NextFitIsFree DEF FreeFrames, TypeInv
<1>9. \A p \in Programs : FramesAt(p, FreedByUnload) \in SUBSET Frames
  BY <1>0, FramesAtTyped, UnloadsFreed
<1> HIDE DEF Bound
<1>10. ASSUME NEW h \in Hands, Asks(h) \/ MapsPage(h) \/ PageDropped(h) \/ LoadEnds(h) PROVE Bound
  BY <1>4, <1>5, <1>10 DEF Asks, MapsPage, PageDropped, LoadEnds
<1>11. ASSUME NEW h \in Hands, GetsTable(h) \/ GetsPage(h) PROVE Bound
  BY <1>2, <1>6, <1>11 DEF GetsTable, GetsPage
<1>12. ASSUME NEW h \in Hands, LoadFails(h) PROVE Bound
  <2>1. task[h].prog \in Programs
    BY <1>12 DEF LoadFails, IInv, Filled, Filling, Busy, Idle
  <2> QED BY <1>3, <1>9, <1>12, <2>1 DEF LoadFails, Unloads
<1>13. ASSUME NEW p \in Programs, Reaped(p) PROVE Bound
  BY <1>3, <1>9, <1>13 DEF Reaped, Unloads
<1>14. ASSUME NEW p \in Programs, Dies(p) \/ CallsSbrk(p) \/ OtherFault(p) PROVE Bound
  BY <1>5, <1>14 DEF Dies, CallsSbrk, OtherFault
<1>15. ASSUME NEW p \in Programs, NEW h \in Loaders, StartsLoad(h, p) PROVE Bound
  BY <1>5, <1>15 DEF StartsLoad
<1>16. ASSUME NEW p \in Programs, StackFault(p) PROVE Bound
  BY <1>2, <1>4, <1>8, <1>16 DEF StackFault
<1>17. ASSUME SbrkFails \/ GivesBack PROVE Bound
  BY <1>3, <1>6, <1>7, <1>17 DEF SbrkFails, GivesBack
<1>18. ASSUME Borrows PROVE Bound
  BY <1>5, <1>18 DEF Borrows
<1>19. ASSUME HeapGrows PROVE Bound
  BY <1>2, <1>8, <1>19 DEF HeapGrows
<1>20. ASSUME UNCHANGED memvars PROVE Bound
  BY <1>5, <1>20 DEF memvars
<1>21. Bound
  BY <1>10, <1>11, <1>12, <1>13, <1>14, <1>15, <1>16, <1>17, <1>18, <1>19, <1>20 DEF MemNext
<1>22. cr3' \in {cr3, "fault address"}
  BY DEF MemNext, memvars, Asks, GetsTable, GetsPage, MapsPage, LoadFails, PageDropped, LoadEnds, StartsLoad,
         Dies, Reaped, CallsSbrk, StackFault, OtherFault, SbrkFails, Borrows, GivesBack, HeapGrows
<1> QED BY <1>21, <1>22 DEF SearchInv, Bound

\* The bitmap, the places of the address spaces and their lives keep their types, also once
\* an allocation was overtaken (pmm.c, vmm.c, elf.c).
THEOREM MemoryTypes == MemSpec => []MemTypeOK
<1>1. MemInit => SearchInv
  <2>1. 0 \in 0 .. Word(LastFrame)
    BY WordType
  <2> QED BY <2>1 DEF MemInit, SearchInv
<1>2. MemSpec => []SearchInv
  BY <1>1, SearchSteps, MemoryInvariant, PTL DEF MemSpec
<1>3. IInv /\ SearchInv => MemTypeOK
  BY DEF IInv, TypeInv, SearchInv, MemTypeOK, MaybeFrame
<1> QED BY <1>2, <1>3, MemoryInvariant, PTL

\* The boot goes through its phases and no further, and only threads set points.
PhaseInv == setting \subseteq Runners /\ bootAt \in 1 .. Up

LEMMA PhasesStep == PhaseInv /\ [RecoveryNext]_recoveryvars => PhaseInv'
<1> SUFFICES ASSUME PhaseInv, [RecoveryNext]_recoveryvars PROVE PhaseInv'
  OBVIOUS
<1>1. Up = 8
  BY DEF Up, BootPhases
<1>2. CASE NextBootPhase
  BY <1>1, <1>2 DEF NextBootPhase, CanRun, PhaseInv
<1>3. ASSUME NEW t \in Runners, Sets(t) \/ Arms(t) PROVE PhaseInv'
  BY <1>3 DEF Sets, Arms, PhaseInv
<1>4. ASSUME NEW t \in Runners, Ends(t) \/ Leaves(t) \/ Recovers(t) \/ Panics(t) \/ GoesWild(t) PROVE PhaseInv'
  BY <1>4 DEF Ends, Leaves, Recovers, Panics, GoesWild, PhaseInv
<1>5. CASE UNCHANGED recoveryvars
  BY <1>5 DEF recoveryvars, PhaseInv
<1> QED BY <1>2, <1>3, <1>4, <1>5 DEF RecoveryNext

\* The one recovery point names a thread and a block no deeper than they nest (kernel_try.h).
THEOREM RecoveryTypes == RecoverySpec => []RecoveryTypeOK
<1>1. RecoveryInit => PhaseInv
  BY DEF RecoveryInit, PhaseInv, Runners, Up, BootPhases
<1>2. RecoverySpec => []PhaseInv
  BY <1>1, PhasesStep, PTL DEF RecoverySpec
<1>3. RecoveryInv /\ PhaseInv => RecoveryTypeOK
  BY DEF RecoveryInv, PointInv, Points, PhaseInv, RecoveryTypeOK
<1>4. RecoverySpec => []RecoveryInv
  BY InitRecovery, NextRecovery, PTL DEF RecoverySpec
<1> QED BY <1>2, <1>3, <1>4, PTL

LEMMA KernelSteps ==
  [Next]_vars => /\ [MemNext]_memvars /\ [InputNext]_inputvars /\ [RecoveryNext]_recoveryvars
                 /\ [HeapNext]_heapvars
<1> SUFFICES ASSUME [Next]_vars
             PROVE  /\ [MemNext]_memvars /\ [InputNext]_inputvars /\ [RecoveryNext]_recoveryvars
                    /\ [HeapNext]_heapvars
  OBVIOUS
<1>1. CASE Only("memory", MemNext, <<heapvars, inputvars, recoveryvars>>)
  BY <1>1 DEF Only
<1>2. CASE Only("kernel heap", KernelHeapNext, <<memvars, inputvars, recoveryvars>>)
  BY <1>2 DEF Only, HeapNext
<1>3. CASE Only("user heap", UserHeapNext, <<memvars, inputvars, recoveryvars>>)
  BY <1>3 DEF Only, HeapNext
<1>4. CASE Only("input", InputNext, <<memvars, heapvars, recoveryvars>>)
  BY <1>4 DEF Only
<1>5. CASE Only("recovery", RecoveryNext, <<memvars, heapvars, inputvars>>)
  BY <1>5 DEF Only
<1>6. CASE UNCHANGED vars
  BY <1>6 DEF vars
<1> QED BY <1>1, <1>2, <1>3, <1>4, <1>5, <1>6 DEF Next

\* Frames and address spaces, both heaps, the keyboard with the mouse and the recovery point
\* each keep to their own specification (pmm.c, kmalloc.c, keyboard.c, kernel_try.h).
THEOREM KernelParts == Spec => MemSpec /\ HeapSpec /\ InputSpec /\ RecoverySpec
<1>1. Init => MemInit /\ HeapInit /\ InputInit /\ RecoveryInit
  BY DEF Init
<1> QED BY <1>1, KernelSteps, PTL DEF Spec, MemSpec, HeapSpec, InputSpec, RecoverySpec

\* The kernel's parts keep their types, whatever interleaves and fails (pmm.c, keyboard.c,
\* mouse.c, kernel_try.h).
THEOREM KernelTypes == Spec => []KernelTypeOK
<1>1. MemTypeOK /\ InputTypeOK /\ RecoveryTypeOK => KernelTypeOK
  BY DEF KernelTypeOK
<1> QED BY <1>1, KernelParts, MemoryTypes, InputTypesHold, RecoveryTypes, PTL
=============================================================================
