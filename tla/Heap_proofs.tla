----------------------------- MODULE Heap_proofs -----------------------------
(***************************************************************************)
(* Both heaps stay whole, for any sizes asked for and any limits.          *)
(***************************************************************************)
EXTENDS Heap, WellFoundedInduction, TLAPS

\* Every set of numbers has a least one.
LEMMA NatMin ==
    ASSUME NEW S \in SUBSET Nat, S # {}
    PROVE  \E i \in S : \A j \in S : i <= j
<1>1. PICK i \in S : \A j \in S : ~(<<j, i>> \in OpToRel(<, Nat))
  BY NatLessThanWellFounded, WFMin
<1>2. \A j \in S : ~(j < i)
  BY <1>1 DEF OpToRel
<1> QED BY <1>2

-----------------------------------------------------------------------------
(***************************************************************************)
(* A whole heap.                                                           *)
(***************************************************************************)

Place == Nat \cup {Nil}
Header_ == [size : Nat, free : BOOLEAN, next : Place, prev : Place]
Heaps == [block : UNION {[A -> Header_] : A \in SUBSET Nat}, first : Place, last : Place, top : Nat]

\* The blocks lie one behind the other, and each links to the one that begins where it ends.
Chained(h) ==
    \A b \in Addresses(h) :
        /\ h.block[b].next = (IF EndOf(h, b) = h.top THEN Nil ELSE EndOf(h, b))
        /\ EndOf(h, b) = h.top \/ EndOf(h, b) \in Addresses(h)
        /\ EndOf(h, b) <= h.top
        /\ \/ h.block[b].prev = Nil /\ b = 0
           \/ h.block[b].prev \in Addresses(h) /\ EndOf(h, h.block[b].prev) = b

Disjoint(h) == \A x, y \in Addresses(h) : x < y => EndOf(h, x) <= y

Ended(h) ==
    \/ Addresses(h) = {} /\ h.top = 0 /\ h.first = Nil /\ h.last = Nil
    \/ /\ 0 \in Addresses(h) /\ h.first = 0
       /\ h.last \in Addresses(h) /\ EndOf(h, h.last) = h.top

Whole(h) == h \in Heaps /\ Chained(h) /\ Disjoint(h) /\ Ended(h)

LEMMA Types ==
    ASSUME NEW h \in Heaps
    PROVE  /\ Addresses(h) \in SUBSET Nat /\ h.block \in [Addresses(h) -> Header_]
           /\ h.first \in Place /\ h.last \in Place /\ h.top \in Nat
           /\ \A b \in Addresses(h) :
                /\ h.block[b] \in Header_ /\ b \in Nat /\ b # Nil
                /\ h.block[b].size \in Nat /\ EndOf(h, b) \in Nat /\ EndOf(h, b) > b
<1>1. PICK A \in SUBSET Nat : h.block \in [A -> Header_]
  BY DEF Heaps
<1>2. Addresses(h) = A
  BY <1>1 DEF Addresses
<1>3. h.first \in Place /\ h.last \in Place /\ h.top \in Nat
  BY DEF Heaps
<1>4. \A b \in A : h.block[b] \in Header_ /\ h.block[b].size \in Nat
  BY <1>1 DEF Header_
<1>5. \A b \in A : b \in Nat /\ b # Nil /\ EndOf(h, b) \in Nat /\ EndOf(h, b) > b
  BY <1>4, HeapAssumption DEF EndOf, Nil
<1> QED BY <1>1, <1>2, <1>3, <1>4, <1>5

\* What makes a heap of blocks, first, last and top.
LEMMA MakesHeap ==
    ASSUME NEW h, NEW A \in SUBSET Nat, h.block \in [A -> Header_],
           h.first \in Place, h.last \in Place, h.top \in Nat,
           h = [block |-> h.block, first |-> h.first, last |-> h.last, top |-> h.top]
    PROVE  h \in Heaps /\ Addresses(h) = A
<1>1. h.block \in UNION {[B -> Header_] : B \in SUBSET Nat}
  OBVIOUS
<1>2. Addresses(h) = A
  BY DEF Addresses
<1> QED BY <1>1, <1>2 DEF Heaps

\* One block changes.
LEMMA BlockChanges ==
    ASSUME NEW h \in Heaps, NEW b \in Addresses(h), NEW r \in Header_
    PROVE  [h EXCEPT !.block[b] = r] \in Heaps
<1> DEFINE k == [h EXCEPT !.block[b] = r]
<1>1. h.block \in [Addresses(h) -> Header_] /\ Addresses(h) \in SUBSET Nat
  BY Types
<1>2. k.block = [h.block EXCEPT ![b] = r] /\ k.first = h.first /\ k.last = h.last /\ k.top = h.top
  BY DEF Heaps
<1>3. k = [block |-> k.block, first |-> k.first, last |-> k.last, top |-> k.top]
  BY DEF Heaps
<1>4. k.block \in [Addresses(h) -> Header_]
  BY <1>1, <1>2
<1> HIDE DEF k
<1>5. k \in Heaps
  BY <1>1, <1>2, <1>3, <1>4, Types, MakesHeap
<1> QED BY <1>5 DEF k

\* What Link changes: the next block of b, the previous of that, and perhaps the last.
Linked(h, b, nx, k) ==
    /\ k \in Heaps /\ Addresses(k) = Addresses(h)
    /\ k.first = h.first /\ k.top = h.top /\ k.last = (IF nx = Nil THEN b ELSE h.last)
    /\ \A x \in Addresses(h) :
         /\ k.block[x].size = h.block[x].size /\ k.block[x].free = h.block[x].free
         /\ k.block[x].next = (IF x = b THEN nx ELSE h.block[x].next)
         /\ k.block[x].prev = (IF x = nx THEN b ELSE h.block[x].prev)

LEMMA LinkForm ==
    ASSUME NEW h \in Heaps, NEW b \in Addresses(h), NEW nx \in Addresses(h) \cup {Nil}
    PROVE  Linked(h, b, nx, Link(h, b, nx))
<1> DEFINE m == [h.block EXCEPT ![b].next = nx]
           n == IF nx = Nil THEN m ELSE [m EXCEPT ![nx].prev = b]
           l == IF nx = Nil THEN b ELSE h.last
           k == [block |-> n, first |-> h.first, last |-> l, top |-> h.top]
           A == Addresses(h)
<1>0. /\ A \in SUBSET Nat /\ h.block \in [A -> Header_]
      /\ h.first \in Place /\ h.last \in Place /\ h.top \in Nat /\ Nil \notin A
  BY Types DEF Nil
<1>1. Link(h, b, nx) = k
  BY DEF Link
<1>2. nx \in Place /\ b \in Place
  BY <1>0 DEF Place
<1>3. m \in [A -> Header_]
  BY <1>0, <1>2 DEF Header_
<1>4. \A x \in A : /\ m[x].size = h.block[x].size /\ m[x].free = h.block[x].free
                   /\ m[x].next = (IF x = b THEN nx ELSE h.block[x].next)
                   /\ m[x].prev = h.block[x].prev
  BY <1>0, <1>2 DEF Header_
<1> HIDE DEF m
<1>5. n \in [A -> Header_]
  BY <1>2, <1>3 DEF Header_
<1>6. \A x \in A : /\ n[x].size = m[x].size /\ n[x].free = m[x].free /\ n[x].next = m[x].next
                   /\ n[x].prev = (IF x = nx THEN b ELSE m[x].prev)
  BY <1>0, <1>2, <1>3 DEF Header_
<1> HIDE DEF n
<1>7. /\ k.block = n /\ k.first = h.first /\ k.top = h.top
      /\ k.last = l
      /\ k = [block |-> k.block, first |-> k.first, last |-> k.last, top |-> k.top]
  OBVIOUS
<1> HIDE DEF k
<1>8. k \in Heaps /\ Addresses(k) = A
  BY <1>0, <1>2, <1>5, <1>7, MakesHeap
<1> HIDE DEF A
<1>9. Addresses(k) = Addresses(h)
  BY <1>8 DEF A
<1>10. \A x \in A : /\ k.block[x].size = h.block[x].size /\ k.block[x].free = h.block[x].free
                   /\ k.block[x].next = (IF x = b THEN nx ELSE h.block[x].next)
                   /\ k.block[x].prev = (IF x = nx THEN b ELSE h.block[x].prev)
  BY <1>4, <1>6, <1>7
<1> QED BY <1>1, <1>7, <1>8, <1>9, <1>10 DEF A, Linked, l

\* All blocks are replaced at once.
LEMMA BlocksReplaced ==
    ASSUME NEW h \in Heaps, NEW A \in SUBSET Nat, NEW m \in [A -> Header_]
    PROVE  /\ [h EXCEPT !.block = m] \in Heaps /\ Addresses([h EXCEPT !.block = m]) = A
           /\ [h EXCEPT !.block = m].block = m /\ [h EXCEPT !.block = m].first = h.first
           /\ [h EXCEPT !.block = m].last = h.last /\ [h EXCEPT !.block = m].top = h.top
<1> DEFINE k == [h EXCEPT !.block = m]
<1>1. k.block = m /\ k.first = h.first /\ k.last = h.last /\ k.top = h.top
  BY DEF Heaps
<1>2. k = [block |-> k.block, first |-> k.first, last |-> k.last, top |-> k.top]
  BY DEF Heaps
<1> HIDE DEF k
<1>3. k \in Heaps /\ Addresses(k) = A
  BY <1>1, <1>2, Types, MakesHeap
<1> QED BY <1>1, <1>3 DEF k

\* A block that is large enough is cut.
Cuts(h, b, n, min) == h.block[b].size >= n + Header + min

\* What Split changes then: b is cut at r, and what is left of it lies between b and nx.
SplitAt(h, b, n, r, nx, s) ==
    /\ s \in Heaps /\ Addresses(s) = Addresses(h) \cup {r}
    /\ r \in Nat /\ r \notin Addresses(h) /\ r > b /\ r < EndOf(h, b) /\ nx \in Addresses(h) \cup {Nil}
    /\ s.first = h.first /\ s.top = h.top /\ s.last = (IF nx = Nil THEN r ELSE h.last)
    /\ \A x \in Addresses(h) \cup {r} :
         /\ s.block[x].size = (IF x = b THEN n ELSE IF x = r THEN h.block[b].size - n - Header
                              ELSE h.block[x].size)
         /\ s.block[x].free = (IF x = r THEN TRUE ELSE h.block[x].free)
         /\ s.block[x].next = (IF x = b THEN r ELSE IF x = r THEN nx ELSE h.block[x].next)
         /\ s.block[x].prev = (IF x = r THEN b ELSE IF x = nx THEN r ELSE h.block[x].prev)

LEMMA SplitForm ==
    ASSUME NEW h, Whole(h), NEW b \in Addresses(h), NEW n \in Nat, NEW min \in Nat, Cuts(h, b, n, min)
    PROVE  SplitAt(h, b, n, b + Header + n, h.block[b].next, Split(h, b, n, min))
<1> DEFINE A == Addresses(h)
           r == b + Header + n
           nx == h.block[b].next
           left == h.block[b].size - n - Header
           m == With([h.block EXCEPT ![b].size = n], r, Block(left, TRUE, Nil, b))
           k0 == [h EXCEPT !.block = m]
           k1 == Link(k0, r, nx)
           k2 == Link(k1, b, r)
<1>0. /\ h \in Heaps /\ A \in SUBSET Nat /\ h.block \in [A -> Header_] /\ b \in Nat
      /\ h.block[b].size \in Nat /\ Nil \notin Nat
  BY Types DEF Whole, Nil
<1>1. left \in Nat /\ r \in Nat /\ r > b /\ r < EndOf(h, b)
  BY <1>0, HeapAssumption DEF Cuts, EndOf
<1>2. r \notin A
  BY <1>0, <1>1, Types DEF Whole, Disjoint
<1>3. nx \in A \cup {Nil}
  BY DEF Whole, Chained
<1>4. Split(h, b, n, min) = k2
  BY <1>0, HeapAssumption DEF Split, Cuts
<1> HIDE DEF left, r, nx
<1>5. m \in [A \cup {r} -> Header_]
  <2>1. Block(left, TRUE, Nil, b) \in Header_
    BY <1>0, <1>1 DEF Block, Header_, Place
  <2>2. [h.block EXCEPT ![b].size = n] \in [A -> Header_]
    BY <1>0 DEF Header_
  <2> QED BY <2>1, <2>2 DEF With
<1>6. \A x \in A \cup {r} :
        /\ m[x].size = (IF x = b THEN n ELSE IF x = r THEN left ELSE h.block[x].size)
        /\ m[x].free = (IF x = r THEN TRUE ELSE h.block[x].free)
        /\ m[x].next = (IF x = r THEN Nil ELSE h.block[x].next)
        /\ m[x].prev = (IF x = r THEN b ELSE h.block[x].prev)
  <2> TAKE x \in A \cup {r}
  <2>1. CASE x = r
    <3>1. m[r] = Block(left, TRUE, Nil, b)
      BY DEF With
    <3>2. r # b
      BY <1>0, <1>1
    <3> HIDE DEF m
    <3> QED BY <2>1, <3>1, <3>2 DEF Block
  <2>2. CASE x # r
    BY <1>0, <2>2 DEF With, Header_
  <2> QED BY <2>1, <2>2
<1> HIDE DEF m
<1>7. /\ k0 \in Heaps /\ Addresses(k0) = A \cup {r} /\ k0.block = m
      /\ k0.first = h.first /\ k0.last = h.last /\ k0.top = h.top
  BY <1>0, <1>1, <1>5, BlocksReplaced
<1> HIDE DEF k0
<1>8. Linked(k0, r, nx, k1)
  BY <1>3, <1>7, LinkForm
<1>9. Linked(k1, b, r, k2)
  <2>1. k1 \in Heaps /\ Addresses(k1) = A \cup {r}
    BY <1>7, <1>8 DEF Linked
  <2> HIDE DEF k1
  <2> QED BY <2>1, LinkForm
<1> HIDE DEF k1, k2
<1>10. ASSUME NEW x \in A \cup {r}
       PROVE  /\ k2.block[x].size = (IF x = b THEN n ELSE IF x = r THEN left ELSE h.block[x].size)
              /\ k2.block[x].free = (IF x = r THEN TRUE ELSE h.block[x].free)
              /\ k2.block[x].next = (IF x = b THEN r ELSE IF x = r THEN nx ELSE h.block[x].next)
              /\ k2.block[x].prev = (IF x = r THEN b ELSE IF x = nx THEN r ELSE h.block[x].prev)
  <2>1. /\ k1.block[x].size = m[x].size /\ k1.block[x].free = m[x].free
        /\ k1.block[x].next = (IF x = r THEN nx ELSE m[x].next)
        /\ k1.block[x].prev = (IF x = nx THEN r ELSE m[x].prev)
    BY <1>7, <1>8 DEF Linked
  <2>2. /\ k2.block[x].size = k1.block[x].size /\ k2.block[x].free = k1.block[x].free
        /\ k2.block[x].next = (IF x = b THEN r ELSE k1.block[x].next)
        /\ k2.block[x].prev = (IF x = r THEN b ELSE k1.block[x].prev)
    BY <1>7, <1>8, <1>9 DEF Linked
  <2> QED BY <1>6, <2>1, <2>2
<1>11. /\ k2 \in Heaps /\ Addresses(k2) = A \cup {r}
       /\ k2.first = h.first /\ k2.top = h.top /\ k2.last = (IF nx = Nil THEN r ELSE h.last)
  BY <1>0, <1>1, <1>7, <1>8, <1>9 DEF Linked
<1>12. SplitAt(h, b, n, r, nx, k2)
  BY <1>1, <1>2, <1>3, <1>10, <1>11 DEF SplitAt, left
<1> QED BY <1>4, <1>12 DEF r, nx

\* A heap stays whole when a block of it is cut.
LEMMA SplitWhole ==
    ASSUME NEW h, Whole(h), NEW b \in Addresses(h), NEW n \in Nat, NEW min \in Nat
    PROVE  Whole(Split(h, b, n, min))
<1> DEFINE s == Split(h, b, n, min)  r == b + Header + n  nx == h.block[b].next
<1>1. CASE ~Cuts(h, b, n, min)
  <2>1. h.block[b].size \in Nat
    BY Types DEF Whole
  <2>2. h.block[b].size < n + Header + min
    BY <1>1, <2>1, HeapAssumption DEF Cuts
  <2> QED BY <2>2 DEF Split
<1>2. CASE Cuts(h, b, n, min)
  <2> HIDE DEF s, r, nx
  <2>1. SplitAt(h, b, n, r, nx, s)
    BY <1>2, SplitForm DEF s, r, nx
  <2>2. \A x \in Addresses(h) :
          x \in Nat /\ x # Nil /\ h.block[x].size \in Nat /\ EndOf(h, x) \in Nat /\ EndOf(h, x) > x
    BY Types DEF Whole
  <2>a. /\ s \in Heaps /\ Addresses(s) = Addresses(h) \cup {r} /\ r \in Nat /\ r \notin Addresses(h)
        /\ r > b /\ r < EndOf(h, b) /\ s.first = h.first /\ s.top = h.top
        /\ s.last = (IF nx = Nil THEN r ELSE h.last)
    BY <2>1 DEF SplitAt
  <2>b. \A x \in Addresses(h) \ {b} :
          x # r /\ s.block[x].size = h.block[x].size /\ s.block[x].next = h.block[x].next
    BY <2>a, <2>1 DEF SplitAt
  <2>c. /\ s.block[b].size = n /\ s.block[b].next = r
        /\ s.block[r].size = h.block[b].size - n - Header /\ s.block[r].next = nx
    BY <2>a, <2>1, <2>2 DEF SplitAt
  <2>d. \A x \in Addresses(h) \cup {r} :
          s.block[x].prev = (IF x = r THEN b ELSE IF x = nx THEN r ELSE h.block[x].prev)
    BY <2>1 DEF SplitAt
  <2>3. /\ EndOf(s, b) = r /\ EndOf(s, r) = EndOf(h, b)
        /\ \A x \in Addresses(h) \ {b} : EndOf(s, x) = EndOf(h, x)
    BY <2>a, <2>b, <2>c, <2>2, HeapAssumption DEF EndOf, r
  <2>4. Disjoint(s)
    <3> SUFFICES ASSUME NEW x \in Addresses(h) \cup {r}, NEW y \in Addresses(h) \cup {r}, x < y
                 PROVE  EndOf(s, x) <= y
      BY <2>a DEF Disjoint
    <3>1. CASE x = b /\ y # r
      BY <2>a, <2>2, <2>3, <3>1 DEF Whole, Disjoint
    <3>2. CASE x = r
      BY <2>a, <2>2, <2>3, <3>2 DEF Whole, Disjoint
    <3>3. CASE x # r /\ x # b /\ y = r
      <4>1. x < b
        BY <2>a, <2>2, <3>3 DEF Whole, Disjoint
      <4> QED BY <2>a, <2>2, <2>3, <3>3, <4>1 DEF Whole, Disjoint
    <3>4. CASE x # r /\ x # b /\ y # r
      BY <2>3, <3>4 DEF Whole, Disjoint
    <3>5. CASE x = b /\ y = r
      BY <2>a, <2>3, <3>5
    <3> QED BY <3>1, <3>2, <3>3, <3>4, <3>5
  <2>5. nx = (IF EndOf(h, b) = h.top THEN Nil ELSE EndOf(h, b)) /\ EndOf(h, b) <= h.top /\ h.top \in Nat
        /\ (EndOf(h, b) = h.top \/ EndOf(h, b) \in Addresses(h))
    BY Types DEF Whole, Chained, nx
  <2>6. ASSUME NEW x \in Addresses(h) \ {b}
        PROVE  /\ s.block[x].next = (IF EndOf(s, x) = s.top THEN Nil ELSE EndOf(s, x))
               /\ EndOf(s, x) = s.top \/ EndOf(s, x) \in Addresses(s)
               /\ EndOf(s, x) <= s.top
    <3>1. /\ h.block[x].next = (IF EndOf(h, x) = h.top THEN Nil ELSE EndOf(h, x))
          /\ EndOf(h, x) = h.top \/ EndOf(h, x) \in Addresses(h)
          /\ EndOf(h, x) <= h.top
      BY DEF Whole, Chained
    <3> QED BY <2>a, <2>b, <2>3, <3>1
  <2>7. ASSUME NEW x \in {b, r}
        PROVE  /\ s.block[x].next = (IF EndOf(s, x) = s.top THEN Nil ELSE EndOf(s, x))
               /\ EndOf(s, x) = s.top \/ EndOf(s, x) \in Addresses(s)
               /\ EndOf(s, x) <= s.top
    <3>1. EndOf(h, b) \in Nat /\ b \in Nat
      BY <2>2
    <3>2. r < h.top
      BY <2>a, <2>5, <3>1
    <3>3. CASE x = b
      BY <2>a, <2>c, <2>3, <2>5, <3>1, <3>2, <3>3
    <3>4. CASE x = r
      BY <2>a, <2>c, <2>3, <2>5, <3>1, <3>2, <3>4
    <3> QED BY <3>3, <3>4
  <2>8. ASSUME NEW x \in Addresses(h) \cup {r}
        PROVE  \/ s.block[x].prev = Nil /\ x = 0
               \/ s.block[x].prev \in Addresses(s) /\ EndOf(s, s.block[x].prev) = x
    <3>1. CASE x = r
      BY <2>a, <2>d, <2>3, <3>1
    <3>2. CASE x = nx /\ x # r
      <4>1. s.block[x].prev = r /\ x \in Addresses(h) /\ x # Nil
        BY <2>2, <2>d, <3>2
      <4>2. EndOf(h, b) = x
        BY <2>5, <3>2, <4>1
      <4> QED BY <2>a, <2>3, <4>1, <4>2
    <3>3. CASE x # nx /\ x # r
      <4>1. x \in Addresses(h) /\ s.block[x].prev = h.block[x].prev
        BY <2>d, <3>3
      <4>2. CASE h.block[x].prev = Nil /\ x = 0
        BY <4>1, <4>2
      <4>3. CASE h.block[x].prev \in Addresses(h) /\ EndOf(h, h.block[x].prev) = x
        <5>1. h.block[x].prev # b
          <6> SUFFICES ASSUME h.block[x].prev = b PROVE nx = x
            BY <3>3
          <6>1. EndOf(h, b) = x
            BY <4>3
          <6>2. EndOf(h, x) > x /\ EndOf(h, x) <= h.top /\ x \in Nat /\ EndOf(h, x) \in Nat
            BY <4>1, <2>2 DEF Whole, Chained
          <6> QED BY <2>5, <6>1, <6>2
        <5> QED BY <2>a, <2>3, <4>1, <4>3, <5>1
      <4> QED BY <4>1, <4>2, <4>3 DEF Whole, Chained
    <3> QED BY <3>1, <3>2, <3>3
  <2>9. Chained(s)
    <3>1. \A x \in Addresses(s) : x \in {b, r} \/ x \in Addresses(h) \ {b}
      BY <2>a
    <3> QED BY <2>a, <2>6, <2>7, <2>8, <3>1 DEF Chained
  <2>10. Ended(s)
    <3>1. 0 \in Addresses(h) /\ h.first = 0 /\ h.last \in Addresses(h) /\ EndOf(h, h.last) = h.top
      BY DEF Whole, Ended
    <3>2. CASE nx = Nil
      <4>1. EndOf(h, b) = h.top
        BY <2>2, <2>5, <3>2 DEF Nil
      <4> QED BY <2>a, <2>3, <3>1, <3>2, <4>1 DEF Ended
    <3>3. CASE nx # Nil
      <4>1. h.last # b
        BY <2>5, <3>1, <3>3
      <4> QED BY <2>a, <2>3, <3>1, <3>3, <4>1 DEF Ended
    <3> QED BY <3>2, <3>3
  <2> QED BY <2>a, <2>4, <2>9, <2>10 DEF Whole, s
<1> QED BY <1>1, <1>2

\* What the neighbours of a block in a whole heap are.
LEMMA Neighbours ==
    ASSUME NEW h, Whole(h), NEW b \in Addresses(h)
    PROVE  /\ h.block[b].next # Nil =>
                /\ h.block[b].next \in Addresses(h) /\ EndOf(h, b) = h.block[b].next
                /\ h.block[b].next > b /\ EndOf(h, b) < h.top
           /\ h.block[b].next = Nil => EndOf(h, b) = h.top
           /\ \A x \in Addresses(h) : EndOf(h, x) = EndOf(h, b) => x = b
           /\ \A x \in Addresses(h) : h.block[x].prev = b => h.block[b].next = x
           /\ h.block[b].prev # Nil =>
                /\ h.block[b].prev \in Addresses(h) /\ h.block[h.block[b].prev].next = b
                /\ EndOf(h, h.block[b].prev) = b
           /\ h.block[b].prev = Nil => b = 0
<1>1. \A x \in Addresses(h) :
        /\ x \in Nat /\ x # Nil /\ h.block[x].size \in Nat /\ EndOf(h, x) \in Nat /\ EndOf(h, x) > x
        /\ h.top \in Nat
  BY Types DEF Whole
<1>2. /\ h.block[b].next = (IF EndOf(h, b) = h.top THEN Nil ELSE EndOf(h, b))
      /\ EndOf(h, b) = h.top \/ EndOf(h, b) \in Addresses(h)
      /\ EndOf(h, b) <= h.top
  BY DEF Whole, Chained
<1>3. h.block[b].next # Nil =>
        /\ h.block[b].next \in Addresses(h) /\ EndOf(h, b) = h.block[b].next
        /\ h.block[b].next > b /\ EndOf(h, b) < h.top
  BY <1>1, <1>2
<1>4. h.block[b].next = Nil => EndOf(h, b) = h.top
  BY <1>1, <1>2
<1>5. \A x \in Addresses(h) : EndOf(h, x) = EndOf(h, b) => x = b
  <2> TAKE x \in Addresses(h)
  <2>1. (x < b => EndOf(h, x) <= b) /\ (b < x => EndOf(h, b) <= x)
    BY DEF Whole, Disjoint
  <2> QED BY <1>1, <2>1
<1>6. \A x \in Addresses(h) : h.block[x].prev = b => h.block[b].next = x
  <2> TAKE x \in Addresses(h)
  <2> SUFFICES ASSUME h.block[x].prev = b PROVE h.block[b].next = x
    OBVIOUS
  <2>1. EndOf(h, b) = x /\ EndOf(h, x) <= h.top
    BY <1>1 DEF Whole, Chained
  <2> QED BY <1>1, <1>2, <2>1
<1>7. h.block[b].prev # Nil =>
        /\ h.block[b].prev \in Addresses(h) /\ h.block[h.block[b].prev].next = b
        /\ EndOf(h, h.block[b].prev) = b
  <2> SUFFICES ASSUME h.block[b].prev # Nil
               PROVE  /\ h.block[b].prev \in Addresses(h) /\ h.block[h.block[b].prev].next = b
                      /\ EndOf(h, h.block[b].prev) = b
    OBVIOUS
  <2> DEFINE p == h.block[b].prev
  <2>1. p \in Addresses(h) /\ EndOf(h, p) = b
    BY DEF Whole, Chained
  <2> HIDE DEF p
  <2>2. h.block[p].next = (IF EndOf(h, p) = h.top THEN Nil ELSE EndOf(h, p))
    BY <2>1 DEF Whole, Chained
  <2>3. h.block[p].next = b
    BY <1>1, <1>2, <2>1, <2>2
  <2> QED BY <2>1, <2>3 DEF p
<1>8. h.block[b].prev = Nil => b = 0
  BY <1>1 DEF Whole, Chained
<1> QED BY <1>3, <1>4, <1>5, <1>6, <1>7, <1>8

\* What JoinNext changes: b goes on to the end of nx, and nn is next.
JoinedAt(h, b, nx, nn, k) ==
    /\ k \in Heaps /\ Addresses(k) = Addresses(h) \ {nx}
    /\ k.first = h.first /\ k.top = h.top /\ k.last = (IF nn = Nil THEN b ELSE h.last)
    /\ \A x \in Addresses(h) \ {nx} :
         /\ k.block[x].size = (IF x = b THEN h.block[b].size + Header + h.block[nx].size
                              ELSE h.block[x].size)
         /\ k.block[x].free = h.block[x].free
         /\ k.block[x].next = (IF x = b THEN nn ELSE h.block[x].next)
         /\ k.block[x].prev = (IF x = nn THEN b ELSE h.block[x].prev)

LEMMA JoinForm ==
    ASSUME NEW h, Whole(h), NEW b \in Addresses(h), h.block[b].next # Nil
    PROVE  JoinedAt(h, b, h.block[b].next, h.block[h.block[b].next].next, JoinNext(h, b))
<1> DEFINE A == Addresses(h)
           nx == h.block[b].next
           nn == h.block[nx].next
           n == h.block[b].size + Header + h.block[nx].size
           m0 == [h.block EXCEPT ![b].size = n]
           m == [h EXCEPT !.block = m0]
           j == Link(m, b, nn)
           k0 == Without(j.block, nx)
           k == [j EXCEPT !.block = k0]
<1>0. /\ h \in Heaps /\ A \in SUBSET Nat /\ h.block \in [A -> Header_] /\ b \in Nat
      /\ nx \in A /\ nx # b /\ nn \in A \cup {Nil} /\ nn # nx
      /\ h.block[b].size \in Nat /\ h.block[nx].size \in Nat
  <2>1. nx \in A /\ nx > b
    BY Neighbours
  <2>2. nn # Nil => nn \in A /\ nn > nx
    BY <2>1, Neighbours
  <2>3. /\ h \in Heaps /\ A \in SUBSET Nat /\ h.block \in [A -> Header_] /\ b \in Nat /\ Nil \notin A
        /\ \A x \in A : h.block[x].size \in Nat
    BY Types DEF Whole
  <2> HIDE DEF nn, nx
  <2> QED BY <2>1, <2>2, <2>3
<1>1. JoinNext(h, b) = k
  BY <1>0 DEF JoinNext, Heaps
<1>2. n \in Nat
  BY <1>0, HeapAssumption
<1> HIDE DEF nn, nx, n
<1>3. m0 \in [A -> Header_]
  BY <1>0, <1>2 DEF Header_
<1>4. \A x \in A : /\ m0[x].size = (IF x = b THEN n ELSE h.block[x].size)
                   /\ m0[x].free = h.block[x].free /\ m0[x].next = h.block[x].next
                   /\ m0[x].prev = h.block[x].prev
  BY <1>0, <1>2 DEF Header_
<1> HIDE DEF m0
<1>5. /\ m \in Heaps /\ Addresses(m) = A /\ m.block = m0
      /\ m.first = h.first /\ m.last = h.last /\ m.top = h.top
  BY <1>0, <1>3, BlocksReplaced
<1> HIDE DEF m
<1>6. Linked(m, b, nn, j)
  BY <1>0, <1>5, LinkForm
<1> HIDE DEF j
<1>7. /\ j \in Heaps /\ Addresses(j) = A /\ j.block \in [A -> Header_]
      /\ j.first = h.first /\ j.top = h.top /\ j.last = (IF nn = Nil THEN b ELSE h.last)
  <2>1. j \in Heaps /\ Addresses(j) = A
    BY <1>5, <1>6 DEF Linked
  <2>2. j.block \in [A -> Header_]
    BY <2>1, Types
  <2> QED BY <1>5, <1>6, <2>1, <2>2 DEF Linked
<1>8. \A x \in A : /\ j.block[x].size = m0[x].size /\ j.block[x].free = m0[x].free
                   /\ j.block[x].next = (IF x = b THEN nn ELSE m0[x].next)
                   /\ j.block[x].prev = (IF x = nn THEN b ELSE m0[x].prev)
  BY <1>5, <1>6 DEF Linked
<1>9. k0 \in [A \ {nx} -> Header_] /\ \A x \in A \ {nx} : k0[x] = j.block[x]
  BY <1>7 DEF Without
<1> HIDE DEF k0
<1>10. /\ k \in Heaps /\ Addresses(k) = A \ {nx} /\ k.block = k0
       /\ k.first = j.first /\ k.last = j.last /\ k.top = j.top
  <2>1. A \ {nx} \in SUBSET Nat
    BY <1>0
  <2> HIDE DEF A
  <2> QED BY <1>7, <1>9, <2>1, BlocksReplaced
<1> HIDE DEF k
<1>11. \A x \in A \ {nx} :
         /\ k.block[x].size = (IF x = b THEN n ELSE h.block[x].size)
         /\ k.block[x].free = h.block[x].free
         /\ k.block[x].next = (IF x = b THEN nn ELSE h.block[x].next)
         /\ k.block[x].prev = (IF x = nn THEN b ELSE h.block[x].prev)
  BY <1>4, <1>8, <1>9, <1>10
<1>12. JoinedAt(h, b, nx, nn, k)
  BY <1>7, <1>10, <1>11 DEF JoinedAt, n
<1> QED BY <1>1, <1>12 DEF nn, nx

\* A heap stays whole when a block takes in the next.
LEMMA JoinWhole ==
    ASSUME NEW h, Whole(h), NEW b \in Addresses(h), h.block[b].next # Nil
    PROVE  Whole(JoinNext(h, b))
<1> DEFINE nx == h.block[b].next  nn == h.block[nx].next  k == JoinNext(h, b)
           B == Addresses(h) \ {nx}
<1>1. JoinedAt(h, b, nx, nn, k)
  BY JoinForm
<1>2. /\ nx \in Addresses(h) /\ EndOf(h, b) = nx /\ nx > b /\ nx # Nil
      /\ \A x \in Addresses(h) : EndOf(h, x) = nx => x = b
  BY Neighbours
<1>3. /\ nn # Nil => nn \in Addresses(h) /\ EndOf(h, nx) = nn /\ nn > nx
      /\ nn = Nil => EndOf(h, nx) = h.top
      /\ \A x \in Addresses(h) : EndOf(h, x) = EndOf(h, nx) => x = nx
      /\ \A x \in Addresses(h) : h.block[x].prev = nx => nn = x
  BY <1>2, Neighbours
<1>4. \A x \in Addresses(h) : /\ x \in Nat /\ x # Nil /\ h.block[x].size \in Nat
                              /\ EndOf(h, x) \in Nat /\ EndOf(h, x) > x
  BY Types DEF Whole
<1> HIDE DEF nx, nn, k
<1>5. /\ k \in Heaps /\ Addresses(k) = B /\ b \in B
      /\ k.first = h.first /\ k.top = h.top /\ k.last = (IF nn = Nil THEN b ELSE h.last)
      /\ h.top \in Nat
  BY <1>1, <1>2, <1>4, Types DEF JoinedAt, Whole
<1>6. /\ EndOf(k, b) = EndOf(h, nx)
      /\ \A x \in B \ {b} : EndOf(k, x) = EndOf(h, x)
  BY <1>1, <1>2, <1>4, <1>5, HeapAssumption DEF JoinedAt, EndOf
<1>7. Disjoint(k)
  <2> SUFFICES ASSUME NEW x \in B, NEW y \in B, x < y PROVE EndOf(k, x) <= y
    BY <1>5 DEF Disjoint
  <2>1. CASE x = b
    <3>1. nx < y
      <4>1. EndOf(h, b) <= y /\ y # nx
        BY <1>2, <2>1 DEF Whole, Disjoint
      <4> QED BY <1>2, <1>4, <4>1
    <3> QED BY <1>2, <1>6, <2>1, <3>1 DEF Whole, Disjoint
  <2>2. CASE x # b
    BY <1>6, <2>2 DEF Whole, Disjoint
  <2> QED BY <2>1, <2>2
<1>8. ASSUME NEW x \in B
      PROVE  /\ k.block[x].next = (IF EndOf(k, x) = k.top THEN Nil ELSE EndOf(k, x))
             /\ EndOf(k, x) = k.top \/ EndOf(k, x) \in B
             /\ EndOf(k, x) <= k.top
  <2>1. CASE x = b
    <3>1. k.block[b].next = nn
      BY <1>1, <1>5 DEF JoinedAt
    <3>2. /\ nn = (IF EndOf(h, nx) = h.top THEN Nil ELSE EndOf(h, nx))
          /\ EndOf(h, nx) = h.top \/ EndOf(h, nx) \in Addresses(h)
          /\ EndOf(h, nx) <= h.top /\ EndOf(h, nx) # nx
      BY <1>2, <1>4 DEF Whole, Chained, nn
    <3> QED BY <1>5, <1>6, <2>1, <3>1, <3>2
  <2>2. CASE x # b
    <3>1. k.block[x].next = h.block[x].next
      BY <1>1, <2>2 DEF JoinedAt
    <3>2. /\ h.block[x].next = (IF EndOf(h, x) = h.top THEN Nil ELSE EndOf(h, x))
          /\ EndOf(h, x) = h.top \/ EndOf(h, x) \in Addresses(h)
          /\ EndOf(h, x) <= h.top /\ EndOf(h, x) # nx
      BY <1>2, <2>2 DEF Whole, Chained
    <3> QED BY <1>5, <1>6, <2>2, <3>1, <3>2
  <2> QED BY <2>1, <2>2
<1>9. ASSUME NEW x \in B
      PROVE  \/ k.block[x].prev = Nil /\ x = 0
             \/ k.block[x].prev \in B /\ EndOf(k, k.block[x].prev) = x
  <2>1. CASE x = nn
    <3>1. k.block[x].prev = b
      BY <1>1, <2>1 DEF JoinedAt
    <3> QED BY <1>3, <1>4, <1>5, <1>6, <2>1, <3>1
  <2>2. CASE x # nn
    <3>1. k.block[x].prev = h.block[x].prev
      BY <1>1, <2>2 DEF JoinedAt
    <3>2. h.block[x].prev # nx
      BY <1>3, <2>2
    <3>3. CASE h.block[x].prev = Nil /\ x = 0
      BY <3>1, <3>3
    <3>4. CASE h.block[x].prev \in Addresses(h) /\ EndOf(h, h.block[x].prev) = x
      <4>1. h.block[x].prev # b
        BY <1>2, <3>4
      <4> QED BY <1>6, <3>1, <3>2, <3>4, <4>1
    <3> QED BY <3>3, <3>4 DEF Whole, Chained
  <2> QED BY <2>1, <2>2
<1>10. Chained(k)
  BY <1>5, <1>8, <1>9 DEF Chained
<1>11. Ended(k)
  <2>1. /\ 0 \in Addresses(h) /\ h.first = 0 /\ h.last \in Addresses(h)
        /\ EndOf(h, h.last) = h.top
    BY DEF Whole, Ended
  <2>2. 0 \in B
    BY <1>2, <1>4, <2>1
  <2>3. CASE nn = Nil
    BY <1>3, <1>5, <1>6, <2>1, <2>2, <2>3 DEF Ended
  <2>4. CASE nn # Nil
    <3>1. EndOf(h, nn) <= h.top
      BY <1>3, <2>4 DEF Whole, Chained
    <3>2. h.last # nx /\ h.last # b
      BY <1>2, <1>3, <1>4, <1>5, <2>1, <2>4, <3>1
    <3> QED BY <1>5, <1>6, <2>1, <2>2, <2>4, <3>2 DEF Ended
  <2> QED BY <2>3, <2>4
<1> QED BY <1>5, <1>7, <1>10, <1>11 DEF Whole, k

\* What Grow changes: a block in use behind the last one.
GrownBy(h, n, k) ==
    /\ k \in Heaps /\ Addresses(k) = Addresses(h) \cup {h.top} /\ h.top \notin Addresses(h)
    /\ k.top = h.top + n /\ k.first = (IF h.first = Nil THEN h.top ELSE h.first) /\ k.last = h.top
    /\ \A x \in Addresses(h) :
         /\ k.block[x].size = h.block[x].size /\ k.block[x].free = h.block[x].free
         /\ k.block[x].next = (IF x = h.last THEN h.top ELSE h.block[x].next)
         /\ k.block[x].prev = h.block[x].prev
    /\ k.block[h.top].size = n - Header /\ k.block[h.top].free = FALSE
    /\ k.block[h.top].next = Nil /\ k.block[h.top].prev = h.last

LEMMA GrowForm ==
    ASSUME NEW h, Whole(h), NEW n \in Nat, n >= Header
    PROVE  GrownBy(h, n, Grow(h, n))
<1> DEFINE A == Addresses(h)
           b == h.top
           m0 == With(h.block, b, Block(n - Header, FALSE, Nil, h.last))
           f == IF h.first = Nil THEN b ELSE h.first
           t == b + n
           m == [block |-> m0, first |-> f, last |-> h.last, top |-> t]
<1>0. /\ h \in Heaps /\ A \in SUBSET Nat /\ h.block \in [A -> Header_] /\ b \in Nat
      /\ h.last \in Place /\ h.first \in Place /\ b \notin A /\ n - Header \in Nat
      /\ h.last # Nil => h.last \in A
  <2>1. b \notin A
    BY Types DEF Whole, Chained
  <2>2. h.last # Nil => h.last \in A
    BY DEF Whole, Ended
  <2> QED BY <2>1, <2>2, Types, HeapAssumption DEF Whole
<1>1. m0 \in [A \cup {b} -> Header_]
  <2>1. Block(n - Header, FALSE, Nil, h.last) \in Header_
    BY <1>0 DEF Block, Header_, Place
  <2> QED BY <1>0, <2>1 DEF With
<1>2. m0[b] = Block(n - Header, FALSE, Nil, h.last) /\ \A x \in A : m0[x] = h.block[x]
  BY <1>0 DEF With
<1> HIDE DEF m0
<1>3. /\ m.block = m0 /\ m.first = f /\ m.last = h.last /\ m.top = t
      /\ f \in Place /\ t \in Nat
  BY <1>0 DEF Place
<1>4. m \in Heaps /\ Addresses(m) = A \cup {b}
  <2>1. A \cup {b} \in SUBSET Nat
    BY <1>0
  <2>2. m = [block |-> m.block, first |-> m.first, last |-> m.last, top |-> m.top]
    OBVIOUS
  <2> HIDE DEF m, A, f, t
  <2> QED BY <1>0, <1>1, <1>3, <2>1, <2>2, MakesHeap
<1>5. CASE h.last = Nil
  <2> DEFINE k == [m EXCEPT !.last = b]
  <2>1. Grow(h, n) = k
    BY <1>5 DEF Grow, m0
  <2>2. A = {}
    BY <1>0, <1>5 DEF Whole, Ended, Nil
  <2>3. /\ k.block = m0 /\ k.first = f /\ k.last = b /\ k.top = t
        /\ k = [block |-> k.block, first |-> k.first, last |-> k.last, top |-> k.top]
    OBVIOUS
  <2> HIDE DEF k
  <2>4. k \in Heaps /\ Addresses(k) = A \cup {b}
    <3>1. A \cup {b} \in SUBSET Nat /\ b \in Place
      BY <1>0 DEF Place
    <3> QED BY <1>1, <1>3, <2>3, <3>1, MakesHeap
  <2> QED BY <1>0, <1>2, <1>5, <2>1, <2>2, <2>3, <2>4 DEF GrownBy, Block
<1>6. CASE h.last # Nil
  <2> DEFINE j == Link(m, h.last, b)  k == Link(j, b, Nil)
  <2>1. Grow(h, n) = k
    BY <1>6 DEF Grow, m0
  <2> HIDE DEF m
  <2>2. Linked(m, h.last, b, j)
    BY <1>0, <1>4, <1>6, LinkForm
  <2> HIDE DEF j
  <2>3. Linked(j, b, Nil, k)
    <3>1. j \in Heaps /\ Addresses(j) = A \cup {b}
      BY <1>4, <2>2 DEF Linked
    <3> QED BY <3>1, LinkForm
  <2> HIDE DEF k
  <2>4. /\ k \in Heaps /\ Addresses(k) = A \cup {b} /\ Addresses(j) = A \cup {b}
        /\ k.first = f /\ k.top = t /\ k.last = b
    BY <1>3, <1>4, <2>2, <2>3 DEF Linked
  <2>5. \A x \in A \cup {b} :
          /\ j.block[x].size = m0[x].size /\ j.block[x].free = m0[x].free
          /\ j.block[x].next = (IF x = h.last THEN b ELSE m0[x].next)
          /\ j.block[x].prev = (IF x = b THEN h.last ELSE m0[x].prev)
    BY <1>3, <1>4, <2>2 DEF Linked
  <2>6. \A x \in A \cup {b} :
          /\ k.block[x].size = j.block[x].size /\ k.block[x].free = j.block[x].free
          /\ k.block[x].next = (IF x = b THEN Nil ELSE j.block[x].next)
          /\ k.block[x].prev = (IF x = Nil THEN b ELSE j.block[x].prev)
    BY <2>3, <2>4 DEF Linked
  <2>7. \A x \in A :
          /\ k.block[x].size = h.block[x].size /\ k.block[x].free = h.block[x].free
          /\ k.block[x].next = (IF x = h.last THEN b ELSE h.block[x].next)
          /\ k.block[x].prev = h.block[x].prev
    BY <1>0, <1>2, <2>5, <2>6 DEF Nil
  <2>8. /\ k.block[b].size = n - Header /\ k.block[b].free = FALSE
        /\ k.block[b].next = Nil /\ k.block[b].prev = h.last
    BY <1>0, <1>2, <1>6, <2>5, <2>6 DEF Nil, Block
  <2> QED BY <1>0, <1>6, <2>1, <2>4, <2>7, <2>8 DEF GrownBy
<1> QED BY <1>5, <1>6

\* A heap stays whole when it grows.
LEMMA GrowWhole ==
    ASSUME NEW h, Whole(h), NEW n \in Nat, n >= Header
    PROVE  Whole(Grow(h, n))
<1> DEFINE k == Grow(h, n)  t == h.top
<1>1. GrownBy(h, n, k)
  BY GrowForm
<1>2. \A x \in Addresses(h) : /\ x \in Nat /\ x # Nil /\ h.block[x].size \in Nat
                              /\ EndOf(h, x) \in Nat /\ EndOf(h, x) > x
  BY Types DEF Whole
<1>3. t \in Nat /\ h \in Heaps
  BY Types DEF Whole
<1> HIDE DEF k, t
<1>4. /\ k \in Heaps /\ Addresses(k) = Addresses(h) \cup {t} /\ t \notin Addresses(h)
      /\ k.top = t + n /\ k.last = t /\ k.first = (IF h.first = Nil THEN t ELSE h.first)
      /\ k.block[t].size = n - Header /\ k.block[t].next = Nil /\ k.block[t].prev = h.last
  BY <1>1 DEF GrownBy, t
<1>5. /\ EndOf(k, t) = t + n
      /\ \A x \in Addresses(h) : EndOf(k, x) = EndOf(h, x) /\ EndOf(h, x) <= t
  <2>1. EndOf(k, t) = t + n
    BY <1>3, <1>4, HeapAssumption DEF EndOf
  <2>2. \A x \in Addresses(h) : EndOf(k, x) = EndOf(h, x)
    BY <1>1 DEF GrownBy, EndOf
  <2>3. \A x \in Addresses(h) : EndOf(h, x) <= t
    BY DEF Whole, Chained, t
  <2> QED BY <2>1, <2>2, <2>3
<1>6. Disjoint(k)
  <2> SUFFICES ASSUME NEW x \in Addresses(h) \cup {t}, NEW y \in Addresses(h) \cup {t}, x < y
               PROVE  EndOf(k, x) <= y
    BY <1>4 DEF Disjoint
  <2>1. CASE x = t
    <3>1. y \in Addresses(h) /\ y \in Nat /\ EndOf(h, y) <= t /\ EndOf(h, y) > y /\ EndOf(h, y) \in Nat
      BY <1>2, <1>3, <1>5, <2>1
    <3> QED BY <1>3, <2>1, <3>1
  <2>2. CASE x # t
    BY <1>5, <2>2 DEF Whole, Disjoint
  <2> QED BY <2>1, <2>2
<1>7. Addresses(h) # {} => /\ 0 \in Addresses(h) /\ h.first = 0 /\ h.last \in Addresses(h)
                          /\ EndOf(h, h.last) = t
  BY DEF Whole, Ended, t
<1>8. Addresses(h) = {} => t = 0 /\ h.first = Nil /\ h.last = Nil
  BY DEF Whole, Ended, t
<1>9. ASSUME NEW x \in Addresses(h) \cup {t}
      PROVE  /\ k.block[x].next = (IF EndOf(k, x) = k.top THEN Nil ELSE EndOf(k, x))
             /\ EndOf(k, x) = k.top \/ EndOf(k, x) \in Addresses(k)
             /\ EndOf(k, x) <= k.top
  <2>1. CASE x = t
    BY <1>3, <1>4, <1>5, <2>1
  <2>2. CASE x \in Addresses(h)
    <3>1. k.block[x].next = (IF x = h.last THEN t ELSE h.block[x].next)
      BY <1>1, <2>2 DEF GrownBy, t
    <3>2. /\ h.block[x].next = (IF EndOf(h, x) = t THEN Nil ELSE EndOf(h, x))
          /\ EndOf(h, x) = t \/ EndOf(h, x) \in Addresses(h)
      BY <2>2 DEF Whole, Chained, t
    <3>3. x = h.last <=> EndOf(h, x) = t
      BY <1>7, <2>2, Neighbours
    <3>4. EndOf(k, x) \in Nat /\ EndOf(k, x) < t + n
      BY <1>2, <1>3, <1>5, <2>2, HeapAssumption
    <3> QED BY <1>3, <1>4, <1>5, <2>2, <3>1, <3>2, <3>3, <3>4
  <2> QED BY <2>1, <2>2
<1>10. ASSUME NEW x \in Addresses(h) \cup {t}
      PROVE  \/ k.block[x].prev = Nil /\ x = 0
             \/ k.block[x].prev \in Addresses(k) /\ EndOf(k, k.block[x].prev) = x
  <2>1. CASE x = t
    BY <1>4, <1>5, <1>7, <1>8, <2>1
  <2>2. CASE x \in Addresses(h)
    <3>1. k.block[x].prev = h.block[x].prev
      BY <1>1, <2>2 DEF GrownBy
    <3>2. \/ h.block[x].prev = Nil /\ x = 0
          \/ h.block[x].prev \in Addresses(h) /\ EndOf(h, h.block[x].prev) = x
      BY <2>2 DEF Whole, Chained
    <3> QED BY <1>4, <1>5, <3>1, <3>2
  <2> QED BY <2>1, <2>2
<1>11. Chained(k)
  BY <1>4, <1>9, <1>10 DEF Chained
<1>12. Ended(k)
  BY <1>4, <1>5, <1>7, <1>8 DEF Ended, Nil
<1> QED BY <1>4, <1>6, <1>11, <1>12 DEF Whole, k

-----------------------------------------------------------------------------
(***************************************************************************)
(* What is in use, and how large it is.                                    *)
(***************************************************************************)

Used(h) == {b \in Addresses(h) : ~h.block[b].free}

\* The same blocks are in use, and none but perhaps b became smaller.
SameUse(h, k, b) ==
    /\ Used(k) = Used(h)
    /\ \A x \in Used(h) \ {b} : k.block[x].size >= h.block[x].size

LEMMA SplitUse ==
    ASSUME NEW h, Whole(h), NEW b \in Addresses(h), NEW n \in Nat, NEW min \in Nat
    PROVE  /\ SameUse(h, Split(h, b, n, min), b) /\ b \in Addresses(Split(h, b, n, min))
           /\ Split(h, b, n, min).block[b].free = h.block[b].free
           /\ h.block[b].size >= n => Split(h, b, n, min).block[b].size >= n
<1> DEFINE s == Split(h, b, n, min)  r == b + Header + n  nx == h.block[b].next
<1>1. \A x \in Addresses(h) : x \in Nat /\ x # Nil /\ h.block[x].size \in Nat
  BY Types DEF Whole
<1>2. CASE ~Cuts(h, b, n, min)
  <2>1. h.block[b].size < n + Header + min
    BY <1>1, <1>2, HeapAssumption DEF Cuts
  <2>2. s = h
    BY <2>1 DEF Split
  <2> HIDE DEF s
  <2>3. SameUse(h, s, b)
    BY <1>1, <2>2 DEF SameUse, Used
  <2> QED BY <2>2, <2>3 DEF s
<1>3. CASE Cuts(h, b, n, min)
  <2>1. SplitAt(h, b, n, r, nx, s)
    BY <1>3, SplitForm
  <2> HIDE DEF s, r, nx
  <2>2. /\ Addresses(s) = Addresses(h) \cup {r} /\ r \notin Addresses(h)
        /\ s.block[r].free = TRUE /\ s.block[b].size = n
        /\ \A x \in Addresses(h) : s.block[x].free = h.block[x].free
        /\ \A x \in Addresses(h) \ {b} : s.block[x].size = h.block[x].size
    BY <2>1 DEF SplitAt
  <2>3. SameUse(h, s, b)
    BY <1>1, <2>2 DEF SameUse, Used
  <2> QED BY <2>2, <2>3 DEF s
<1> QED BY <1>2, <1>3

LEMMA JoinUse ==
    ASSUME NEW h, Whole(h), NEW b \in Addresses(h), h.block[b].next # Nil,
           h.block[h.block[b].next].free
    PROVE  /\ SameUse(h, JoinNext(h, b), Nil) /\ b \in Addresses(JoinNext(h, b))
           /\ JoinNext(h, b).block[b].free = h.block[b].free
           /\ JoinNext(h, b).block[b].size
                = h.block[b].size + Header + h.block[h.block[b].next].size
<1> DEFINE nx == h.block[b].next  nn == h.block[nx].next  k == JoinNext(h, b)
<1>1. JoinedAt(h, b, nx, nn, k) /\ nx \in Addresses(h) /\ nx > b
  BY JoinForm, Neighbours
<1>2. \A x \in Addresses(h) : x \in Nat /\ h.block[x].size \in Nat
  BY Types DEF Whole
<1>3. h.block[nx].free
  OBVIOUS
<1> HIDE DEF nx, nn, k
<1>4. /\ Addresses(k) = Addresses(h) \ {nx} /\ b # nx
      /\ \A x \in Addresses(h) \ {nx} :
           /\ k.block[x].free = h.block[x].free
           /\ k.block[x].size = (IF x = b THEN h.block[b].size + Header + h.block[nx].size
                                ELSE h.block[x].size)
  BY <1>1, <1>2 DEF JoinedAt
<1>5. Used(k) = Used(h)
  BY <1>3, <1>4 DEF Used
<1>6. \A x \in Used(h) : k.block[x].size >= h.block[x].size
  BY <1>1, <1>2, <1>4, <1>5, HeapAssumption DEF Used
<1> QED BY <1>4, <1>5, <1>6 DEF SameUse, k, nx

\* A block is marked free, or in use.
Marked(h, b, v) == [h EXCEPT !.block[b].free = v]

MarkedAs(h, b, v, k) ==
    /\ Whole(k) /\ Addresses(k) = Addresses(h)
    /\ \A x \in Addresses(h) :
         /\ k.block[x].size = h.block[x].size /\ k.block[x].next = h.block[x].next
         /\ k.block[x].prev = h.block[x].prev
    /\ \A x \in Addresses(h) \ {b} : k.block[x].free = h.block[x].free
    /\ k.block[b].free = v

LEMMA MarkedWhole ==
    ASSUME NEW h, Whole(h), NEW b \in Addresses(h), NEW v \in BOOLEAN
    PROVE  MarkedAs(h, b, v, Marked(h, b, v))
<1> DEFINE A == Addresses(h)  m == [h.block EXCEPT ![b].free = v]  k == [h EXCEPT !.block = m]
<1>0. /\ h \in Heaps /\ A \in SUBSET Nat /\ h.block \in [A -> Header_]
  BY Types DEF Whole
<1>1. Marked(h, b, v) = k
  BY <1>0 DEF Marked, Heaps
<1>2. m \in [A -> Header_]
  BY <1>0 DEF Header_
<1>3. \A x \in A : /\ m[x].size = h.block[x].size /\ m[x].next = h.block[x].next
                   /\ m[x].prev = h.block[x].prev
                   /\ m[x].free = (IF x = b THEN v ELSE h.block[x].free)
  BY <1>0 DEF Header_
<1> HIDE DEF m
<1>4. /\ k \in Heaps /\ Addresses(k) = A /\ k.block = m
      /\ k.first = h.first /\ k.last = h.last /\ k.top = h.top
  <2> HIDE DEF A
  <2> QED BY <1>0, <1>2, BlocksReplaced
<1> HIDE DEF k
<1>5. \A x \in A : EndOf(k, x) = EndOf(h, x)
  BY <1>3, <1>4 DEF EndOf
<1>6. Disjoint(k) /\ Ended(k)
  BY <1>4, <1>5 DEF Whole, Disjoint, Ended
<1>7. Chained(k)
  BY <1>3, <1>4, <1>5 DEF Whole, Chained
<1> QED BY <1>1, <1>3, <1>4, <1>6, <1>7 DEF Whole, MarkedAs

-----------------------------------------------------------------------------
(***************************************************************************)
(* Taking a block, and giving it back.                                     *)
(***************************************************************************)

\* The walk ends at a free block that is large enough, if there is one.
LEMMA FirstFitIs ==
    ASSUME NEW h, Whole(h), NEW n \in Nat
    PROVE  FirstFit(h, n) = Nil \/ FirstFit(h, n) \in Fits(h, n)
<1> DEFINE F == Fits(h, n)
<1> SUFFICES ASSUME F # {} PROVE FirstFit(h, n) \in F
  BY DEF FirstFit
<1>1. F \in SUBSET Addresses(h) /\ F \in SUBSET Nat /\ Addresses(h) \in SUBSET Nat
  BY Types DEF Fits, Whole
<1>2. PICK b \in F : \A c \in F : b <= c
  BY <1>1, NatMin
<1> HIDE DEF F
<1>3. ComesTo(h, F, b)
  <2> DEFINE passed == {x \in Addresses(h) : x < b}
  <2>1. passed \in SUBSET (Addresses(h) \ F)
    BY <1>1, <1>2
  <2>2. h.first \in passed \cup {b}
    BY <1>1 DEF Whole, Ended
  <2>3. ASSUME NEW x \in passed PROVE h.block[x].next \in passed \cup {b}
    <3>1. EndOf(h, x) <= b /\ EndOf(h, b) > b /\ EndOf(h, b) <= h.top /\ h.top \in Nat
          /\ EndOf(h, b) \in Nat /\ EndOf(h, x) \in Nat
      BY <1>1, Types DEF Whole, Disjoint, Chained
    <3>2. EndOf(h, x) # h.top
      BY <1>1, <3>1
    <3>3. h.block[x].next = EndOf(h, x) /\ EndOf(h, x) \in Addresses(h)
      BY <3>2 DEF Whole, Chained
    <3> QED BY <1>1, <3>1, <3>3
  <2>4. {h.first} \cup {h.block[x].next : x \in passed} \subseteq passed \cup {b}
    BY <2>2, <2>3
  <2> HIDE DEF passed
  <2> QED BY <2>1, <2>4 DEF ComesTo
<1>4. FirstFit(h, n) = CHOOSE c \in F : ComesTo(h, F, c)
  BY DEF FirstFit, F
<1> QED BY <1>3, <1>4

LEMMA TakeUse ==
    ASSUME NEW h, Whole(h), NEW n \in Nat, NEW b \in Fits(h, n), NEW min \in Nat
    PROVE  /\ Whole(Take(h, b, n, min)) /\ b \notin Used(h)
           /\ Used(Take(h, b, n, min)) = Used(h) \cup {b}
           /\ \A x \in Used(h) : Take(h, b, n, min).block[x].size >= h.block[x].size
           /\ Take(h, b, n, min).block[b].size >= n
<1> DEFINE s == Split(h, b, n, min)
<1>1. b \in Addresses(h) /\ h.block[b].free /\ h.block[b].size >= n
  BY DEF Fits
<1>2. /\ Whole(s) /\ SameUse(h, s, b) /\ b \in Addresses(s) /\ s.block[b].size >= n
  BY <1>1, SplitWhole, SplitUse
<1>3. Take(h, b, n, min) = Marked(s, b, FALSE)
  BY DEF Take, Marked
<1> HIDE DEF s
<1> DEFINE m == Marked(s, b, FALSE)
<1>4. MarkedAs(s, b, FALSE, m)
  BY <1>2, MarkedWhole
<1> HIDE DEF m
<1>5. b \notin Used(h) /\ Used(s) = Used(h) /\ Used(s) \in SUBSET Addresses(s)
  BY <1>1, <1>2 DEF Used, SameUse
<1>6. Used(m) = Used(h) \cup {b}
  BY <1>2, <1>4, <1>5 DEF Used, MarkedAs
<1>7. \A x \in Used(h) : m.block[x].size >= h.block[x].size
  BY <1>2, <1>4, <1>5 DEF SameUse, MarkedAs
<1>8. Whole(m) /\ m.block[b].size >= n
  BY <1>2, <1>4 DEF MarkedAs
<1> QED BY <1>3, <1>5, <1>6, <1>7, <1>8 DEF m

LEMMA GrowUse ==
    ASSUME NEW h, Whole(h), NEW n \in Nat, n >= Header
    PROVE  /\ h.top \notin Used(h) /\ h.top \in Addresses(Grow(h, n))
           /\ Used(Grow(h, n)) = Used(h) \cup {h.top}
           /\ \A x \in Used(h) : Grow(h, n).block[x].size >= h.block[x].size
           /\ Grow(h, n).block[h.top].size = n - Header
<1> DEFINE k == Grow(h, n)
<1>1. GrownBy(h, n, k)
  BY GrowForm
<1>2. \A x \in Addresses(h) : h.block[x].size \in Nat
  BY Types DEF Whole
<1> HIDE DEF k
<1>3. /\ Addresses(k) = Addresses(h) \cup {h.top} /\ h.top \notin Addresses(h)
      /\ k.block[h.top].free = FALSE /\ k.block[h.top].size = n - Header
      /\ \A x \in Addresses(h) : k.block[x].free = h.block[x].free /\ k.block[x].size = h.block[x].size
  BY <1>1 DEF GrownBy
<1>4. /\ h.top \notin Used(h) /\ h.top \in Addresses(k) /\ Used(k) = Used(h) \cup {h.top}
      /\ \A x \in Used(h) : k.block[x].size >= h.block[x].size
  BY <1>2, <1>3 DEF Used
<1> QED BY <1>3, <1>4 DEF k

LEMMA RoundedUp ==
    ASSUME NEW n \in Nat
    PROVE  Rounded(n) \in Nat /\ Rounded(n) >= n
<1> DEFINE q == (n + Chunk - 1) \div Chunk
<1>1. q \in Nat /\ n + Chunk - 1 < (q + 1) * Chunk
  BY HeapAssumption
<1> HIDE DEF q
<1>2. (q + 1) * Chunk = q * Chunk + Chunk /\ q * Chunk \in Nat
  BY <1>1, HeapAssumption
<1>3. q * Chunk >= n
  BY <1>1, <1>2, HeapAssumption
<1> QED BY <1>2, <1>3 DEF Rounded, q

\* What malloc gives is a block nobody had, large enough, and it takes nothing from others.
LEMMA MallocUse ==
    ASSUME NEW h, Whole(h), NEW n \in Nat, Malloc(h, n)[2] # Nil
    PROVE  /\ Whole(Malloc(h, n)[1]) /\ Malloc(h, n)[2] \notin Used(h)
           /\ Used(Malloc(h, n)[1]) = Used(h) \cup {Malloc(h, n)[2]}
           /\ \A x \in Used(h) : Malloc(h, n)[1].block[x].size >= h.block[x].size
           /\ Malloc(h, n)[1].block[Malloc(h, n)[2]].size >= n
<1> DEFINE b == FirstFit(h, n)  more == Rounded(n + Header)
<1>1. CASE b # Nil
  <2>1. Malloc(h, n)[1] = Take(h, b, n, UserSplit) /\ Malloc(h, n)[2] = b
    BY <1>1 DEF Malloc
  <2>2. b \in Fits(h, n) /\ UserSplit \in Nat
    BY <1>1, FirstFitIs DEF UserSplit
  <2> HIDE DEF b
  <2> QED BY <2>1, <2>2, TakeUse
<1>2. CASE b = Nil
  <2> DEFINE g == Grow(h, more)  s == Split(g, h.top, n, UserSplit)
  <2>1. h.top + more <= BreakLimit
    <3>1. h.top + more > BreakLimit => Malloc(h, n) = <<h, Nil>>
      BY <1>2 DEF Malloc
    <3>2. h.top \in Nat /\ more \in Nat
      BY Types, RoundedUp, HeapAssumption DEF Whole
    <3> HIDE DEF more
    <3> QED BY <3>1, <3>2, HeapAssumption
  <2>2. ~(h.top + more > BreakLimit)
    <3>1. h.top \in Nat /\ more \in Nat
      BY Types, RoundedUp, HeapAssumption DEF Whole
    <3> HIDE DEF more
    <3> QED BY <2>1, <3>1, HeapAssumption
  <2>3. Malloc(h, n)[1] = s /\ Malloc(h, n)[2] = h.top
    BY <1>2, <2>2 DEF Malloc
  <2>4. more \in Nat /\ more >= n + Header /\ more >= Header /\ UserSplit \in Nat
    BY RoundedUp, HeapAssumption DEF UserSplit
  <2> HIDE DEF more
  <2>5. /\ Whole(g) /\ h.top \notin Used(h) /\ h.top \in Addresses(g)
        /\ Used(g) = Used(h) \cup {h.top}
        /\ \A x \in Used(h) : g.block[x].size >= h.block[x].size
        /\ g.block[h.top].size = more - Header
    BY <2>4, GrowWhole, GrowUse
  <2> HIDE DEF g
  <2>6. g.block[h.top].size >= n
    BY <2>4, <2>5, HeapAssumption
  <2>7. Whole(s) /\ SameUse(g, s, h.top) /\ s.block[h.top].size >= n
    BY <2>4, <2>5, <2>6, SplitWhole, SplitUse
  <2> HIDE DEF s
  <2>8. \A x \in Used(h) : s.block[x].size >= h.block[x].size
    <3> TAKE x \in Used(h)
    <3>1. x \in Used(g) \ {h.top} /\ x \in Addresses(h) /\ x \in Addresses(g) /\ x \in Used(s)
      BY <2>5, <2>7 DEF Used, SameUse
    <3>2. h.block[x].size \in Nat /\ g.block[x].size \in Nat /\ s.block[x].size \in Nat
      BY <2>5, <2>7, <3>1, Types DEF Whole, Used
    <3>3. s.block[x].size >= g.block[x].size /\ g.block[x].size >= h.block[x].size
      BY <2>5, <2>7, <3>1 DEF SameUse
    <3> QED BY <3>2, <3>3
  <2> QED BY <2>3, <2>5, <2>7, <2>8 DEF SameUse
<1> QED BY <1>1, <1>2

\* Giving a block back frees that one and no other.
Returned(h, b, k) ==
    /\ Whole(k) /\ Used(k) = Used(h) \ {b}
    /\ \A x \in Used(h) \ {b} : k.block[x].size >= h.block[x].size

\* coalesce and kfree, by their two steps.
AfterNext(f, b, checks) ==
    IF IsFree(f, f.block[b].next) /\ (checks => EndOf(f, b) = f.block[b].next)
    THEN JoinNext(f, b) ELSE f
AfterPrev(g, b, checks) ==
    IF IsFree(g, g.block[b].prev) /\ (checks => EndOf(g, g.block[b].prev) = b)
    THEN JoinNext(g, g.block[b].prev) ELSE g

LEMMA FreeIs ==
    ASSUME NEW h, NEW b, NEW checks
    PROVE  Free(h, b, checks) = AfterPrev(AfterNext(Marked(h, b, TRUE), b, checks), b, checks)
BY DEF Free, AfterPrev, AfterNext, Marked

LEMMA AfterNextUse ==
    ASSUME NEW f, Whole(f), NEW b \in Addresses(f), f.block[b].free, NEW checks \in BOOLEAN
    PROVE  /\ Whole(AfterNext(f, b, checks)) /\ SameUse(f, AfterNext(f, b, checks), Nil)
           /\ b \in Addresses(AfterNext(f, b, checks)) /\ AfterNext(f, b, checks).block[b].free
<1>1. CASE IsFree(f, f.block[b].next) /\ (checks => EndOf(f, b) = f.block[b].next)
  BY <1>1, JoinWhole, JoinUse DEF AfterNext, IsFree
<1>2. CASE ~(IsFree(f, f.block[b].next) /\ (checks => EndOf(f, b) = f.block[b].next))
  <2>1. \A x \in Addresses(f) : f.block[x].size \in Nat
    BY Types DEF Whole
  <2>2. SameUse(f, f, Nil)
    BY <2>1 DEF SameUse, Used
  <2> QED BY <1>2, <2>2 DEF AfterNext
<1> QED BY <1>1, <1>2

LEMMA AfterPrevUse ==
    ASSUME NEW g, Whole(g), NEW b \in Addresses(g), g.block[b].free, NEW checks \in BOOLEAN
    PROVE  Whole(AfterPrev(g, b, checks)) /\ SameUse(g, AfterPrev(g, b, checks), Nil)
<1> DEFINE p == g.block[b].prev
<1>1. CASE IsFree(g, p) /\ (checks => EndOf(g, p) = b)
  <2>1. p \in Addresses(g) /\ g.block[p].next = b /\ b # Nil
    BY <1>1, Neighbours, Types DEF IsFree, Whole
  <2> QED BY <1>1, <2>1, JoinWhole, JoinUse DEF AfterPrev
<1>2. CASE ~(IsFree(g, p) /\ (checks => EndOf(g, p) = b))
  <2>1. \A x \in Addresses(g) : g.block[x].size \in Nat
    BY Types DEF Whole
  <2>2. SameUse(g, g, Nil)
    BY <2>1 DEF SameUse, Used
  <2> QED BY <1>2, <2>2 DEF AfterPrev
<1> QED BY <1>1, <1>2

LEMMA FreeUse ==
    ASSUME NEW h, Whole(h), NEW b \in Used(h), NEW checks \in BOOLEAN
    PROVE  Returned(h, b, Free(h, b, checks))
<1> DEFINE f == Marked(h, b, TRUE)  g == AfterNext(f, b, checks)  k == AfterPrev(g, b, checks)
<1>0. b \in Addresses(h)
  BY DEF Used
<1>1. MarkedAs(h, b, TRUE, f)
  BY <1>0, MarkedWhole
<1> HIDE DEF f
<1>2. /\ Whole(g) /\ SameUse(f, g, Nil) /\ b \in Addresses(g) /\ g.block[b].free
  BY <1>0, <1>1, AfterNextUse DEF MarkedAs
<1> HIDE DEF g
<1>3. Whole(k) /\ SameUse(g, k, Nil)
  BY <1>2, AfterPrevUse
<1> HIDE DEF k
<1>4. Used(f) = Used(h) \ {b}
  BY <1>0, <1>1 DEF Used, MarkedAs
<1>5. Used(k) = Used(h) \ {b}
  BY <1>2, <1>3, <1>4 DEF SameUse
<1>6. ASSUME NEW x \in Used(h) \ {b} PROVE k.block[x].size >= h.block[x].size
  <2>1. x \in Addresses(h) /\ x \in Used(f) /\ x \in Used(g) /\ x \in Used(k) /\ x # Nil
    BY <1>2, <1>3, <1>4, Types DEF Used, SameUse, Whole
  <2>2. /\ h.block[x].size \in Nat /\ f.block[x].size \in Nat /\ g.block[x].size \in Nat
        /\ k.block[x].size \in Nat
    BY <1>1, <1>2, <1>3, <2>1, Types DEF Whole, Used, MarkedAs
  <2>4. f.block[x].size = h.block[x].size
    BY <1>1, <2>1 DEF MarkedAs
  <2>5. g.block[x].size >= f.block[x].size /\ k.block[x].size >= g.block[x].size
    BY <1>2, <1>3, <2>1 DEF SameUse
  <2> QED BY <2>2, <2>4, <2>5
<1>7. Free(h, b, checks) = k
  BY FreeIs DEF f, g, k
<1> QED BY <1>3, <1>5, <1>6, <1>7 DEF Returned

-----------------------------------------------------------------------------
(***************************************************************************)
(* No two free blocks of the kernel heap touch.                            *)
(***************************************************************************)

Joined(h) == \A x \in Addresses(h) : ~(h.block[x].free /\ IsFree(h, h.block[x].next))

LEMMA TakeJoined ==
    ASSUME NEW h, Whole(h), Joined(h), NEW n \in Nat, NEW b \in Fits(h, n), NEW min \in Nat
    PROVE  Joined(Take(h, b, n, min))
<1> DEFINE s == Split(h, b, n, min)  r == b + Header + n  nx == h.block[b].next  m == Marked(s, b, FALSE)
<1>1. b \in Addresses(h) /\ h.block[b].free
  BY DEF Fits
<1>2. Whole(s) /\ b \in Addresses(s)
  BY <1>1, SplitWhole, SplitUse
<1>3. Take(h, b, n, min) = m
  BY DEF Take, Marked
<1>4. MarkedAs(s, b, FALSE, m)
  BY <1>2, MarkedWhole
<1>5. CASE ~Cuts(h, b, n, min)
  <2>1. s = h
    <3>1. h.block[b].size \in Nat
      BY <1>1, Types DEF Whole
    <3>2. h.block[b].size < n + Header + min
      BY <1>5, <3>1, HeapAssumption DEF Cuts
    <3> QED BY <3>2 DEF Split
  <2> HIDE DEF s, m
  <2>2. Joined(m)
    BY <1>4, <2>1 DEF Joined, IsFree, MarkedAs, Whole, Chained
  <2> QED BY <1>3, <2>2
<1>6. CASE Cuts(h, b, n, min)
  <2>1. SplitAt(h, b, n, r, nx, s)
    BY <1>1, <1>6, SplitForm
  <2>2. ~IsFree(h, nx)
    BY <1>1 DEF Joined
  <2>3. \A x \in Addresses(h) : h.block[x].next \in Addresses(h) \cup {Nil}
    BY DEF Whole, Chained
  <2> HIDE DEF s, m, r, nx
  <2>4. /\ Addresses(m) = Addresses(h) \cup {r} /\ r \notin Addresses(h) /\ nx \in Addresses(h) \cup {Nil}
        /\ m.block[b].free = FALSE /\ m.block[r].next = nx
        /\ \A x \in Addresses(h) \ {b} : m.block[x].free = h.block[x].free
        /\ \A x \in Addresses(h) \ {b} : m.block[x].next = h.block[x].next
    BY <1>1, <1>4, <2>1 DEF SplitAt, MarkedAs
  <2>5. Joined(m)
    <3> SUFFICES ASSUME NEW x \in Addresses(h) \cup {r}, m.block[x].free, IsFree(m, m.block[x].next)
                 PROVE  FALSE
      BY <2>4 DEF Joined
    <3>1. CASE x = r
      <4>1. nx # b /\ nx # Nil /\ nx \in Addresses(h) /\ m.block[nx].free
        BY <2>4, <3>1 DEF IsFree
      <4> QED BY <2>2, <2>4, <4>1 DEF IsFree
    <3>2. CASE x \in Addresses(h)
      <4>1. x # b /\ h.block[x].free /\ m.block[x].next = h.block[x].next
        BY <2>4, <3>2
      <4>2. /\ h.block[x].next # Nil /\ h.block[x].next \in Addresses(h)
            /\ m.block[h.block[x].next].free /\ h.block[x].next # b
        BY <2>3, <2>4, <3>2, <4>1 DEF IsFree
      <4> QED BY <2>4, <3>2, <4>1, <4>2 DEF Joined, IsFree
    <3> QED BY <3>1, <3>2
  <2> QED BY <1>3, <2>5
<1> QED BY <1>5, <1>6

LEMMA GrowJoined ==
    ASSUME NEW h, Whole(h), Joined(h), NEW n \in Nat, n >= Header
    PROVE  Joined(Grow(h, n))
<1> DEFINE k == Grow(h, n)
<1>1. GrownBy(h, n, k)
  BY GrowForm
<1>2. \A x \in Addresses(h) : h.block[x].next \in Addresses(h) \cup {Nil}
  BY DEF Whole, Chained
<1> HIDE DEF k
<1> SUFFICES ASSUME NEW x \in Addresses(k), k.block[x].free, IsFree(k, k.block[x].next)
             PROVE  FALSE
  BY DEF Joined, k
<1>3. x \in Addresses(h) /\ h.block[x].free /\ k.block[h.top].free = FALSE
  BY <1>1 DEF GrownBy
<1>4. k.block[x].next # h.top /\ k.block[x].next # Nil
  BY <1>3 DEF IsFree
<1>5. k.block[x].next = h.block[x].next
  BY <1>1, <1>3, <1>4 DEF GrownBy
<1>6. h.block[x].next \in Addresses(h) /\ h.block[h.block[x].next].free
  BY <1>1, <1>2, <1>4, <1>5 DEF GrownBy, IsFree
<1> QED BY <1>3, <1>4, <1>5, <1>6 DEF Joined, IsFree

\* Two free blocks touch at b alone.
JoinedBut(h, b) ==
    \A x \in Addresses(h) : h.block[x].free /\ IsFree(h, h.block[x].next) => h.block[x].next = b

LEMMA AfterNextJoined ==
    ASSUME NEW h, Whole(h), Joined(h), NEW b \in Addresses(h)
    PROVE  JoinedBut(AfterNext(Marked(h, b, TRUE), b, TRUE), b)
<1> DEFINE f == Marked(h, b, TRUE)  nx == f.block[b].next  nn == f.block[nx].next  k == JoinNext(f, b)
<1>1. MarkedAs(h, b, TRUE, f)
  BY MarkedWhole
<1> HIDE DEF f
<1>2. /\ Whole(f) /\ b \in Addresses(f) /\ Addresses(f) = Addresses(h)
      /\ \A x \in Addresses(h) : f.block[x].next = h.block[x].next
      /\ \A x \in Addresses(h) \ {b} : f.block[x].free = h.block[x].free
  BY <1>1 DEF MarkedAs
<1>3. \A x \in Addresses(f) : f.block[x].next \in Addresses(f) \cup {Nil}
  BY <1>2 DEF Whole, Chained
<1>4. ASSUME NEW x \in Addresses(f), f.block[x].free, IsFree(f, f.block[x].next)
      PROVE  x = b \/ f.block[x].next = b
  <2> SUFFICES ASSUME x # b, f.block[x].next # b PROVE FALSE
    OBVIOUS
  <2>1. /\ h.block[x].free /\ h.block[x].next = f.block[x].next /\ f.block[x].next # Nil
        /\ f.block[x].next \in Addresses(f) \ {b}
    BY <1>2, <1>3, <1>4 DEF IsFree
  <2>2. h.block[f.block[x].next].free
    BY <1>2, <1>4, <2>1 DEF IsFree
  <2> QED BY <1>2, <2>1, <2>2 DEF Joined, IsFree
<1>5. nx # Nil => EndOf(f, b) = nx
  BY <1>2, Neighbours
<1>6. CASE ~IsFree(f, nx)
  <2>1. AfterNext(f, b, TRUE) = f
    BY <1>6 DEF AfterNext
  <2>2. JoinedBut(f, b)
    BY <1>4, <1>6 DEF JoinedBut
  <2> QED BY <2>1, <2>2 DEF f
<1>7. CASE IsFree(f, nx)
  <2>1. AfterNext(f, b, TRUE) = k /\ nx # Nil /\ f.block[nx].free
    BY <1>5, <1>7 DEF AfterNext, IsFree
  <2>2. JoinedAt(f, b, nx, nn, k)
    BY <1>2, <2>1, JoinForm
  <2>3. nx \in Addresses(f) /\ nx # b
    BY <1>2, <2>1, Neighbours, Types DEF Whole
  <2>4. nn # b /\ nn \in Addresses(f) \cup {Nil} /\ nn # nx
    <3>1. nn # Nil => nn \in Addresses(f) /\ nn > nx
      BY <1>2, <2>3, Neighbours
    <3>2. nx > b /\ b \in Nat /\ nx \in Nat /\ b # Nil /\ nx # Nil
      BY <1>2, <2>1, <2>3, Neighbours, Types DEF Whole
    <3>3. nn # Nil => nn \in Nat
      BY <1>2, <3>1, Types DEF Whole
    <3> HIDE DEF nn, nx
    <3> QED BY <3>1, <3>2, <3>3
  <2>5. ~IsFree(f, nn)
    <3>1. IsFree(f, nn) => nn = b \/ nx = b
      BY <1>4, <2>1, <2>3
    <3> QED BY <2>3, <2>4, <3>1
  <2> HIDE DEF nx, nn, k
  <2>6. /\ Addresses(k) = Addresses(f) \ {nx} /\ k.block[b].next = nn
        /\ \A x \in Addresses(f) \ {nx} : k.block[x].free = f.block[x].free
        /\ \A x \in Addresses(f) \ {nx, b} : k.block[x].next = f.block[x].next
    BY <1>2, <2>2, <2>3 DEF JoinedAt
  <2>7. JoinedBut(k, b)
    <3> SUFFICES ASSUME NEW x \in Addresses(f) \ {nx}, k.block[x].free,
                        IsFree(k, k.block[x].next), k.block[x].next # b
                 PROVE  FALSE
      BY <2>6 DEF JoinedBut
    <3>1. CASE x = b
      BY <2>4, <2>5, <2>6, <3>1 DEF IsFree
    <3>2. CASE x # b
      <4>1. k.block[x].next = f.block[x].next /\ f.block[x].free
        BY <2>6, <3>2
      <4>2. f.block[x].next # nx
        BY <1>2, <2>1, <2>3, <3>2, Neighbours DEF nx
      <4>3. IsFree(f, f.block[x].next)
        BY <1>3, <2>6, <4>1, <4>2 DEF IsFree
      <4> QED BY <1>4, <3>2, <4>1, <4>3
    <3> QED BY <3>1, <3>2
  <2> QED BY <2>1, <2>7 DEF f
<1> QED BY <1>6, <1>7

LEMMA AfterPrevJoined ==
    ASSUME NEW g, Whole(g), NEW b \in Addresses(g), g.block[b].free, JoinedBut(g, b)
    PROVE  Joined(AfterPrev(g, b, TRUE))
<1> DEFINE p == g.block[b].prev  nn == g.block[b].next  k == JoinNext(g, p)
<1>1. \A x \in Addresses(g) : g.block[x].next = b => p = x
  <2> SUFFICES ASSUME NEW x \in Addresses(g), g.block[x].next = b PROVE p = x
    OBVIOUS
  <2>1. EndOf(g, x) = b /\ b > x /\ x \in Nat /\ b # Nil /\ b \in Nat
    BY Neighbours, Types DEF Whole
  <2>2. p # Nil
    BY <2>1, Neighbours
  <2>3. p \in Addresses(g) /\ EndOf(g, p) = b
    BY <2>2, Neighbours
  <2> HIDE DEF p
  <2> QED BY <2>1, <2>3, Neighbours
<1>2. p # Nil => p \in Addresses(g) /\ EndOf(g, p) = b /\ g.block[p].next = b
  BY Neighbours
<1>3. nn # b /\ b # Nil /\ nn \in Addresses(g) \cup {Nil}
  BY Neighbours, Types DEF Whole
<1>4. CASE ~IsFree(g, p)
  <2>1. AfterPrev(g, b, TRUE) = g
    BY <1>4 DEF AfterPrev
  <2>2. Joined(g)
    BY <1>1, <1>3, <1>4, Types DEF Joined, JoinedBut, IsFree, Whole
  <2> QED BY <2>1, <2>2
<1>5. CASE IsFree(g, p)
  <2>1. AfterPrev(g, b, TRUE) = k /\ p \in Addresses(g) /\ g.block[p].next = b /\ g.block[p].free
    BY <1>2, <1>5 DEF AfterPrev, IsFree
  <2>2. JoinedAt(g, p, b, nn, k)
    BY <1>3, <2>1, JoinForm
  <2>3. nn # p /\ p # b
    <3>1. b > p /\ b \in Nat /\ p \in Nat /\ (nn # Nil => nn > b) /\ p # Nil
      BY <1>3, <2>1, Neighbours, Types DEF Whole
    <3>2. nn # Nil => nn \in Nat
      BY <1>3, Types DEF Whole
    <3> HIDE DEF nn, p
    <3> QED BY <3>1, <3>2
  <2>4. ~IsFree(g, nn)
    BY <1>3 DEF JoinedBut
  <2>5. \A x \in Addresses(g) : g.block[x].next \in Addresses(g) \cup {Nil}
    BY DEF Whole, Chained
  <2> HIDE DEF p, nn, k
  <2>6. /\ Addresses(k) = Addresses(g) \ {b} /\ k.block[p].next = nn
        /\ \A x \in Addresses(g) \ {b} : k.block[x].free = g.block[x].free
        /\ \A x \in Addresses(g) \ {b, p} : k.block[x].next = g.block[x].next
    BY <2>1, <2>2, <2>3 DEF JoinedAt
  <2>7. Joined(k)
    <3> SUFFICES ASSUME NEW x \in Addresses(g) \ {b}, k.block[x].free, IsFree(k, k.block[x].next)
                 PROVE  FALSE
      BY <2>6 DEF Joined
    <3>1. CASE x = p
      BY <1>3, <2>4, <2>6, <3>1 DEF IsFree
    <3>2. CASE x # p
      <4>1. k.block[x].next = g.block[x].next /\ g.block[x].free /\ g.block[x].next # b
        BY <1>1, <2>6, <3>2
      <4>2. IsFree(g, g.block[x].next)
        BY <2>5, <2>6, <4>1 DEF IsFree
      <4> QED BY <3>2, <4>1, <4>2 DEF JoinedBut
    <3> QED BY <3>1, <3>2
  <2> QED BY <2>1, <2>7
<1> QED BY <1>4, <1>5

LEMMA FreeJoined ==
    ASSUME NEW h, Whole(h), Joined(h), NEW b \in Addresses(h)
    PROVE  Joined(Free(h, b, TRUE))
<1> DEFINE f == Marked(h, b, TRUE)  g == AfterNext(f, b, TRUE)
<1>1. Whole(f) /\ b \in Addresses(f) /\ f.block[b].free
  <2>1. MarkedAs(h, b, TRUE, f)
    BY MarkedWhole
  <2> HIDE DEF f
  <2> QED BY <2>1 DEF MarkedAs
<1>2. JoinedBut(g, b)
  BY AfterNextJoined
<1> HIDE DEF f
<1>3. Whole(g) /\ b \in Addresses(g) /\ g.block[b].free
  BY <1>1, AfterNextUse
<1> HIDE DEF g
<1> QED BY <1>2, <1>3, AfterPrevJoined, FreeIs DEF f, g

-----------------------------------------------------------------------------
(***************************************************************************)
(* The inductive invariant.                                                *)
(***************************************************************************)

\* What callers hold.
Given(h, out) ==
    DOMAIN out = Used(h) /\ \A b \in Used(h) : out[b] \in Nat /\ h.block[b].size >= out[b]

HeapInv ==
    /\ Whole(kernel) /\ Given(kernel, kernel_out) /\ Joined(kernel)
    /\ Whole(user) /\ Given(user, user_out)

\* One more block is held, and the others did not become smaller.
LEMMA GivenMore ==
    ASSUME NEW h, Whole(h), NEW out, Given(h, out), NEW k, Whole(k), NEW b, NEW n \in Nat,
           Used(k) = Used(h) \cup {b}, k.block[b].size >= n,
           \A x \in Used(h) \ {b} : k.block[x].size >= h.block[x].size
    PROVE  Given(k, With(out, b, n))
<1>1. DOMAIN With(out, b, n) = Used(k)
  BY DEF Given, With
<1>2. ASSUME NEW x \in Used(k)
      PROVE  With(out, b, n)[x] \in Nat /\ k.block[x].size >= With(out, b, n)[x]
  <2>1. CASE x = b
    BY <2>1 DEF With
  <2>2. CASE x # b
    <3>1. x \in Used(h) /\ With(out, b, n)[x] = out[x] /\ out[x] \in Nat
      BY <2>2 DEF Given, With
    <3>2. h.block[x].size \in Nat /\ k.block[x].size \in Nat
      BY <1>2, <3>1, Types DEF Whole, Used
    <3>3. k.block[x].size >= h.block[x].size /\ h.block[x].size >= out[x]
      BY <2>2, <3>1 DEF Given
    <3> QED BY <3>1, <3>2, <3>3
  <2> QED BY <2>1, <2>2
<1> QED BY <1>1, <1>2 DEF Given

LEMMA GivenLess ==
    ASSUME NEW h, Whole(h), NEW out, Given(h, out), NEW b \in Used(h), NEW k, Returned(h, b, k)
    PROVE  Given(k, Without(out, b))
<1>1. DOMAIN Without(out, b) = Used(k)
  BY DEF Given, Without, Returned
<1>2. ASSUME NEW x \in Used(k)
      PROVE  Without(out, b)[x] \in Nat /\ k.block[x].size >= Without(out, b)[x]
  <2>1. x \in Used(h) \ {b} /\ Without(out, b)[x] = out[x] /\ out[x] \in Nat
    BY DEF Given, Without, Returned
  <2>2. h.block[x].size \in Nat /\ k.block[x].size \in Nat
    BY <1>2, <2>1, Types DEF Whole, Used, Returned
  <2>3. k.block[x].size >= h.block[x].size /\ h.block[x].size >= out[x]
    BY <2>1 DEF Given, Returned
  <2> QED BY <2>1, <2>2, <2>3
<1> QED BY <1>1, <1>2 DEF Given

LEMMA KmallocFitsStep ==
    ASSUME HeapInv, NEW n \in Requests, KmallocFits(n)
    PROVE  HeapInv'
<1> DEFINE b == FirstFit(kernel, n)
<1>1. n \in Nat /\ KernelSplit \in Nat /\ b \in Fits(kernel, n)
  BY FirstFitIs, HeapAssumption DEF HeapInv, KmallocFits, KernelSplit
<1>2. /\ kernel' = Take(kernel, b, n, KernelSplit) /\ kernel_out' = With(kernel_out, b, n)
      /\ UNCHANGED <<user, user_out>>
  BY DEF KmallocFits
<1> HIDE DEF b
<1>3. /\ Whole(kernel') /\ Used(kernel') = Used(kernel) \cup {b} /\ kernel'.block[b].size >= n
      /\ \A x \in Used(kernel) : kernel'.block[x].size >= kernel.block[x].size
  BY <1>1, <1>2, TakeUse DEF HeapInv
<1>4. Given(kernel', kernel_out')
  BY <1>1, <1>2, <1>3, GivenMore DEF HeapInv
<1>5. Joined(kernel')
  BY <1>1, <1>2, TakeJoined DEF HeapInv
<1> QED BY <1>2, <1>3, <1>4, <1>5 DEF HeapInv

LEMMA KmallocGrowsStep ==
    ASSUME HeapInv, NEW n \in Requests, KmallocGrows(n)
    PROVE  HeapInv'
<1> DEFINE b == kernel.top  more == Header + n
<1>1. n \in Nat /\ more \in Nat /\ more >= Header /\ more - Header = n
  BY HeapAssumption
<1>2. /\ kernel' = Grow(kernel, more) /\ kernel_out' = With(kernel_out, b, n)
      /\ UNCHANGED <<user, user_out>>
  BY DEF KmallocGrows
<1> HIDE DEF more
<1>3. /\ Used(kernel') = Used(kernel) \cup {b} /\ kernel'.block[b].size = n
      /\ \A x \in Used(kernel) : kernel'.block[x].size >= kernel.block[x].size
  BY <1>1, <1>2, GrowUse DEF HeapInv
<1>4. Whole(kernel') /\ Joined(kernel')
  BY <1>1, <1>2, GrowWhole, GrowJoined DEF HeapInv
<1>5. Given(kernel', kernel_out')
  <2>1. kernel'.block[b].size >= n
    BY <1>1, <1>3
  <2> QED BY <1>1, <1>2, <1>3, <1>4, <2>1, GivenMore DEF HeapInv
<1> QED BY <1>2, <1>4, <1>5 DEF HeapInv

LEMMA KfreeStep ==
    ASSUME HeapInv, NEW b \in DOMAIN kernel_out, Kfree(b)
    PROVE  HeapInv'
<1>1. b \in Used(kernel) /\ b \in Addresses(kernel)
  BY DEF HeapInv, Given, Used
<1>2. /\ kernel' = Free(kernel, b, TRUE) /\ kernel_out' = Without(kernel_out, b)
      /\ UNCHANGED <<user, user_out>>
  BY DEF Kfree
<1>3. Returned(kernel, b, kernel') /\ Joined(kernel')
  BY <1>1, <1>2, FreeUse, FreeJoined DEF HeapInv
<1>4. Given(kernel', kernel_out')
  BY <1>1, <1>2, <1>3, GivenLess DEF HeapInv
<1> QED BY <1>2, <1>3, <1>4 DEF HeapInv, Returned

LEMMA UserMallocStep ==
    ASSUME HeapInv, NEW n \in Requests, UserMalloc(n)
    PROVE  HeapInv'
<1> DEFINE r == Malloc(user, n)
<1>1. n \in Nat /\ r[2] # Nil
  BY HeapAssumption DEF UserMalloc
<1>2. /\ user' = r[1] /\ user_out' = With(user_out, r[2], n)
      /\ UNCHANGED <<kernel, kernel_out>>
  BY DEF UserMalloc
<1>3. /\ Whole(r[1]) /\ Used(r[1]) = Used(user) \cup {r[2]} /\ r[1].block[r[2]].size >= n
      /\ \A x \in Used(user) : r[1].block[x].size >= user.block[x].size
  BY <1>1, MallocUse DEF HeapInv
<1> HIDE DEF r
<1>4. Given(user', user_out')
  BY <1>1, <1>2, <1>3, GivenMore DEF HeapInv
<1> QED BY <1>2, <1>3, <1>4 DEF HeapInv

LEMMA UserFreeStep ==
    ASSUME HeapInv, NEW b \in DOMAIN user_out, UserFree(b)
    PROVE  HeapInv'
<1>1. b \in Used(user)
  BY DEF HeapInv, Given
<1>2. /\ user' = Free(user, b, FALSE) /\ user_out' = Without(user_out, b)
      /\ UNCHANGED <<kernel, kernel_out>>
  BY DEF UserFree
<1>3. Returned(user, b, user')
  BY <1>1, <1>2, FreeUse DEF HeapInv
<1>4. Given(user', user_out')
  BY <1>1, <1>2, <1>3, GivenLess DEF HeapInv
<1> QED BY <1>2, <1>3, <1>4 DEF HeapInv, Returned

\* The block of realloc is cut in place, where it lies or with its successor taken in.
LEMMA CutInPlace ==
    ASSUME NEW h, Whole(h), NEW out, Given(h, out), NEW b \in Used(h), NEW n \in Nat,
           NEW g, Whole(g), SameUse(h, g, Nil), b \in Addresses(g), g.block[b].size >= n,
           NEW k, k = Split(g, b, n, UserSplit)
    PROVE  Whole(k) /\ Given(k, With(out, b, n))
<1>1. UserSplit \in Nat
  BY DEF UserSplit
<1>2. Whole(k) /\ SameUse(g, k, b) /\ k.block[b].size >= n
  BY <1>1, SplitWhole, SplitUse
<1>3. Used(k) = Used(h) \cup {b}
  BY <1>2 DEF SameUse
<1>4. ASSUME NEW x \in Used(h) \ {b} PROVE k.block[x].size >= h.block[x].size
  <2>1. x \in Addresses(h) /\ x \in Used(g) /\ x \in Used(k) /\ x # Nil
    BY <1>2, Types DEF SameUse, Used, Whole
  <2>2. h.block[x].size \in Nat /\ g.block[x].size \in Nat /\ k.block[x].size \in Nat
    BY <1>2, <2>1, Types DEF Whole, Used
  <2>3. g.block[x].size >= h.block[x].size /\ k.block[x].size >= g.block[x].size
    BY <1>2, <2>1 DEF SameUse
  <2> QED BY <2>2, <2>3
<1> QED BY <1>2, <1>3, <1>4, GivenMore

LEMMA ReallocStep ==
    ASSUME HeapInv, NEW b \in DOMAIN user_out, NEW n \in Requests, Realloc(b, n)
    PROVE  HeapInv'
<1> DEFINE nx == user.block[b].next
<1>0. /\ n \in Nat /\ b \in Used(user) /\ b \in Addresses(user) /\ Whole(user) /\ Given(user, user_out)
      /\ UNCHANGED <<kernel, kernel_out>>
  BY HeapAssumption DEF HeapInv, Given, Realloc, Used
<1>1. CASE /\ user.block[b].size >= n
           /\ user' = Split(user, b, n, UserSplit) /\ user_out' = With(user_out, b, n)
  <2>1. SameUse(user, user, Nil)
    BY <1>0, Types DEF SameUse, Used, Whole
  <2>2. Whole(user') /\ Given(user', user_out')
    BY <1>0, <1>1, <2>1, CutInPlace
  <2> QED BY <1>0, <2>2 DEF HeapInv
<1>2. CASE /\ IsFree(user, nx) /\ user.block[b].size + Header + user.block[nx].size >= n
           /\ user' = Split(JoinNext(user, b), b, n, UserSplit) /\ user_out' = With(user_out, b, n)
  <2> DEFINE g == JoinNext(user, b)
  <2>1. /\ Whole(g) /\ SameUse(user, g, Nil) /\ b \in Addresses(g)
        /\ g.block[b].size = user.block[b].size + Header + user.block[nx].size
    BY <1>0, <1>2, JoinWhole, JoinUse DEF IsFree
  <2>2. Whole(user') /\ Given(user', user_out')
    <3> HIDE DEF g
    <3>1. user' = Split(g, b, n, UserSplit) /\ g.block[b].size >= n
      BY <1>2, <2>1 DEF g
    <3> QED BY <1>0, <1>2, <2>1, <3>1, CutInPlace
  <2> QED BY <1>0, <2>2 DEF HeapInv
<1>3. CASE /\ Malloc(user, n)[2] # Nil
           /\ user' = Free(Malloc(user, n)[1], b, FALSE)
           /\ user_out' = With(Without(user_out, b), Malloc(user, n)[2], n)
  <2> DEFINE g == Malloc(user, n)[1]  c == Malloc(user, n)[2]
  <2>1. /\ Whole(g) /\ c \notin Used(user) /\ Used(g) = Used(user) \cup {c} /\ g.block[c].size >= n
        /\ \A x \in Used(user) : g.block[x].size >= user.block[x].size
    BY <1>0, <1>3, MallocUse
  <2> HIDE DEF g, c
  <2>2. Given(g, With(user_out, c, n))
    BY <1>0, <2>1, GivenMore
  <2>3. b \in Used(g) /\ b # c
    BY <1>0, <2>1
  <2>4. Returned(g, b, user')
    BY <1>3, <2>1, <2>3, FreeUse DEF g
  <2>5. Given(user', Without(With(user_out, c, n), b))
    BY <2>1, <2>2, <2>3, <2>4, GivenLess
  <2>6. user_out' = Without(With(user_out, c, n), b)
    BY <1>3, <2>3 DEF With, Without, c
  <2> QED BY <1>0, <2>4, <2>5, <2>6 DEF HeapInv, Returned
<1> QED BY <1>1, <1>2, <1>3 DEF Realloc

LEMMA HeapInitInv == HeapInit => HeapInv
<1> SUFFICES ASSUME HeapInit PROVE HeapInv
  OBVIOUS
<1> DEFINE r == Block(Chunk - Header, TRUE, Nil, Nil)
<1>1. /\ kernel.block = [b \in {0} |-> r] /\ kernel.first = 0 /\ kernel.last = 0 /\ kernel.top = Chunk
      /\ kernel = [block |-> kernel.block, first |-> kernel.first, last |-> kernel.last, top |-> kernel.top]
  BY DEF HeapInit
<1>2. /\ user.block = << >> /\ user.first = Nil /\ user.last = Nil /\ user.top = 0
      /\ user = [block |-> user.block, first |-> user.first, last |-> user.last, top |-> user.top]
  BY DEF HeapInit, EmptyHeap
<1>3. r \in Header_ /\ r.size = Chunk - Header /\ r.free = TRUE /\ r.next = Nil /\ r.prev = Nil
  BY HeapAssumption DEF Block, Header_, Place
<1> HIDE DEF r
<1>4. kernel \in Heaps /\ Addresses(kernel) = {0}
  <2>1. kernel.block \in [{0} -> Header_] /\ {0} \in SUBSET Nat /\ Chunk \in Nat
    BY <1>1, <1>3, HeapAssumption
  <2>2. 0 \in Place
    BY DEF Place
  <2> QED BY <1>1, <2>1, <2>2, MakesHeap
<1>5. user \in Heaps /\ Addresses(user) = {}
  <2>1. user.block \in [{} -> Header_] /\ {} \in SUBSET Nat
    BY <1>2
  <2>2. user.first \in Place /\ user.last \in Place /\ user.top \in Nat
    BY <1>2 DEF Place
  <2>3. user = [block |-> user.block, first |-> user.first, last |-> user.last, top |-> user.top]
    BY <1>2
  <2> QED BY ONLY <2>1, <2>2, <2>3, MakesHeap
<1>6. kernel.block[0] = r /\ EndOf(kernel, 0) = kernel.top
  BY <1>1, <1>3, HeapAssumption DEF EndOf
<1>7. Whole(kernel) /\ Joined(kernel) /\ Used(kernel) = {}
  BY <1>1, <1>3, <1>4, <1>6, HeapAssumption DEF Whole, Chained, Disjoint, Ended, Joined, IsFree, Used
<1>8. Whole(user) /\ Used(user) = {}
  BY <1>2, <1>5 DEF Whole, Chained, Disjoint, Ended, Used
<1>9. DOMAIN kernel_out = {} /\ DOMAIN user_out = {}
  BY DEF HeapInit
<1> QED BY <1>7, <1>8, <1>9 DEF HeapInv, Given

LEMMA HeapNextInv == HeapInv /\ [HeapNext]_heapvars => HeapInv'
<1> SUFFICES ASSUME HeapInv, [HeapNext]_heapvars PROVE HeapInv'
  OBVIOUS
<1>1. CASE KernelHeapNext
  BY <1>1, KmallocFitsStep, KmallocGrowsStep, KfreeStep DEF KernelHeapNext
<1>2. CASE UserHeapNext
  BY <1>2, UserMallocStep, UserFreeStep, ReallocStep DEF UserHeapNext
<1>3. CASE UNCHANGED heapvars
  BY <1>3 DEF heapvars, HeapInv
<1> QED BY <1>1, <1>2, <1>3 DEF HeapNext

LEMMA WholeTiled == ASSUME NEW h, Whole(h) PROVE Tiled(h)
<1>1. ASSUME NEW b \in Addresses(h)
      PROVE  LET x == h.block[b]
             IN  /\ x.size >= 0
                 /\ x.next = IF EndOf(h, b) = h.top THEN Nil ELSE EndOf(h, b)
                 /\ x.next # Nil => x.next \in Addresses(h) /\ h.block[x.next].prev = b
                 /\ x.next = Nil => h.last = b
                 /\ x.prev = Nil => b = 0 /\ h.first = b
                 /\ x.prev # Nil => x.prev \in Addresses(h) /\ h.block[x.prev].next = b
  <2> DEFINE y == h.block[b].next
  <2>1. h.block[b].size >= 0 /\ b \in Nat
    BY Types DEF Whole
  <2>2. y = IF EndOf(h, b) = h.top THEN Nil ELSE EndOf(h, b)
    BY DEF Whole, Chained
  <2>3. ASSUME y # Nil PROVE y \in Addresses(h) /\ h.block[y].prev = b
    <3>1. y \in Addresses(h) /\ EndOf(h, b) = y /\ y > b
      BY <2>3, Neighbours
    <3>2. y # 0 /\ y \in Nat
      BY <2>1, <3>1, Types DEF Whole
    <3> HIDE DEF y
    <3>3. h.block[y].prev \in Addresses(h) /\ EndOf(h, h.block[y].prev) = y
      BY <3>1, <3>2 DEF Whole, Chained
    <3> QED BY <3>1, <3>3, Neighbours
  <2>4. ASSUME y = Nil PROVE h.last = b
    <3>1. EndOf(h, b) = h.top
      BY <2>4, Neighbours
    <3>2. h.last \in Addresses(h) /\ EndOf(h, h.last) = h.top
      BY DEF Whole, Ended
    <3> QED BY <3>1, <3>2, Neighbours
  <2>5. h.block[b].prev = Nil => b = 0 /\ h.first = b
    <3>1. h.first = 0
      BY DEF Whole, Ended
    <3> QED BY <3>1, Neighbours
  <2>6. h.block[b].prev # Nil =>
          h.block[b].prev \in Addresses(h) /\ h.block[h.block[b].prev].next = b
    BY Neighbours
  <2> QED BY <2>1, <2>2, <2>3, <2>4, <2>5, <2>6
<1>2. h.top > 0 => 0 \in Addresses(h)
  BY DEF Whole, Ended
<1> QED BY <1>1, <1>2 DEF Tiled

LEMMA HeapInvSound == HeapInv => HeapSound
<1> SUFFICES ASSUME HeapInv PROVE HeapSound
  OBVIOUS
<1>1. Tiled(kernel) /\ Tiled(user)
  BY WholeTiled DEF HeapInv
<1>2. InUse(kernel, kernel_out) /\ InUse(user, user_out)
  BY DEF HeapInv, Given, Used, InUse
<1>3. KernelJoined
  BY DEF HeapInv, Joined, KernelJoined
<1> QED BY <1>1, <1>2, <1>3 DEF HeapSound

\* Whatever is asked for, cut, moved and given back, and for any sizes and limits: the blocks
\* of both heaps cover them without a gap or an overlap and the list goes through them both
\* ways, every caller holds a block of its own that is large enough, nothing else is in use,
\* and the kernel heap never keeps two free blocks side by side (kmalloc, kfree, malloc,
\* free, realloc).
THEOREM HeapsAreSound == HeapSpec => []HeapSound
<1>1. HeapSpec => []HeapInv
  BY HeapInitInv, HeapNextInv, PTL DEF HeapSpec
<1> QED BY <1>1, HeapInvSound, PTL
=============================================================================
