---------------------------- MODULE Rings_proofs ----------------------------
(***************************************************************************)
(* The circular buffers, for any size: what a reader gets is what was put, *)
(* in order.  On them, that a serial port has one owner, who hears it in   *)
(* order.                                                                  *)
(***************************************************************************)
EXTENDS Serial, FiniteSetTheorems, TLAPS

-----------------------------------------------------------------------------
(***************************************************************************)
(* The ring.                                                               *)
(***************************************************************************)

RingPlaces == 0 .. RingSize - 1
Rings  == [cell : [RingPlaces -> Nat], head : RingPlaces, tail : RingPlaces]

\* The arithmetic of places: the next one, how far the head is ahead, and the i-th from the
\* tail.
Ahead(h, t)   == (h + RingSize - t) % RingSize
PlaceOf(t, i) == (t + i - 1) % RingSize

\* What the readers will get after a push.
Pushed(s, c) == IF Len(s) < RingSize - 1 THEN Append(s, c) ELSE s

LEMMA NextPlace ==
  ASSUME NEW i \in RingPlaces
  PROVE  After(i) \in RingPlaces /\ After(i) = (IF i = RingSize - 1 THEN 0 ELSE i + 1)
<1>1. RingSize \in Nat \ {0} /\ i \in 0 .. RingSize - 1
  BY RingAssumption DEF RingPlaces
<1>2. CASE i = RingSize - 1
  BY <1>1, <1>2 DEF After, RingPlaces
<1>3. CASE i # RingSize - 1
  BY <1>1, <1>3 DEF After, RingPlaces
<1> QED BY <1>2, <1>3

LEMMA AheadIs ==
  ASSUME NEW h \in RingPlaces, NEW t \in RingPlaces
  PROVE  Ahead(h, t) \in RingPlaces /\ Ahead(h, t) = (IF h < t THEN h + RingSize - t ELSE h - t)
<1>1. RingSize \in Nat \ {0} /\ h \in 0 .. RingSize - 1 /\ t \in 0 .. RingSize - 1
  BY RingAssumption DEF RingPlaces
<1>2. CASE h < t
  BY <1>1, <1>2 DEF Ahead, RingPlaces
<1>3. CASE h >= t
  BY <1>1, <1>3 DEF Ahead, RingPlaces
<1> QED BY <1>1, <1>2, <1>3

LEMMA PlaceOfIs ==
  ASSUME NEW t \in RingPlaces, NEW i \in 1 .. RingSize
  PROVE  /\ PlaceOf(t, i) \in RingPlaces
         /\ PlaceOf(t, i) = (IF t + i - 1 < RingSize THEN t + i - 1 ELSE t + i - 1 - RingSize)
<1>1. RingSize \in Nat \ {0} /\ t \in 0 .. RingSize - 1
  BY RingAssumption DEF RingPlaces
<1>2. CASE t + i - 1 < RingSize
  BY <1>1, <1>2 DEF PlaceOf, RingPlaces
<1>3. CASE t + i - 1 >= RingSize
  BY <1>1, <1>3 DEF PlaceOf, RingPlaces
<1> QED BY <1>1, <1>2, <1>3

\* A head that moves on is one further ahead, and what it left is the new last place.
LEMMA HeadMoves ==
  ASSUME NEW h \in RingPlaces, NEW t \in RingPlaces, Ahead(h, t) # RingSize - 1
  PROVE  /\ Ahead(After(h), t) = Ahead(h, t) + 1
         /\ PlaceOf(t, Ahead(h, t) + 1) = h
         /\ \A i \in 1 .. Ahead(h, t) : PlaceOf(t, i) # h
<1> DEFINE k == After(h)
           n == Ahead(h, t)
           m == Ahead(k, t)
           q == PlaceOf(t, n + 1)
<1>1. RingSize \in Nat \ {0} /\ h \in 0 .. RingSize - 1 /\ t \in 0 .. RingSize - 1
  BY RingAssumption DEF RingPlaces
<1>2. k \in RingPlaces /\ k = (IF h = RingSize - 1 THEN 0 ELSE h + 1)
  BY NextPlace
<1>3. n \in 0 .. RingSize - 1 /\ n = (IF h < t THEN h + RingSize - t ELSE h - t)
  BY AheadIs DEF RingPlaces
<1>4. m = (IF k < t THEN k + RingSize - t ELSE k - t)
  BY <1>2, AheadIs
<1>5. n # RingSize - 1
  OBVIOUS
<1> HIDE DEF k, n, m
<1>6. m = n + 1
  BY <1>1, <1>2, <1>3, <1>4, <1>5
<1>7. q = (IF t + (n + 1) - 1 < RingSize THEN t + (n + 1) - 1 ELSE t + (n + 1) - 1 - RingSize)
  <2>1. n + 1 \in 1 .. RingSize
    BY <1>1, <1>3, <1>5
  <2> QED BY <2>1, PlaceOfIs
<1> HIDE DEF q
<1>8. q = h
  BY <1>1, <1>3, <1>5, <1>7
<1>9. ASSUME NEW i \in 1 .. n PROVE PlaceOf(t, i) # h
  <2>1. i \in 1 .. RingSize
    BY <1>1, <1>3
  <2>2. PlaceOf(t, i) = (IF t + i - 1 < RingSize THEN t + i - 1 ELSE t + i - 1 - RingSize)
    BY <2>1, PlaceOfIs
  <2> QED BY <1>1, <1>3, <1>5, <2>2
<1> QED BY <1>6, <1>8, <1>9 DEF k, n, m, q

\* A tail that moves on leaves one less, and what was second is first.
LEMMA TailMoves ==
  ASSUME NEW h \in RingPlaces, NEW t \in RingPlaces, Ahead(h, t) # 0
  PROVE  /\ Ahead(h, After(t)) = Ahead(h, t) - 1
         /\ \A i \in 1 .. Ahead(h, t) - 1 :
               PlaceOf(After(t), i) = PlaceOf(t, i + 1) /\ PlaceOf(t, i + 1) # t
<1> DEFINE k == After(t)
           n == Ahead(h, t)
           m == Ahead(h, k)
<1>1. RingSize \in Nat \ {0} /\ h \in 0 .. RingSize - 1 /\ t \in 0 .. RingSize - 1
  BY RingAssumption DEF RingPlaces
<1>2. k \in RingPlaces /\ k = (IF t = RingSize - 1 THEN 0 ELSE t + 1)
  BY NextPlace
<1>3. n \in 0 .. RingSize - 1 /\ n = (IF h < t THEN h + RingSize - t ELSE h - t)
  BY AheadIs DEF RingPlaces
<1>4. m = (IF h < k THEN h + RingSize - k ELSE h - k)
  BY <1>2, AheadIs
<1>5. n # 0
  OBVIOUS
<1> HIDE DEF k, n, m
<1>6. m = n - 1
  BY <1>1, <1>2, <1>3, <1>4, <1>5
<1>7. ASSUME NEW i \in 1 .. n - 1 PROVE PlaceOf(k, i) = PlaceOf(t, i + 1) /\ PlaceOf(t, i + 1) # t
  <2> DEFINE q == PlaceOf(k, i)
             o == PlaceOf(t, i + 1)
  <2>1. i \in 1 .. RingSize /\ i + 1 \in 1 .. RingSize
    BY <1>1, <1>3
  <2>2. q = (IF k + i - 1 < RingSize THEN k + i - 1 ELSE k + i - 1 - RingSize)
    BY <1>2, <2>1, PlaceOfIs
  <2>3. o = (IF t + (i + 1) - 1 < RingSize THEN t + (i + 1) - 1 ELSE t + (i + 1) - 1 - RingSize)
    BY <2>1, PlaceOfIs
  <2> HIDE DEF q, o
  <2>4. q = o /\ o # t
    BY <1>1, <1>2, <1>3, <1>5, <2>2, <2>3
  <2> QED BY <2>4 DEF q, o
<1> QED BY <1>6, <1>7 DEF k, n, m

LEMMA RingIs ==
  ASSUME NEW r \in Rings
  PROVE  /\ r.head \in RingPlaces /\ r.tail \in RingPlaces /\ r.cell \in [RingPlaces -> Nat]
         /\ RingCount(r) = Ahead(r.head, r.tail) /\ RingCount(r) \in RingPlaces
<1>1. r.head \in RingPlaces /\ r.tail \in RingPlaces /\ r.cell \in [RingPlaces -> Nat]
  BY DEF Rings
<1>2. RingCount(r) = Ahead(r.head, r.tail)
  BY DEF RingCount, Ahead
<1> QED BY <1>1, <1>2, AheadIs

LEMMA RingSeqIs ==
  ASSUME NEW r \in Rings
  PROVE  /\ RingSeq(r) \in Seq(Nat) /\ Len(RingSeq(r)) = RingCount(r)
         /\ \A i \in 1 .. RingCount(r) : RingSeq(r)[i] = r.cell[PlaceOf(r.tail, i)]
<1>1. RingCount(r) \in Nat /\ RingCount(r) < RingSize /\ RingSize \in Nat
  BY RingIs, RingAssumption DEF RingPlaces
<1>2. \A i \in 1 .. RingCount(r) : r.cell[PlaceOf(r.tail, i)] \in Nat
  <2> TAKE i \in 1 .. RingCount(r)
  <2>1. i \in 1 .. RingSize
    BY <1>1
  <2> QED BY <2>1, PlaceOfIs, RingIs
<1>3. RingSeq(r) = [i \in 1 .. RingCount(r) |-> r.cell[PlaceOf(r.tail, i)]]
  BY DEF RingSeq, PlaceOf
<1> QED BY <1>1, <1>2, <1>3

LEMMA EmptyRingIs == EmptyRing \in Rings /\ RingSeq(EmptyRing) = << >>
<1>1. RingSize \in Nat \ {0}
  BY RingAssumption
<1>2. EmptyRing \in Rings /\ EmptyRing.head = 0 /\ EmptyRing.tail = 0 /\ 0 \in RingPlaces
  BY <1>1 DEF EmptyRing, Rings, RingPlaces
<1>3. RingCount(EmptyRing) = 0
  BY <1>2, RingIs, AheadIs
<1> QED BY <1>2, <1>3, RingSeqIs

LEMMA FullWhen == ASSUME NEW r \in Rings PROVE RingIsFull(r) <=> RingCount(r) = RingSize - 1
<1> DEFINE h == r.head
           t == r.tail
           k == After(h)
           n == Ahead(h, t)
<1>1. RingSize \in Nat \ {0} /\ h \in 0 .. RingSize - 1 /\ t \in 0 .. RingSize - 1
  BY RingIs, RingAssumption DEF RingPlaces
<1>2. k = (IF h = RingSize - 1 THEN 0 ELSE h + 1)
  BY RingIs, NextPlace
<1>3. n = (IF h < t THEN h + RingSize - t ELSE h - t)
  BY RingIs, AheadIs
<1> HIDE DEF h, t, k, n
<1>4. k = t <=> n = RingSize - 1
  BY <1>1, <1>2, <1>3
<1> QED BY <1>4, RingIs DEF RingIsFull, h, t, k, n

LEMMA EmptyWhen == ASSUME NEW r \in Rings PROVE RingIsEmpty(r) <=> RingCount(r) = 0
<1> DEFINE h == r.head
           t == r.tail
           n == Ahead(h, t)
<1>1. RingSize \in Nat \ {0} /\ h \in 0 .. RingSize - 1 /\ t \in 0 .. RingSize - 1
  BY RingIs, RingAssumption DEF RingPlaces
<1>2. n = (IF h < t THEN h + RingSize - t ELSE h - t)
  BY RingIs, AheadIs
<1> HIDE DEF h, t, n
<1>3. h = t <=> n = 0
  BY <1>1, <1>2
<1> QED BY <1>3, RingIs DEF RingIsEmpty, h, t, n

\* A push appends, and drops what comes once the ring is full.
LEMMA PushAppends ==
  ASSUME NEW r \in Rings, NEW c \in Nat
  PROVE  /\ RingPush(r, c) \in Rings
         /\ RingSeq(RingPush(r, c)) = Pushed(RingSeq(r), c)
<1> DEFINE p == [r EXCEPT !.cell[r.head] = c, !.head = After(@)]
           n == RingCount(r)
<1>1. /\ RingSize \in Nat \ {0} /\ r.head \in RingPlaces /\ r.tail \in RingPlaces
      /\ r.cell \in [RingPlaces -> Nat] /\ n \in RingPlaces /\ n = Ahead(r.head, r.tail)
  BY RingAssumption, RingIs
<1>2. RingSeq(r) \in Seq(Nat) /\ Len(RingSeq(r)) = n
  BY RingSeqIs
<1>3. CASE RingIsFull(r)
  <2>1. RingPush(r, c) = r
    BY <1>3 DEF RingPush
  <2>2. Len(RingSeq(r)) = RingSize - 1
    BY <1>2, <1>3, FullWhen
  <2> QED BY <1>1, <2>1, <2>2 DEF Pushed
<1>4. CASE ~RingIsFull(r)
  <2>1. RingPush(r, c) = p
    BY <1>4 DEF RingPush
  <2>2. /\ p \in Rings /\ p.tail = r.tail /\ p.head = After(r.head)
        /\ p.cell = [r.cell EXCEPT ![r.head] = c]
    BY <1>1, NextPlace DEF Rings
  <2> HIDE DEF p
  <2>3. n # RingSize - 1
    BY <1>4, FullWhen
  <2>4. RingCount(p) = n + 1
    BY <1>1, <2>2, <2>3, RingIs, HeadMoves
  <2> HIDE DEF n
  <2>5. Pushed(RingSeq(r), c) = Append(RingSeq(r), c)
    BY <1>1, <1>2, <2>3 DEF Pushed, RingPlaces
  <2>6. RingSeq(p) \in Seq(Nat) /\ Len(RingSeq(p)) = n + 1
    BY <2>2, <2>4, RingSeqIs
  <2>7. ASSUME NEW i \in 1 .. n + 1 PROVE RingSeq(p)[i] = Append(RingSeq(r), c)[i]
    <3>1. RingSeq(p)[i] = p.cell[PlaceOf(r.tail, i)]
      BY <2>2, <2>4, RingSeqIs
    <3>2. CASE i = n + 1
      <4>1. PlaceOf(r.tail, i) = r.head
        BY <1>1, <2>3, <3>2, HeadMoves
      <4>2. Append(RingSeq(r), c)[i] = c
        BY <1>2, <3>2
      <4> QED BY <1>1, <2>2, <3>1, <4>1, <4>2
    <3>3. CASE i # n + 1
      <4>1. i \in 1 .. n /\ i \in 1 .. RingSize
        BY <1>1, <3>3 DEF RingPlaces
      <4>2. PlaceOf(r.tail, i) # r.head /\ PlaceOf(r.tail, i) \in RingPlaces
        BY <1>1, <2>3, <4>1, HeadMoves, PlaceOfIs
      <4>3. RingSeq(r)[i] = r.cell[PlaceOf(r.tail, i)]
        BY <4>1, RingSeqIs DEF n
      <4>4. Append(RingSeq(r), c)[i] = RingSeq(r)[i]
        BY <1>2, <4>1
      <4> QED BY <1>1, <2>2, <3>1, <4>2, <4>3, <4>4
    <3> QED BY <3>2, <3>3
  <2>8. RingSeq(p) = Append(RingSeq(r), c)
    <3>1. Append(RingSeq(r), c) \in Seq(Nat) /\ Len(Append(RingSeq(r), c)) = n + 1
      BY <1>2
    <3> QED BY <2>6, <2>7, <3>1
  <2> QED BY <2>1, <2>2, <2>5, <2>8
<1> QED BY <1>3, <1>4

\* A pop takes what has been there longest.
LEMMA PopTakes ==
  ASSUME NEW r \in Rings, ~RingIsEmpty(r)
  PROVE  /\ RingPop(r) \in Rings
         /\ RingSeq(r) # << >> /\ RingSeq(RingPop(r)) = Tail(RingSeq(r))
<1> DEFINE p == [r EXCEPT !.cell[r.tail] = 0, !.tail = After(@)]
           n == RingCount(r)
<1>1. /\ RingSize \in Nat \ {0} /\ r.head \in RingPlaces /\ r.tail \in RingPlaces
      /\ r.cell \in [RingPlaces -> Nat] /\ n \in RingPlaces /\ n = Ahead(r.head, r.tail)
  BY RingAssumption, RingIs
<1>2. /\ p \in Rings /\ p.head = r.head /\ p.tail = After(r.tail)
      /\ p.cell = [r.cell EXCEPT ![r.tail] = 0]
  BY <1>1, NextPlace DEF Rings
<1>3. RingPop(r) = p
  BY DEF RingPop
<1>4. n # 0 /\ n \in Nat /\ n < RingSize
  BY <1>1, EmptyWhen DEF RingPlaces
<1>5. RingSeq(r) \in Seq(Nat) /\ Len(RingSeq(r)) = n
  BY RingSeqIs
<1> HIDE DEF p
<1>6. RingCount(p) = n - 1
  BY <1>1, <1>2, <1>4, RingIs, TailMoves
<1> HIDE DEF n
<1>7. RingSeq(p) \in Seq(Nat) /\ Len(RingSeq(p)) = n - 1
  BY <1>2, <1>6, RingSeqIs
<1>8. ASSUME NEW i \in 1 .. n - 1 PROVE RingSeq(p)[i] = RingSeq(r)[i + 1]
  <2>1. RingSeq(p)[i] = p.cell[PlaceOf(After(r.tail), i)]
    BY <1>2, <1>6, RingSeqIs
  <2>2. PlaceOf(After(r.tail), i) = PlaceOf(r.tail, i + 1) /\ PlaceOf(r.tail, i + 1) # r.tail
    BY <1>1, <1>4, TailMoves
  <2>3. i + 1 \in 1 .. n /\ i + 1 \in 1 .. RingSize
    BY <1>1, <1>4
  <2>4. PlaceOf(r.tail, i + 1) \in RingPlaces
    BY <1>1, <2>3, PlaceOfIs
  <2>5. RingSeq(r)[i + 1] = r.cell[PlaceOf(r.tail, i + 1)]
    BY <2>3, RingSeqIs DEF n
  <2> QED BY <1>1, <1>2, <2>1, <2>2, <2>4, <2>5
<1>9. RingSeq(r) # << >>
  BY <1>4, <1>5
<1>10. RingSeq(p) = Tail(RingSeq(r))
  <2>1. Tail(RingSeq(r)) \in Seq(Nat) /\ Len(Tail(RingSeq(r))) = n - 1
    BY <1>5, <1>9
  <2>2. \A i \in 1 .. n - 1 : Tail(RingSeq(r))[i] = RingSeq(r)[i + 1]
    BY <1>5, <1>9
  <2> QED BY <1>7, <1>8, <2>1, <2>2
<1> QED BY <1>2, <1>3, <1>9, <1>10

-----------------------------------------------------------------------------
(***************************************************************************)
(* The serial ports.  A port in use is held by one object or was left      *)
(* behind, never both; an interrupt empties the UART into the ring as far  *)
(* as it has room.                                                         *)
(***************************************************************************)

\* What is heard and what the ring had, in order and as far as it fits.
LEMMA HeardIs ==
  ASSUME NEW u \in Seq(Nat), NEW w \in Seq(Nat), NEW k \in Nat, Len(u) < RingSize,
         k = (IF Len(w) < RingSize - 1 - Len(u) THEN Len(w) ELSE RingSize - 1 - Len(u))
  PROVE  /\ Heard(u, w) \in Seq(Nat) /\ Len(Heard(u, w)) = Len(u) + k
         /\ \A i \in 1 .. Len(u) + k : Heard(u, w)[i] = IF i <= Len(u) THEN u[i] ELSE w[i - Len(u)]
<1>1. RingSize \in Nat /\ Len(u) \in Nat /\ Len(w) \in Nat
  BY RingAssumption
<1>2. u \o w \in Seq(Nat) /\ Len(u \o w) = Len(u) + Len(w)
  OBVIOUS
<1> DEFINE m == IF Len(u \o w) < RingSize - 1 THEN Len(u \o w) ELSE RingSize - 1
<1>3. m = Len(u) + k /\ m \in 0 .. Len(u \o w)
  BY <1>1, <1>2
<1>4. Heard(u, w) = SubSeq(u \o w, 1, m)
  BY DEF Heard
<1> HIDE DEF m
<1>5. /\ Heard(u, w) \in Seq(Nat) /\ Len(Heard(u, w)) = m
      /\ \A i \in 1 .. m : Heard(u, w)[i] = (u \o w)[i]
  <2> DEFINE s == u \o w
  <2>1. s \in Seq(Nat) /\ m \in 0 .. Len(s) /\ Heard(u, w) = SubSeq(s, 1, m)
    BY <1>2, <1>3, <1>4
  <2> HIDE DEF s
  <2>2. SubSeq(s, 1, m) = [i \in 1 .. m |-> s[i]]
    BY <2>1
  <2>3. \A i \in 1 .. m : s[i] \in Nat
    BY <2>1
  <2>4. SubSeq(s, 1, m) \in Seq(Nat) /\ Len(SubSeq(s, 1, m)) = m
    BY <2>1, <2>2, <2>3
  <2> QED BY <2>1, <2>2, <2>4 DEF s
<1>6. \A i \in 1 .. m : (u \o w)[i] = IF i <= Len(u) THEN u[i] ELSE w[i - Len(u)]
  BY <1>1, <1>2, <1>3
<1> QED BY <1>3, <1>5, <1>6

\* The place of the i-th thing that was there is not one of the n next free ones, and the
\* places of the new ones are.
LEMMA FreePlaces ==
  ASSUME NEW h \in RingPlaces, NEW t \in RingPlaces, NEW n \in Nat, Ahead(h, t) + n < RingSize
  PROVE  /\ Ahead((h + n) % RingSize, t) = Ahead(h, t) + n /\ (h + n) % RingSize \in RingPlaces
         /\ \A i \in 1 .. Ahead(h, t) : ~(Ahead(PlaceOf(t, i), h) < n)
         /\ \A i \in Ahead(h, t) + 1 .. Ahead(h, t) + n :
               Ahead(PlaceOf(t, i), h) = i - Ahead(h, t) - 1
<1> DEFINE c == Ahead(h, t)
           k == (h + n) % RingSize
<1>1. RingSize \in Nat \ {0} /\ h \in 0 .. RingSize - 1 /\ t \in 0 .. RingSize - 1
  BY RingAssumption DEF RingPlaces
<1>2. c \in 0 .. RingSize - 1 /\ c = (IF h < t THEN h + RingSize - t ELSE h - t)
  BY AheadIs DEF RingPlaces
<1>3. c + n < RingSize
  OBVIOUS
<1> HIDE DEF c
<1>4. k \in RingPlaces /\ k = (IF h + n < RingSize THEN h + n ELSE h + n - RingSize)
  <2>1. CASE h + n < RingSize
    BY <1>1, <2>1 DEF RingPlaces
  <2>2. CASE h + n >= RingSize
    BY <1>1, <1>2, <1>3, <2>2 DEF RingPlaces
  <2> QED BY <1>1, <2>1, <2>2
<1> HIDE DEF k
<1>5. Ahead(k, t) = (IF k < t THEN k + RingSize - t ELSE k - t) /\ k \in 0 .. RingSize - 1
  BY <1>4, AheadIs DEF RingPlaces
<1>6. Ahead(k, t) = c + n
  BY <1>1, <1>2, <1>3, <1>4, <1>5
<1>7. ASSUME NEW i \in 1 .. c + n
      PROVE  Ahead(PlaceOf(t, i), h) = IF i <= c THEN RingSize - c + i - 1 ELSE i - c - 1
  <2> DEFINE q == PlaceOf(t, i)
             a == Ahead(q, h)
  <2>1. i \in 1 .. RingSize
    BY <1>1, <1>2, <1>3
  <2>2. q \in RingPlaces /\ q = (IF t + i - 1 < RingSize THEN t + i - 1 ELSE t + i - 1 - RingSize)
    BY <2>1, PlaceOfIs
  <2>3. a = (IF q < h THEN q + RingSize - h ELSE q - h)
    BY <2>2, AheadIs
  <2>4. q \in 0 .. RingSize - 1
    BY <2>2 DEF RingPlaces
  <2> HIDE DEF q, a
  <2>5. a = IF i <= c THEN RingSize - c + i - 1 ELSE i - c - 1
    BY <1>1, <1>2, <1>3, <2>2, <2>3, <2>4
  <2> QED BY <2>5 DEF q, a
<1>8. \A i \in 1 .. c : ~(Ahead(PlaceOf(t, i), h) < n)
  <2> SUFFICES ASSUME NEW i \in 1 .. c PROVE ~(Ahead(PlaceOf(t, i), h) < n)
    OBVIOUS
  <2>1. i \in 1 .. c + n /\ i <= c
    BY <1>2
  <2>2. Ahead(PlaceOf(t, i), h) = RingSize - c + i - 1
    BY <1>7, <2>1
  <2> QED BY <1>1, <1>2, <1>3, <2>2
<1>9. \A i \in c + 1 .. c + n : Ahead(PlaceOf(t, i), h) = i - c - 1
  <2> SUFFICES ASSUME NEW i \in c + 1 .. c + n PROVE Ahead(PlaceOf(t, i), h) = i - c - 1
    OBVIOUS
  <2>1. i \in 1 .. c + n /\ ~(i <= c)
    BY <1>2
  <2> QED BY <1>7, <2>1
<1> QED BY <1>4, <1>6, <1>8, <1>9 DEF c, k

LEMMA DrainedHears ==
  ASSUME NEW r \in Rings, NEW w \in Seq(Nat)
  PROVE  /\ Drained(r, w) \in Rings
         /\ RingSeq(Drained(r, w)) = Heard(RingSeq(r), w)
<1> DEFINE c == RingCount(r)
           n == IF Len(w) < RingSize - 1 - c THEN Len(w) ELSE RingSize - 1 - c
           cells == [i \in RingPlaces |-> IF Ahead(i, r.head) < n THEN w[Ahead(i, r.head) + 1] ELSE r.cell[i]]
           k == (r.head + n) % RingSize
           p == Drained(r, w)
           u == RingSeq(r)
<1>1. /\ RingSize \in Nat \ {0} /\ r.head \in RingPlaces /\ r.tail \in RingPlaces /\ r.cell \in [RingPlaces -> Nat]
      /\ c = Ahead(r.head, r.tail) /\ c \in RingPlaces /\ c \in Nat /\ c < RingSize
  BY RingAssumption, RingIs DEF RingPlaces
<1>2. n \in Nat /\ c + n < RingSize /\ n <= Len(w) /\ Len(w) \in Nat
  BY <1>1
<1>3. p = [r EXCEPT !.cell = cells, !.head = k]
  BY DEF Drained, Ahead, RingPlaces
<1>4. u \in Seq(Nat) /\ Len(u) = c
  BY RingSeqIs
<1>5. k \in RingPlaces /\ Ahead(k, r.tail) = c + n
  BY <1>1, <1>2, FreePlaces
<1>6. cells \in [RingPlaces -> Nat]
  <2> SUFFICES ASSUME NEW i \in RingPlaces
               PROVE  (IF Ahead(i, r.head) < n THEN w[Ahead(i, r.head) + 1] ELSE r.cell[i]) \in Nat
    OBVIOUS
  <2>1. Ahead(i, r.head) \in Nat
    <3>1. Ahead(i, r.head) \in RingPlaces
      BY <1>1, AheadIs
    <3> QED BY <1>1, <3>1 DEF RingPlaces
  <2> HIDE DEF n
  <2>2. CASE Ahead(i, r.head) < n
    <3>1. Ahead(i, r.head) + 1 \in 1 .. Len(w)
      BY <1>2, <2>1, <2>2
    <3> QED BY <2>2, <3>1
  <2> QED BY <1>1, <2>2
<1> HIDE DEF cells, k
<1>7. p \in Rings /\ p.cell = cells /\ p.head = k /\ p.tail = r.tail
  BY <1>1, <1>3, <1>5, <1>6 DEF Rings
<1> HIDE DEF p
<1>8. RingCount(p) = c + n
  BY <1>5, <1>7, RingIs
<1>9. RingSeq(p) \in Seq(Nat) /\ Len(RingSeq(p)) = c + n
  BY <1>7, <1>8, RingSeqIs
<1>10. /\ Heard(u, w) \in Seq(Nat) /\ Len(Heard(u, w)) = c + n
       /\ \A i \in 1 .. c + n : Heard(u, w)[i] = IF i <= c THEN u[i] ELSE w[i - c]
  <2>1. n = (IF Len(w) < RingSize - 1 - Len(u) THEN Len(w) ELSE RingSize - 1 - Len(u))
    BY <1>4
  <2>2. n \in Nat /\ Len(u) < RingSize /\ u \in Seq(Nat)
    BY <1>1, <1>2, <1>4
  <2> HIDE DEF n, u, c
  <2>3. /\ Heard(u, w) \in Seq(Nat) /\ Len(Heard(u, w)) = Len(u) + n
        /\ \A i \in 1 .. Len(u) + n : Heard(u, w)[i] = IF i <= Len(u) THEN u[i] ELSE w[i - Len(u)]
    BY <2>1, <2>2, HeardIs
  <2> QED BY <1>4, <2>3
<1>11. ASSUME NEW i \in 1 .. c + n PROVE RingSeq(p)[i] = Heard(u, w)[i]
  <2> DEFINE q == PlaceOf(r.tail, i)
  <2>1. RingSeq(p)[i] = cells[q]
    BY <1>7, <1>8, RingSeqIs
  <2>2. q \in RingPlaces
    <3>1. i \in 1 .. RingSize
      BY <1>1, <1>2
    <3> QED BY <1>1, <3>1, PlaceOfIs
  <2>3. cells[q] = IF Ahead(q, r.head) < n THEN w[Ahead(q, r.head) + 1] ELSE r.cell[q]
    BY <2>2 DEF cells
  <2>4. CASE i <= c
    <3>1. i \in 1 .. c
      BY <1>1, <2>4
    <3>2. ~(Ahead(q, r.head) < n)
      BY <1>1, <1>2, <3>1, FreePlaces
    <3>3. u[i] = r.cell[q]
      BY <3>1, RingSeqIs
    <3> QED BY <1>10, <2>1, <2>3, <2>4, <3>2, <3>3
  <2>5. CASE ~(i <= c)
    <3>1. i \in c + 1 .. c + n
      BY <1>1, <1>2, <2>5
    <3>2. Ahead(q, r.head) = i - c - 1
      BY <1>1, <1>2, <3>1, FreePlaces
    <3> HIDE DEF n, q, c
    <3>3. Ahead(q, r.head) < n /\ Ahead(q, r.head) + 1 = i - c
      BY <1>1, <1>2, <3>1, <3>2
    <3>4. cells[q] = w[i - c]
      BY <2>3, <3>3
    <3> QED BY <1>10, <2>1, <2>5, <3>4
  <2> QED BY <2>4, <2>5
<1>12. RingSeq(p) = Heard(u, w)
  <2> HIDE DEF n, c, u
  <2> QED BY <1>9, <1>10, <1>11
<1> QED BY <1>7, <1>12 DEF p, u

PortStates == [in_use : BOOLEAN, known : BOOLEAN, ier : BOOLEAN, fifo : Seq(Nat), rx : Rings]
Objects == [port : Ports, active : BOOLEAN, handle : Ports \cup {NoHandle, 0 - 2}, reopening : BOOLEAN]

SerialTypes ==
    /\ port \in [Ports -> PortStates] /\ said \in [Ports -> Seq(Nat)]
    /\ object \in [Apps -> Objects]
    /\ orphaned \subseteq Ports

Has(a, p) == object[a].active /\ object[a].handle = p /\ ~object[a].reopening

\* Whose a port is.
PortOwned(p) ==
    /\ port[p].in_use <=> p \in orphaned \/ \E a \in Apps : Has(a, p)
    /\ \A a \in Apps : Has(a, p) => p \notin orphaned
    /\ \A a, b \in Apps : Has(a, p) /\ Has(b, p) => a = b

Hears(p) == port[p].in_use => port[p].ier /\ (Line(p) \in unmasked \/ p \in cut)

InOrder(p) == RingSeq(port[p].rx) = said[p]

SerialInv == SerialTypes /\ \A p \in Ports : PortOwned(p) /\ Hears(p) /\ InOrder(p)

LEMMA PortNumbers == /\ 1 \in Ports /\ \A p \in Ports : p \in Nat /\ p > 0 /\ p # NoHandle /\ p # 0 - 2
                     /\ ~(NoHandle > 0) /\ ~(0 - 2 > 0)
BY SerialAssumption DEF NoHandle

\* A handle above 0 is a port's.
LEMMA HeldHandle ==
  ASSUME SerialTypes, NEW a \in Apps, object[a].handle > 0
  PROVE  object[a].handle \in Ports
BY PortNumbers DEF SerialTypes, Objects

\* Nobody's hand is on a port but through their object.
LEMMA SameOwners ==
  ASSUME NEW p \in Ports, PortOwned(p), port'[p].in_use = port[p].in_use,
         UNCHANGED <<object, orphaned>>
  PROVE  PortOwned(p)'
<1>1. \A a : Has(a, p)' <=> Has(a, p)
  BY DEF Has
<1> QED BY <1>1 DEF PortOwned

LEMMA ByteArrivesStep ==
  ASSUME SerialInv, NEW p \in Ports, NEW c \in Bytes(p), ByteArrives(p, c)
  PROVE  SerialInv'
<1>1. /\ port' = [port EXCEPT ![p].fifo = Append(@, c)]
      /\ UNCHANGED <<unmasked, object, said, orphaned, cut>>
  BY DEF ByteArrives
<1>2. c \in Nat
  BY DEF Bytes
<1>3. port \in [Ports -> PortStates]
  BY DEF SerialInv, SerialTypes
<1>4. Append(port[p].fifo, c) \in Seq(Nat)
  BY <1>2, <1>3 DEF PortStates
<1>5. port' \in [Ports -> PortStates]
  BY <1>1, <1>3, <1>4 DEF PortStates
<1>6. ASSUME NEW q \in Ports
      PROVE  /\ port'[q].in_use = port[q].in_use /\ port'[q].ier = port[q].ier
             /\ port'[q].rx = port[q].rx
  BY <1>1, <1>3 DEF PortStates
<1>7. \A q \in Ports : PortOwned(q)' /\ Hears(q)' /\ InOrder(q)'
  <2> SUFFICES ASSUME NEW q \in Ports PROVE PortOwned(q)' /\ Hears(q)' /\ InOrder(q)'
    OBVIOUS
  <2>1. PortOwned(q)'
    BY <1>1, <1>6, SameOwners DEF SerialInv
  <2>2. Hears(q)'
    BY <1>1, <1>6 DEF SerialInv, Hears
  <2>3. InOrder(q)'
    <3>1. RingSeq(port[q].rx) = said[q]
      BY DEF SerialInv, InOrder
    <3>2. port'[q].rx = port[q].rx /\ said'[q] = said[q]
      BY <1>1, <1>6
    <3>3. RingSeq(port'[q].rx) = said'[q]
      BY <3>1, <3>2
    <3> QED BY <3>3 DEF InOrder, RingSeq, RingCount
  <2> QED BY <2>1, <2>2, <2>3
<1> QED BY <1>1, <1>5, <1>7 DEF SerialInv, SerialTypes

LEMMA InterruptStep == ASSUME SerialInv, NEW l, Interrupt(l) PROVE SerialInv'
<1>0. UNCHANGED <<unmasked, object, orphaned, cut>>
  BY DEF Interrupt
<1>1. port \in [Ports -> PortStates] /\ 1 \in Ports /\ said \in [Ports -> Seq(Nat)]
  BY PortNumbers DEF SerialInv, SerialTypes
<1> DEFINE r == Drained(port[1].rx, port[1].fifo)
           h == Heard(said[1], port[1].fifo)
<1>2. CASE UNCHANGED <<port, said>>
  <2>1. \A q \in Ports : PortOwned(q)' /\ Hears(q)' /\ InOrder(q)'
    BY <1>0, <1>2, SameOwners DEF SerialInv, Hears, InOrder, RingSeq, RingCount
  <2> QED BY <1>0, <1>2, <2>1 DEF SerialInv, SerialTypes
<1>3. CASE ~UNCHANGED <<port, said>>
  <2>1. /\ port' = [port EXCEPT ![1].rx = r, ![1].fifo = << >>]
        /\ said' = [said EXCEPT ![1] = h]
    BY <1>3 DEF Interrupt
  <2>2. port[1].rx \in Rings /\ port[1].fifo \in Seq(Nat) /\ RingSeq(port[1].rx) = said[1]
    BY <1>1 DEF PortStates, SerialInv, InOrder
  <2>3. r \in Rings /\ RingSeq(r) = h /\ h \in Seq(Nat)
    <3>1. r \in Rings /\ RingSeq(r) = Heard(RingSeq(port[1].rx), port[1].fifo)
      BY <2>2, DrainedHears
    <3>2. RingSeq(r) = h
      BY <2>2, <3>1
    <3> HIDE DEF r, h
    <3>3. RingSeq(r) \in Seq(Nat)
      BY <3>1, RingSeqIs
    <3> QED BY <3>1, <3>2, <3>3
  <2> HIDE DEF r, h
  <2>4. port' \in [Ports -> PortStates] /\ said' \in [Ports -> Seq(Nat)]
    <3>1. << >> \in Seq(Nat)
      OBVIOUS
    <3>2. port' \in [Ports -> PortStates]
      BY <1>1, <2>1, <2>3, <3>1 DEF PortStates
    <3> QED BY <1>1, <2>1, <2>3, <3>2
  <2>5. ASSUME NEW q \in Ports
        PROVE  /\ port'[q].in_use = port[q].in_use /\ port'[q].ier = port[q].ier
               /\ port'[q].rx = (IF q = 1 THEN r ELSE port[q].rx)
               /\ said'[q] = (IF q = 1 THEN h ELSE said[q])
    BY <1>1, <2>1 DEF PortStates
  <2>6. ASSUME NEW q \in Ports PROVE PortOwned(q)' /\ Hears(q)' /\ InOrder(q)'
    <3>1. PortOwned(q)'
      BY <1>0, <2>5, SameOwners DEF SerialInv
    <3>2. Hears(q)'
      BY <1>0, <2>5 DEF SerialInv, Hears
    <3>3. RingSeq(port'[q].rx) = said'[q]
      BY <2>3, <2>5 DEF SerialInv, InOrder
    <3>4. InOrder(q)'
      BY <3>3 DEF InOrder, RingSeq, RingCount
    <3> QED BY <3>1, <3>2, <3>4
  <2> QED BY <1>0, <2>4, <2>6 DEF SerialInv, SerialTypes
<1> QED BY <1>2, <1>3

\* What an open does to the ports.
LEMMA OpenPortKeeps ==
  ASSUME SerialInv, NEW p \in Ports, OpenPort(p)
  PROVE  /\ port' \in [Ports -> PortStates] /\ said' \in [Ports -> Seq(Nat)]
         /\ \A q \in Ports : port'[q].in_use = (q = p \/ port[q].in_use)
         /\ \A q \in Ports : Hears(q)' /\ InOrder(q)'
<1> DEFINE n == [in_use |-> TRUE, known |-> TRUE, ier |-> TRUE, fifo |-> << >>, rx |-> EmptyRing]
<1>1. port' = [port EXCEPT ![p] = n] /\ said' = [said EXCEPT ![p] = << >>]
      /\ unmasked' = unmasked \cup {Line(p)} /\ cut' = {q \in cut : Line(q) # Line(p)}
  BY DEF OpenPort
<1>2. port \in [Ports -> PortStates] /\ said \in [Ports -> Seq(Nat)]
  BY DEF SerialInv, SerialTypes
<1>3. n \in PortStates /\ n.in_use = TRUE /\ n.ier = TRUE /\ n.rx = EmptyRing /\ << >> \in Seq(Nat)
  BY EmptyRingIs DEF PortStates
<1> HIDE DEF n
<1>4. port' \in [Ports -> PortStates] /\ said' \in [Ports -> Seq(Nat)]
  BY <1>1, <1>2, <1>3
<1>5. ASSUME NEW q \in Ports
      PROVE  /\ q = p => port'[q] = n /\ said'[q] = << >>
             /\ q # p => port'[q] = port[q] /\ said'[q] = said[q]
  BY <1>1, <1>2
<1>6. ASSUME NEW q \in Ports PROVE port'[q].in_use = (q = p \/ port[q].in_use)
  <2>1. port[q].in_use \in BOOLEAN
    BY <1>2 DEF PortStates
  <2>2. CASE q = p
    BY <1>3, <1>5, <2>2
  <2>3. CASE q # p
    BY <1>5, <2>1, <2>3
  <2> QED BY <2>2, <2>3
<1>7. ASSUME NEW q \in Ports PROVE Hears(q)'
  <2>1. CASE q = p
    BY <1>1, <1>3, <1>5, <2>1 DEF Hears
  <2>2. CASE q # p
    BY <1>1, <1>5, <2>2 DEF SerialInv, Hears
  <2> QED BY <2>1, <2>2
<1>8. ASSUME NEW q \in Ports PROVE InOrder(q)'
  <2>1. RingSeq(port'[q].rx) = said'[q]
    BY <1>3, <1>5, EmptyRingIs DEF SerialInv, InOrder
  <2> QED BY <2>1 DEF InOrder, RingSeq, RingCount
<1> QED BY <1>4, <1>6, <1>7, <1>8

LEMMA ClosePortKeeps ==
  ASSUME SerialInv, NEW p \in Ports, ClosePort(p)
  PROVE  /\ port' \in [Ports -> PortStates] /\ said' \in [Ports -> Seq(Nat)]
         /\ \A q \in Ports : port'[q].in_use = (q # p /\ port[q].in_use)
         /\ \A q \in Ports : Hears(q)' /\ InOrder(q)'
<1>1. /\ port' = [port EXCEPT ![p].in_use = FALSE, ![p].ier = FALSE, ![p].rx = EmptyRing]
      /\ said' = [said EXCEPT ![p] = << >>] /\ unmasked' = unmasked \ {Line(p)}
      /\ cut' = (cut \ {p}) \cup {q \in Ports \ {p} : Line(q) = Line(p) /\ port[q].in_use}
  BY DEF ClosePort
<1>2. port \in [Ports -> PortStates] /\ said \in [Ports -> Seq(Nat)]
  BY DEF SerialInv, SerialTypes
<1>3. EmptyRing \in Rings /\ << >> \in Seq(Nat)
  BY EmptyRingIs
<1>4. port' \in [Ports -> PortStates] /\ said' \in [Ports -> Seq(Nat)]
  <2>1. port' \in [Ports -> PortStates]
    BY <1>1, <1>2, <1>3 DEF PortStates
  <2> QED BY <1>1, <1>2, <1>3, <2>1
<1>5. ASSUME NEW q \in Ports
      PROVE  /\ q = p => port'[q].in_use = FALSE /\ port'[q].rx = EmptyRing /\ said'[q] = << >>
             /\ q # p => port'[q] = port[q] /\ said'[q] = said[q]
  BY <1>1, <1>2 DEF PortStates
<1>6. ASSUME NEW q \in Ports PROVE port'[q].in_use = (q # p /\ port[q].in_use)
  <2>1. port[q].in_use \in BOOLEAN
    BY <1>2 DEF PortStates
  <2>2. CASE q = p
    BY <1>5, <2>2
  <2>3. CASE q # p
    BY <1>5, <2>1, <2>3
  <2> QED BY <2>2, <2>3
<1>7. ASSUME NEW q \in Ports PROVE Hears(q)'
  <2>1. CASE q = p
    BY <1>5, <2>1 DEF Hears
  <2>2. CASE q # p
    BY <1>1, <1>5, <2>2 DEF SerialInv, Hears
  <2> QED BY <2>1, <2>2
<1>8. ASSUME NEW q \in Ports PROVE InOrder(q)'
  <2>1. RingSeq(port'[q].rx) = said'[q]
    BY <1>5, EmptyRingIs DEF SerialInv, InOrder
  <2> QED BY <2>1 DEF InOrder, RingSeq, RingCount
<1> QED BY <1>4, <1>6, <1>7, <1>8

\* The owners after an object took a port, let it go, or is known to have none.
LEMMA Takes ==
  ASSUME SerialInv, NEW a \in Apps, NEW p \in Ports, NEW o \in Objects,
         object' = [object EXCEPT ![a] = o], ~port[p].in_use, orphaned' = orphaned,
         \A q \in Ports : port'[q].in_use = (q = p \/ port[q].in_use),
         \A q \in Ports : ~Has(a, q),
         o.active, o.handle = p, ~o.reopening
  PROVE  /\ object' \in [Apps -> Objects] /\ \A q \in Ports : PortOwned(q)'
<1>1. object \in [Apps -> Objects]
  BY DEF SerialInv, SerialTypes
<1>2. object' \in [Apps -> Objects]
  BY <1>1
<1>3. ASSUME NEW b \in Apps, NEW q \in Ports
      PROVE  Has(b, q)' <=> (IF b = a THEN q = p ELSE Has(b, q))
  <2>1. object'[b] = (IF b = a THEN o ELSE object[b])
    BY <1>1
  <2> QED BY <2>1 DEF Has
<1>4. ASSUME NEW q \in Ports PROVE PortOwned(q)'
  <2>1. PortOwned(q)
    BY DEF SerialInv
  <2>2. CASE q = p
    <3>1. q \notin orphaned /\ \A b \in Apps : ~Has(b, q)
      BY <2>1, <2>2 DEF PortOwned
    <3> QED BY <1>3, <2>2, <3>1 DEF PortOwned
  <2>3. CASE q # p
    <3>1. port'[q].in_use <=> port[q].in_use
      BY <2>3
    <3>2. \A b \in Apps : Has(b, q)' <=> Has(b, q)
      BY <1>3, <2>3
    <3> QED BY <2>1, <3>1, <3>2 DEF PortOwned
  <2> QED BY <2>2, <2>3
<1> QED BY <1>2, <1>4

LEMMA LetsGo ==
  ASSUME SerialInv, NEW a \in Apps, NEW p \in Ports, NEW o \in Objects,
         object' = [object EXCEPT ![a] = o], Has(a, p), orphaned' = orphaned,
         \A q \in Ports : port'[q].in_use = (q # p /\ port[q].in_use),
         ~o.active \/ o.reopening
  PROVE  /\ object' \in [Apps -> Objects] /\ \A q \in Ports : PortOwned(q)'
<1>1. object \in [Apps -> Objects]
  BY DEF SerialInv, SerialTypes
<1>2. object' \in [Apps -> Objects]
  BY <1>1
<1>3. ASSUME NEW b \in Apps, NEW q \in Ports PROVE Has(b, q)' <=> (b # a /\ Has(b, q))
  <2>1. object'[b] = (IF b = a THEN o ELSE object[b])
    BY <1>1
  <2> QED BY <2>1 DEF Has
<1>4. ASSUME NEW q \in Ports PROVE PortOwned(q)'
  <2>1. PortOwned(q)
    BY DEF SerialInv
  <2>2. CASE q = p
    <3>1. q \notin orphaned /\ \A b \in Apps : Has(b, q) => b = a
      BY <2>1, <2>2 DEF PortOwned
    <3>2. \A b \in Apps : ~Has(b, q)'
      BY <1>3, <3>1
    <3> QED BY <2>2, <3>1, <3>2 DEF PortOwned
  <2>3. CASE q # p
    <3>1. port'[q].in_use <=> port[q].in_use
      BY <2>3
    <3>2. ~Has(a, q)
      BY <2>3 DEF Has
    <3>3. \A b \in Apps : Has(b, q)' <=> Has(b, q)
      BY <1>3, <3>2
    <3> QED BY <2>1, <3>1, <3>3 DEF PortOwned
  <2> QED BY <2>2, <2>3
<1> QED BY <1>2, <1>4

LEMMA HasNone ==
  ASSUME SerialInv, NEW a \in Apps, NEW o \in Objects, object' = [object EXCEPT ![a] = o],
         \A q \in Ports : port'[q].in_use = port[q].in_use,
         orphaned' = orphaned \cup {q \in Ports : Has(a, q)},
         \A q \in Ports : ~(o.active /\ o.handle = q /\ ~o.reopening)
  PROVE  /\ object' \in [Apps -> Objects] /\ \A q \in Ports : PortOwned(q)'
<1>1. object \in [Apps -> Objects]
  BY DEF SerialInv, SerialTypes
<1>2. object' \in [Apps -> Objects]
  BY <1>1
<1>3. ASSUME NEW b \in Apps, NEW q \in Ports PROVE Has(b, q)' <=> (b # a /\ Has(b, q))
  <2>1. object'[b] = (IF b = a THEN o ELSE object[b])
    BY <1>1
  <2> QED BY <2>1 DEF Has
<1>4. ASSUME NEW q \in Ports PROVE PortOwned(q)'
  <2>1. PortOwned(q)
    BY DEF SerialInv
  <2>2. q \in orphaned' <=> q \in orphaned \/ Has(a, q)
    OBVIOUS
  <2>3. port'[q].in_use <=> q \in orphaned' \/ \E b \in Apps : Has(b, q)'
    BY <1>3, <2>1, <2>2 DEF PortOwned
  <2>4. \A b \in Apps : Has(b, q)' => q \notin orphaned'
    BY <1>3, <2>1, <2>2 DEF PortOwned
  <2>5. \A b, c \in Apps : Has(b, q)' /\ Has(c, q)' => b = c
    BY <1>3, <2>1 DEF PortOwned
  <2> QED BY <2>3, <2>4, <2>5 DEF PortOwned
<1> QED BY <1>2, <1>4

\* An object that has no port tries to open its own.
LEMMA TriesOpenStep ==
  ASSUME SerialInv, NEW a \in Apps, NEW o \in Objects, TriesOpen(a, o), ~o.reopening,
         o.active => object[a].reopening, object[a].active => object[a].reopening,
         orphaned' = orphaned
  PROVE  SerialInv'
<1> DEFINE p == o.port
<1>1. p \in Ports
  BY DEF Objects
<1>2. \A q \in Ports : ~Has(a, q)
  BY DEF Has
<1>3. CASE port[p].in_use
  <2> DEFINE n == [o EXCEPT !.handle = 0 - 2]
  <2>1. object' = [object EXCEPT ![a] = n] /\ UNCHANGED <<port, unmasked, said, cut>>
    BY <1>3 DEF TriesOpen, KeepPorts
  <2>2. n \in Objects /\ n.handle = 0 - 2
    BY DEF Objects
  <2> HIDE DEF n
  <2>3. \A q \in Ports : ~(n.active /\ n.handle = q /\ ~n.reopening)
    BY <2>2, PortNumbers
  <2>4. orphaned' = orphaned \cup {q \in Ports : Has(a, q)}
    BY <1>2
  <2>5. object' \in [Apps -> Objects] /\ \A q \in Ports : PortOwned(q)'
    BY <2>1, <2>2, <2>3, <2>4, HasNone
  <2>6. \A q \in Ports : Hears(q)' /\ InOrder(q)'
    BY <2>1 DEF SerialInv, Hears, InOrder, RingSeq, RingCount
  <2> QED BY <2>1, <2>5, <2>6 DEF SerialInv, SerialTypes
<1>4. CASE ~port[p].in_use
  <2> DEFINE n == [o EXCEPT !.handle = p, !.active = TRUE]
  <2>1. object' = [object EXCEPT ![a] = n] /\ OpenPort(p)
    BY <1>4 DEF TriesOpen
  <2>2. n \in Objects /\ n.handle = p /\ n.active /\ ~n.reopening
    BY <1>1 DEF Objects
  <2> HIDE DEF n, p
  <2>3. /\ port' \in [Ports -> PortStates] /\ said' \in [Ports -> Seq(Nat)]
        /\ \A q \in Ports : port'[q].in_use = (q = p \/ port[q].in_use)
        /\ \A q \in Ports : Hears(q)' /\ InOrder(q)'
    BY <1>1, <2>1, OpenPortKeeps
  <2>4. object' \in [Apps -> Objects] /\ \A q \in Ports : PortOwned(q)'
    BY <1>1, <1>2, <1>4, <2>1, <2>2, <2>3, Takes
  <2> QED BY <2>3, <2>4 DEF SerialInv, SerialTypes
<1> QED BY <1>3, <1>4

LEMMA SerialOpenStep == ASSUME SerialInv, NEW a \in Apps, SerialOpen(a) PROVE SerialInv'
<1>1. TriesOpen(a, object[a]) /\ ~object[a].active /\ ~object[a].reopening /\ orphaned' = orphaned
  BY DEF SerialOpen, Speaks
<1>2. object[a] \in Objects
  BY DEF SerialInv, SerialTypes
<1> QED BY <1>1, <1>2, TriesOpenStep

LEMMA SetBaudOpensStep == ASSUME SerialInv, NEW a \in Apps, SetBaudOpens(a) PROVE SerialInv'
<1> DEFINE o == [object[a] EXCEPT !.reopening = FALSE]
<1>1. TriesOpen(a, o) /\ object[a].reopening /\ orphaned' = orphaned
  BY DEF SetBaudOpens
<1>2. object[a] \in Objects
  BY DEF SerialInv, SerialTypes
<1>3. o \in Objects /\ ~o.reopening
  BY <1>2 DEF Objects
<1> HIDE DEF o
<1> QED BY <1>1, <1>3, TriesOpenStep

LEMMA SerialCloseStep ==
  ASSUME SerialInv, NEW a \in Apps, SerialClose(a) \/ SetBaudCloses(a) PROVE SerialInv'
<1> DEFINE p == object[a].handle
           n == IF SerialClose(a) THEN [object[a] EXCEPT !.active = FALSE, !.handle = NoHandle]
                                  ELSE [object[a] EXCEPT !.reopening = TRUE]
<1>1. object[a] \in Objects
  BY DEF SerialInv, SerialTypes
<1>2. object[a].active /\ object[a].handle > 0 /\ ~object[a].reopening /\ orphaned' = orphaned /\ ClosePort(p)
  BY DEF SerialClose, SetBaudCloses, Speaks
<1>3. p \in Ports /\ Has(a, p)
  BY <1>2, HeldHandle DEF SerialInv, Has
<1>4. object' = [object EXCEPT ![a] = n]
  BY DEF SerialClose, SetBaudCloses
<1>5. n \in Objects /\ (~n.active \/ n.reopening)
  BY <1>1 DEF Objects
<1> HIDE DEF n, p
<1>6. /\ port' \in [Ports -> PortStates] /\ said' \in [Ports -> Seq(Nat)]
      /\ \A q \in Ports : port'[q].in_use = (q # p /\ port[q].in_use)
      /\ \A q \in Ports : Hears(q)' /\ InOrder(q)'
  BY <1>2, <1>3, ClosePortKeeps
<1>7. object' \in [Apps -> Objects] /\ \A q \in Ports : PortOwned(q)'
  BY <1>2, <1>3, <1>4, <1>5, <1>6, LetsGo
<1> QED BY <1>2, <1>6, <1>7 DEF SerialInv, SerialTypes

LEMMA SerialReadStep == ASSUME SerialInv, NEW a \in Apps, SerialRead(a) PROVE SerialInv'
<1> DEFINE p == object[a].handle
           r == RingPop(port[p].rx)
<1>1. /\ object[a].handle > 0 /\ ~RingIsEmpty(port[p].rx)
      /\ port' = [port EXCEPT ![p].rx = r] /\ said' = [said EXCEPT ![p] = Tail(@)]
      /\ UNCHANGED <<unmasked, object, orphaned, cut>>
  BY DEF SerialRead
<1>2. p \in Ports /\ port \in [Ports -> PortStates] /\ said \in [Ports -> Seq(Nat)]
  BY <1>1, HeldHandle DEF SerialInv, SerialTypes
<1>3. port[p].rx \in Rings /\ RingSeq(port[p].rx) = said[p]
  BY <1>2 DEF PortStates, SerialInv, InOrder
<1>4. r \in Rings /\ RingSeq(r) = Tail(said[p]) /\ Tail(said[p]) \in Seq(Nat)
  <2>1. r \in Rings /\ RingSeq(r) = Tail(said[p])
    BY <1>1, <1>3, PopTakes
  <2> QED BY <2>1, RingSeqIs
<1> HIDE DEF r, p
<1>5. port' \in [Ports -> PortStates] /\ said' \in [Ports -> Seq(Nat)]
  <2>1. port' \in [Ports -> PortStates]
    BY <1>1, <1>2, <1>4 DEF PortStates
  <2> QED BY <1>1, <1>2, <1>4, <2>1
<1>6. ASSUME NEW q \in Ports
      PROVE  /\ port'[q].in_use = port[q].in_use /\ port'[q].ier = port[q].ier
             /\ port'[q].rx = (IF q = p THEN r ELSE port[q].rx)
             /\ said'[q] = (IF q = p THEN Tail(said[p]) ELSE said[q])
  BY <1>1, <1>2 DEF PortStates
<1>7. ASSUME NEW q \in Ports PROVE PortOwned(q)' /\ Hears(q)' /\ InOrder(q)'
  <2>1. PortOwned(q)'
    BY <1>1, <1>6, SameOwners DEF SerialInv
  <2>2. Hears(q)'
    BY <1>1, <1>6 DEF SerialInv, Hears
  <2>3. RingSeq(port'[q].rx) = said'[q]
    BY <1>4, <1>6 DEF SerialInv, InOrder
  <2>4. InOrder(q)'
    BY <2>3 DEF InOrder, RingSeq, RingCount
  <2> QED BY <2>1, <2>2, <2>4
<1> QED BY <1>1, <1>5, <1>7 DEF SerialInv, SerialTypes

LEMMA ProgramEndsStep == ASSUME SerialInv, NEW a \in Apps, ProgramEnds(a) PROVE SerialInv'
<1>1. PICK p \in Ports : object' = [object EXCEPT ![a] = NewObject(p)]
  BY DEF ProgramEnds
<1>2. /\ UNCHANGED <<port, unmasked, said, cut>>
      /\ orphaned' = orphaned \cup {q \in Ports : Has(a, q)}
  BY DEF ProgramEnds, KeepPorts, Has
<1>3. NewObject(p) \in Objects /\ ~NewObject(p).active
  BY DEF NewObject, Objects
<1>4. object' \in [Apps -> Objects] /\ \A q \in Ports : PortOwned(q)'
  BY <1>1, <1>2, <1>3, HasNone
<1>5. \A q \in Ports : Hears(q)' /\ InOrder(q)'
  BY <1>2 DEF SerialInv, Hears, InOrder, RingSeq, RingCount
<1> QED BY <1>2, <1>4, <1>5 DEF SerialInv, SerialTypes

LEMMA SerialStarts == SerialInit => SerialInv
<1> SUFFICES ASSUME SerialInit PROVE SerialInv
  OBVIOUS
<1> DEFINE n == [in_use |-> FALSE, known |-> FALSE, ier |-> FALSE, fifo |-> << >>, rx |-> EmptyRing]
<1>1. n \in PortStates /\ n.in_use = FALSE /\ n.rx = EmptyRing
  BY EmptyRingIs DEF PortStates
<1>2. port = [p \in Ports |-> n] /\ said = [p \in Ports |-> << >>] /\ orphaned = {}
      /\ object \in [Apps -> {NewObject(p) : p \in Ports}]
  BY DEF SerialInit
<1> HIDE DEF n
<1>3. \A p \in Ports : NewObject(p) \in Objects /\ ~NewObject(p).active
  BY DEF NewObject, Objects
<1>4. \A a \in Apps : object[a] \in Objects /\ ~object[a].active
  BY <1>2, <1>3
<1>5. SerialTypes
  BY <1>1, <1>2, <1>4 DEF SerialTypes
<1>6. \A p \in Ports : PortOwned(p) /\ Hears(p) /\ InOrder(p)
  BY <1>1, <1>2, <1>4, EmptyRingIs DEF PortOwned, Hears, InOrder, Has
<1> QED BY <1>5, <1>6 DEF SerialInv

\* Who owns each port, that its line reaches it and what its ring holds (hw/serial.c,
\* SYS_SERIAL_OPEN, TOSSerial.c).
THEOREM SerialInvariant == SerialSpec => []SerialInv
<1>1. SerialInv /\ [SerialNext]_serialvars => SerialInv'
  <2> SUFFICES ASSUME SerialInv, [SerialNext]_serialvars PROVE SerialInv'
    OBVIOUS
  <2>1. CASE UNCHANGED serialvars
    <3>1. UNCHANGED <<port, unmasked, object, said, orphaned, cut>>
      BY <2>1 DEF serialvars
    <3>2. \A q \in Ports : PortOwned(q)' /\ Hears(q)' /\ InOrder(q)'
      BY <3>1, SameOwners DEF SerialInv, Hears, InOrder, RingSeq, RingCount
    <3> QED BY <3>1, <3>2 DEF SerialInv, SerialTypes
  <2> QED BY <2>1, ByteArrivesStep, InterruptStep, SerialOpenStep, SerialCloseStep, SerialReadStep,
             SetBaudOpensStep, ProgramEndsStep DEF SerialNext
<1> QED BY <1>1, SerialStarts, PTL DEF SerialSpec

(* Every open port has one owner, a live object or a program that ended without closing it,   *)
(* who hears it, in the order things came; for any ports of the machine, programs and sizes   *)
(* (hw/serial.c, SYS_SERIAL_OPEN, TOSSerial.c).                                                 *)
THEOREM SerialIsTrue == SerialSpec => []SerialTrue
<1>1. SerialInv => SerialTrue
  <2> SUFFICES ASSUME SerialInv PROVE SerialTrue
    OBVIOUS
  <2>1. PortsOwned
    <3> SUFFICES ASSUME NEW p \in Ports
                 PROVE  Cardinality(Holders(p)) + (IF p \in orphaned THEN 1 ELSE 0)
                          = IF port[p].in_use THEN 1 ELSE 0
      BY DEF PortsOwned
    <3>1. PortOwned(p) /\ Holders(p) = {a \in Apps : Has(a, p)}
      BY DEF SerialInv, Holders, Has
    <3>2. CASE \E a \in Apps : Has(a, p)
      <4>1. PICK a \in Apps : Has(a, p)
        BY <3>2
      <4>2. Holders(p) = {a} /\ p \notin orphaned /\ port[p].in_use
        BY <3>1, <4>1 DEF PortOwned
      <4>3. Cardinality(Holders(p)) = 1
        BY <4>2, FS_Singleton
      <4> QED BY <4>2, <4>3
    <3>3. CASE ~\E a \in Apps : Has(a, p)
      <4>1. Cardinality(Holders(p)) = 0
        BY <3>1, <3>3, FS_EmptySet
      <4>2. port[p].in_use <=> p \in orphaned
        BY <3>1, <3>3 DEF PortOwned
      <4> QED BY <4>1, <4>2
    <3> QED BY <3>2, <3>3
  <2> QED BY <2>1 DEF SerialTrue, SerialInv, HearsUnlessCut, SerialInOrder, Hears, InOrder
<1> QED BY <1>1, SerialInvariant, PTL

\* The lines there are, and the two ends of the machine's state.
LinesInv ==
    /\ unmasked \subseteq {3, 4} /\ request \subseteq {3, 4}
    /\ machine \in {"runs", "lost"} /\ cut \subseteq Ports

LEMMA LineIs == \A p \in Ports : Line(p) \in {3, 4}
BY DEF Line

LEMMA LinesStep == SerialInv /\ LinesInv /\ [SerialNext]_serialvars => LinesInv'
<1> SUFFICES ASSUME SerialInv, LinesInv, [SerialNext]_serialvars PROVE LinesInv'
  OBVIOUS
<1>1. ASSUME NEW p \in Ports, OpenPort(p) PROVE unmasked' \subseteq {3, 4} /\ cut' \subseteq Ports
  BY <1>1, LineIs DEF OpenPort, LinesInv
<1>2. ASSUME NEW p \in Ports, ClosePort(p) PROVE unmasked' \subseteq {3, 4} /\ cut' \subseteq Ports
  BY <1>2 DEF ClosePort, LinesInv
<1>3. ASSUME KeepPorts PROVE unmasked' \subseteq {3, 4} /\ cut' \subseteq Ports
  BY <1>3 DEF KeepPorts, LinesInv
<1>4. ASSUME NEW a \in Apps, object[a].active, object[a].handle > 0 PROVE object[a].handle \in Ports
  BY <1>4, PortNumbers DEF SerialInv, SerialTypes, Objects
<1>5. \A a \in Apps : object[a].port \in Ports
  BY DEF SerialInv, SerialTypes, Objects
<1>6. ASSUME NEW p \in Ports, NEW c \in Bytes(p), ByteArrives(p, c) PROVE LinesInv'
  BY <1>6, LineIs DEF ByteArrives, LinesInv
<1>7. ASSUME NEW l \in {3, 4}, Interrupt(l) PROVE LinesInv'
  BY <1>7 DEF Interrupt, LinesInv
<1>8. ASSUME NEW a \in Apps, SerialOpen(a) PROVE LinesInv'
  <2>1. OpenPort(object[a].port) \/ KeepPorts
    BY <1>8 DEF SerialOpen, TriesOpen
  <2> QED BY <1>1, <1>3, <1>5, <1>8, <2>1 DEF SerialOpen, LinesInv
<1>9. ASSUME NEW a \in Apps, SerialClose(a) \/ SetBaudCloses(a) PROVE LinesInv'
  BY <1>2, <1>4, <1>9 DEF SerialClose, SetBaudCloses, LinesInv
<1>10. ASSUME NEW a \in Apps, SetBaudOpens(a) PROVE LinesInv'
  <2> DEFINE o == [object[a] EXCEPT !.reopening = FALSE]
  <2>1. o.port \in Ports
    BY <1>5 DEF SerialInv, SerialTypes, Objects
  <2>2. OpenPort(o.port) \/ KeepPorts
    BY <1>10 DEF SetBaudOpens, TriesOpen
  <2> QED BY <1>1, <1>3, <1>10, <2>1, <2>2 DEF SetBaudOpens, LinesInv
<1>11. ASSUME NEW a \in Apps, SerialRead(a) \/ ProgramEnds(a) PROVE LinesInv'
  BY <1>3, <1>11 DEF SerialRead, ProgramEnds, LinesInv
<1>12. ASSUME UNCHANGED serialvars PROVE LinesInv'
  BY <1>12 DEF serialvars, LinesInv
<1> QED BY <1>6, <1>7, <1>8, <1>9, <1>10, <1>11, <1>12 DEF SerialNext

\* Lines, ports and rings keep their types, whoever opens, closes and ends (hw/serial.c).
THEOREM SerialTypesHold == SerialSpec => []SerialTypeOK
<1>1. SerialInit => LinesInv
  BY DEF SerialInit, LinesInv
<1>2. SerialSpec => []LinesInv
  BY <1>1, LinesStep, SerialInvariant, PTL DEF SerialSpec
<1>3. SerialInv /\ LinesInv => SerialTypeOK
  BY DEF SerialInv, SerialTypes, LinesInv, SerialTypeOK, PortStates, Rings, RingPlaces
<1> QED BY <1>2, <1>3, SerialInvariant, PTL
=============================================================================
