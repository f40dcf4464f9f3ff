---------------------------- MODULE Fat32_proofs ----------------------------
(***************************************************************************)
(* The FAT32 driver, for any volume, any names and any sizes of the calls. *)
(* The lock is taken exactly while somebody is inside, and never by two at *)
(* a time; the table and the directory stay well formed; every chain is    *)
(* sound, apart from the others and long enough; no cluster is lost but in *)
(* the known ways; and files an operation was not called for are left      *)
(* alone.                                                                  *)
(*                                                                         *)
(* The argument: what a walk meets is a least closed set (ReachIn), so a   *)
(* write to the table changes only the chains it is met by.  For each      *)
(* place an operation can be at under the lock there is a predicate of the *)
(* table, the directory and its local variables (WAlloc, WMark, DFree,     *)
(* ALink, AMark, MEntry; Quiet when nobody is inside).  Each write takes   *)
(* one of them to the next, and since whoever is inside is alone, nothing  *)
(* else moves the disk.                                                    *)
(***************************************************************************)
EXTENDS Fat32, FiniteSetTheorems, NaturalsInduction, WellFoundedInduction, TLAPS

-----------------------------------------------------------------------------
(***************************************************************************)
(* Chains: what a walk from a cluster meets.                               *)
(***************************************************************************)

LEMMA NatMin ==
    ASSUME NEW S \in SUBSET Nat, S # {}
    PROVE  \E i \in S : \A j \in S : i <= j
<1>1. PICK i \in S : \A j \in S : ~(<<j, i>> \in OpToRel(<, Nat))
  BY NatLessThanWellFounded, WFMin
<1>2. \A j \in S : ~(j < i)
  BY <1>1 DEF OpToRel
<1> QED BY <1>2

\* The marks of the table are no data clusters.
LEMMA DataType ==
    /\ Data \subseteq Nat /\ Data \subseteq 0 .. LastCluster /\ IsFiniteSet(Data)
    /\ 0 \notin Data /\ Free \notin Data /\ EOC \notin Data /\ Free # EOC
<1>1. 3 \in Int /\ LastCluster \in Int
  BY VolumeAssumption
<1>2. IsFiniteSet(3 .. LastCluster)
  BY <1>1, FS_Interval
<1> QED BY <1>1, <1>2, VolumeAssumption DEF Data, Free, EOC

\* What an entry tells as its first cluster is a number.
LEMMA FirstType == ASSUME NEW c \in {0} \cup Data PROVE c \in Nat
BY DataType

\* What a walk meets are data clusters.
LEMMA ReachType ==
    ASSUME NEW f, NEW c
    PROVE  ReachIn(f, c) \subseteq Data
BY DEF ReachIn

\* A walk meets the cluster it starts from, and from no cluster it goes nowhere.
LEMMA ReachStart ==
    ASSUME NEW f, NEW c
    PROVE  /\ c \in Data => c \in ReachIn(f, c)
           /\ c \notin Data => ReachIn(f, c) = {}
<1>1. c \in Data => c \in ReachIn(f, c)
  BY DEF ReachIn
<1>2. ASSUME c \notin Data PROVE ReachIn(f, c) = {}
  <2>1. {} \in SUBSET Data /\ {c} \cap Data \subseteq {} /\ Closed(f, {})
    BY <1>2 DEF Closed
  <2> QED BY <2>1 DEF ReachIn
<1> QED BY <1>1, <1>2

\* It goes on from every cluster it meets.
LEMMA ReachClosed ==
    ASSUME NEW f, NEW c, NEW d \in ReachIn(f, c), f[d] \in Data
    PROVE  f[d] \in ReachIn(f, c)
BY DEF ReachIn, Closed

\* It meets nothing it need not meet: the induction principle of chains.
LEMMA ReachLeast ==
    ASSUME NEW f, NEW c, NEW S \in SUBSET Data, c \in Data => c \in S,
           \A d \in S : f[d] \in Data => f[d] \in S
    PROVE  ReachIn(f, c) \subseteq S
BY DEF ReachIn, Closed

\* Two tables with the same links on a chain have the same chain: the links to data
\* clusters are all that matters.
LEMMA ReachSame ==
    ASSUME NEW f, NEW g, NEW c,
           \A d \in ReachIn(f, c) : g[d] = f[d] \/ (g[d] \notin Data /\ f[d] \notin Data)
    PROVE  ReachIn(g, c) = ReachIn(f, c)
<1>1. ReachIn(g, c) \subseteq ReachIn(f, c)
  <2>1. ReachIn(f, c) \in SUBSET Data
    BY ReachType
  <2>2. c \in Data => c \in ReachIn(f, c)
    BY ReachStart
  <2>3. ASSUME NEW d \in ReachIn(f, c), g[d] \in Data
        PROVE  g[d] \in ReachIn(f, c)
    BY <2>3, ReachClosed
  <2> QED BY <2>1, <2>2, <2>3, ReachLeast
<1>2. ReachIn(f, c) \subseteq ReachIn(g, c)
  <2>1. ReachIn(g, c) \in SUBSET Data
    BY ReachType
  <2>2. c \in Data => c \in ReachIn(g, c)
    BY ReachStart
  <2>3. ASSUME NEW d \in ReachIn(g, c), f[d] \in Data
        PROVE  f[d] \in ReachIn(g, c)
    BY <1>1, <2>3, ReachClosed
  <2> QED BY <2>1, <2>2, <2>3, ReachLeast
<1> QED BY <1>1, <1>2

\* A chain that ends at e goes on to n once e is linked to n, and there it ends.
LEMMA ReachLonger ==
    ASSUME NEW f, NEW g, NEW c, NEW e \in ReachIn(f, c), NEW n \in Data,
           f[e] \notin Data, g[e] = n, g[n] \notin Data,
           \A d \in Data : d # e => g[d] = f[d]
    PROVE  ReachIn(g, c) = ReachIn(f, c) \cup {n}
<1>1. ReachIn(g, c) \subseteq ReachIn(f, c) \cup {n}
  <2> DEFINE S == ReachIn(f, c) \cup {n}
  <2>1. S \in SUBSET Data
    BY ReachType
  <2>2. c \in Data => c \in S
    BY ReachStart
  <2>3. ASSUME NEW d \in S, g[d] \in Data
        PROVE  g[d] \in S
    BY <2>1, <2>3, ReachClosed
  <2> HIDE DEF S
  <2>4. ReachIn(g, c) \subseteq S
    BY <2>1, <2>2, <2>3, ReachLeast
  <2> QED BY <2>4 DEF S
<1>2. ReachIn(f, c) \subseteq ReachIn(g, c)
  <2>1. ReachIn(g, c) \in SUBSET Data
    BY ReachType
  <2>2. c \in Data => c \in ReachIn(g, c)
    BY ReachStart
  <2>3. ASSUME NEW d \in ReachIn(g, c), f[d] \in Data
        PROVE  f[d] \in ReachIn(g, c)
    <3>1. d # e
      BY <2>3
    <3>2. g[d] = f[d]
      BY <2>1, <3>1
    <3> QED BY <2>3, <3>2, ReachClosed
  <2> QED BY <2>1, <2>2, <2>3, ReachLeast
<1>3. n \in ReachIn(g, c)
  BY <1>2, ReachClosed
<1> QED BY <1>1, <1>2, <1>3

\* What is left of a chain once its first cluster is free.
LEMMA ReachShorter ==
    ASSUME NEW f, NEW g, NEW c \in Data, g[c] \notin Data,
           \A d \in Data : d # c => g[d] = f[d]
    PROVE  /\ ReachIn(f, c) \subseteq {c} \cup ReachIn(g, f[c])
           /\ ReachIn(g, f[c]) \subseteq ReachIn(f, c)
           /\ f[c] = c => ReachIn(f, c) = {c}
<1>1. ReachIn(f, c) \subseteq {c} \cup ReachIn(g, f[c])
  <2> DEFINE S == {c} \cup ReachIn(g, f[c])
  <2>1. S \in SUBSET Data
    BY ReachType
  <2>2. c \in S
    OBVIOUS
  <2>3. ASSUME NEW d \in S, f[d] \in Data
        PROVE  f[d] \in S
    <3>1. CASE d = c
      BY <2>3, <3>1, ReachStart
    <3>2. CASE d # c
      <4>1. d \in ReachIn(g, f[c]) /\ g[d] = f[d]
        BY <2>1, <3>2
      <4> QED BY <2>3, <4>1, ReachClosed
    <3> QED BY <3>1, <3>2
  <2> HIDE DEF S
  <2>4. ReachIn(f, c) \subseteq S
    BY <2>1, <2>2, <2>3, ReachLeast
  <2> QED BY <2>4 DEF S
<1>2. ReachIn(g, f[c]) \subseteq ReachIn(f, c)
  <2>1. ReachIn(f, c) \in SUBSET Data
    BY ReachType
  <2>2. f[c] \in Data => f[c] \in ReachIn(f, c)
    BY ReachStart, ReachClosed
  <2>3. ASSUME NEW d \in ReachIn(f, c), g[d] \in Data
        PROVE  g[d] \in ReachIn(f, c)
    <3>1. d # c
      BY <2>3
    <3> QED BY <2>1, <2>3, <3>1, ReachClosed
  <2> QED BY <2>1, <2>2, <2>3, ReachLeast
<1>3. ASSUME f[c] = c PROVE ReachIn(f, c) = {c}
  <2>1. {c} \in SUBSET Data /\ \A d \in {c} : f[d] \in {c}
    BY <1>3
  <2>2. ReachIn(f, c) \subseteq {c}
    BY <2>1, ReachLeast
  <2> QED BY <2>2, ReachStart
<1> QED BY <1>1, <1>2, <1>3

\* A chain is finite; one more cluster counts for one.
LEMMA ReachFinite ==
    ASSUME NEW f, NEW c
    PROVE  IsFiniteSet(ReachIn(f, c)) /\ Cardinality(ReachIn(f, c)) \in Nat
<1>1. IsFiniteSet(Data) /\ ReachIn(f, c) \in SUBSET Data
  BY DataType, ReachType
<1> QED BY <1>1, FS_Subset, FS_CardinalityType

\* The cluster fat32_find_free_cluster finds is a free one.
LEMMA FreeIsFree ==
    ASSUME FreeCluster # 0
    PROVE  FreeCluster \in Data /\ fat[FreeCluster] = Free
<1>1. FreeClusters # {} /\ FreeClusters \in SUBSET Nat
  BY DataType DEF FreeCluster, FreeClusters
<1>2. \E c \in FreeClusters : \A d \in FreeClusters : c <= d
  BY <1>1, NatMin
<1>3. FreeCluster \in FreeClusters
  BY <1>1, <1>2 DEF FreeCluster
<1> QED BY <1>3 DEF FreeClusters

\* A scan of the directory finds an entry of the name it looks for.
LEMMA FirstIsThere ==
    ASSUME NEW n, Exists(n)
    PROVE  First(SlotsOf(n)) \in Slots /\ root[First(SlotsOf(n))].name = n
<1>1. SlotsOf(n) # {} /\ SlotsOf(n) \in SUBSET Nat
  BY VolumeAssumption DEF Exists, SlotsOf
<1>2. \E c \in SlotsOf(n) : \A d \in SlotsOf(n) : c <= d
  BY <1>1, NatMin
<1>3. First(SlotsOf(n)) \in SlotsOf(n)
  BY <1>2 DEF First
<1> QED BY <1>3 DEF SlotsOf

-----------------------------------------------------------------------------
(***************************************************************************)
(* The directory and the chains it names, as values: what a write to the   *)
(* table or to an entry does to them.                                      *)
(***************************************************************************)

\* The chain from c on in the table f, when the clusters P wait for their mark: allocated to
\* its end, and long enough for k units.
Chain(f, c, P, k) ==
    /\ c \in Data => \E d \in ReachIn(f, c) : f[d] = EOC \/ d \in P
    /\ \A d \in ReachIn(f, c) : f[d] = EOC \/ f[d] \in Data \/ d \in P
    /\ Cardinality(ReachIn(f, c)) * ClusterSize >= k

\* The directory rt: its entries in use, the clusters they name, and that they are sound and
\* apart.
NamedSlots(rt) == {s \in Slots : rt[s].name # NoFile}
NamedIn(f, rt) == {d \in Data : \E s \in NamedSlots(rt) : d \in ReachIn(f, rt[s].first)}
\* Its sizes are numbers.
Sized(rt) == \A t \in NamedSlots(rt) : rt[t].size \in Nat
Apart(f, rt) ==
    \A s, t \in NamedSlots(rt) :
        s # t => ReachIn(f, rt[s].first) \cap ReachIn(f, rt[t].first) = {}
SameBut(f, g, rt, s) ==
    \A t \in NamedSlots(rt) \ {s} : ReachIn(g, rt[t].first) = ReachIn(f, rt[t].first)
Tree(f, rt, P) ==
    /\ \A s \in NamedSlots(rt) : Chain(f, rt[s].first, P, rt[s].size)
    /\ Apart(f, rt)

\* One cluster more holds one ClusterSize more.
LEMMA OneMore ==
    \A k \in Nat : k * ClusterSize \in Nat /\ (k + 1) * ClusterSize = k * ClusterSize + ClusterSize
BY VolumeAssumption

\* The named clusters stay the same when their links do.
LEMMA NamedKept ==
    ASSUME NEW f, NEW g, NEW rt,
           \A d \in NamedIn(f, rt) : g[d] = f[d] \/ (g[d] \notin Data /\ f[d] \notin Data)
    PROVE  /\ \A s \in NamedSlots(rt) : ReachIn(g, rt[s].first) = ReachIn(f, rt[s].first)
           /\ NamedIn(g, rt) = NamedIn(f, rt)
<1>1. ASSUME NEW s \in NamedSlots(rt)
      PROVE  ReachIn(g, rt[s].first) = ReachIn(f, rt[s].first)
  <2>1. \A d \in ReachIn(f, rt[s].first) : d \in NamedIn(f, rt)
    BY ReachType DEF NamedIn
  <2>2. \A d \in ReachIn(f, rt[s].first) : g[d] = f[d] \/ (g[d] \notin Data /\ f[d] \notin Data)
    BY <2>1
  <2> QED BY <2>2, ReachSame
<1> QED BY <1>1 DEF NamedIn

\* A write that touches no named cluster, but to mark one that ends a chain.
LEMMA TreeKept ==
    ASSUME NEW f, NEW g, NEW rt, NEW P, NEW Q, Tree(f, rt, P),
           \A d \in NamedIn(f, rt) :
               \/ g[d] = f[d] /\ (d \in P => d \in Q)
               \/ f[d] \notin Data /\ g[d] = EOC
    PROVE  /\ Tree(g, rt, Q)
           /\ NamedIn(g, rt) = NamedIn(f, rt)
           /\ \A s \in NamedSlots(rt) : ReachIn(g, rt[s].first) = ReachIn(f, rt[s].first)
<1>1. ASSUME NEW s \in NamedSlots(rt)
      PROVE  /\ ReachIn(g, rt[s].first) = ReachIn(f, rt[s].first)
             /\ Chain(g, rt[s].first, Q, rt[s].size)
  <2> DEFINE c == rt[s].first
             R == ReachIn(f, c)
  <2>1. \A d \in R : \/ g[d] = f[d] /\ (d \in P => d \in Q)
                     \/ f[d] \notin Data /\ g[d] = EOC
    BY <1>1, ReachType DEF NamedIn
  <2>2. ReachIn(g, c) = R
    BY <2>1, DataType, ReachSame
  <2>3. Chain(f, c, P, rt[s].size)
    BY <1>1 DEF Tree
  <2> HIDE DEF c
  <2>4. c \in Data => \E d \in R : g[d] = EOC \/ d \in Q
    BY <2>1, <2>3, DataType DEF Chain
  <2>5. \A d \in R : g[d] = EOC \/ g[d] \in Data \/ d \in Q
    BY <2>1, <2>3 DEF Chain
  <2>6. Cardinality(R) * ClusterSize >= rt[s].size
    BY <2>3 DEF Chain
  <2>7. Chain(g, c, Q, rt[s].size)
    BY <2>2, <2>4, <2>5, <2>6 DEF Chain
  <2> QED BY <2>2, <2>7 DEF c
<1>2. NamedIn(g, rt) = NamedIn(f, rt)
  BY <1>1 DEF NamedIn
<1>3. Apart(g, rt)
  BY <1>1 DEF Tree, Apart
<1> QED BY <1>1, <1>2, <1>3 DEF Tree

\* An entry goes.
LEMMA TreeLess ==
    ASSUME NEW f, NEW rt, NEW rt2, NEW P, NEW s \in NamedSlots(rt), Tree(f, rt, P),
           rt2[s].name = NoFile, \A t \in Slots \ {s} : rt2[t] = rt[t]
    PROVE  /\ Tree(f, rt2, P)
           /\ NamedIn(f, rt) = NamedIn(f, rt2) \cup ReachIn(f, rt[s].first)
           /\ NamedIn(f, rt2) \cap ReachIn(f, rt[s].first) = {}
<1>1. NamedSlots(rt2) = NamedSlots(rt) \ {s}
  BY DEF NamedSlots
<1>2. \A t \in NamedSlots(rt2) : rt2[t] = rt[t]
  BY <1>1 DEF NamedSlots
<1>3. Tree(f, rt2, P)
  BY <1>1, <1>2 DEF Tree, Apart
<1>4. NamedIn(f, rt) = NamedIn(f, rt2) \cup ReachIn(f, rt[s].first)
  BY <1>1, <1>2, ReachType DEF NamedIn
<1>5. NamedIn(f, rt2) \cap ReachIn(f, rt[s].first) = {}
  BY <1>1, <1>2 DEF NamedIn, Tree, Apart
<1> QED BY <1>3, <1>4, <1>5

\* An entry comes, for a chain that was complete before.
LEMMA NamedMore ==
    ASSUME NEW f, NEW rt, NEW rt2, NEW s \in Slots,
           rt[s].name = NoFile, rt2[s].name # NoFile, \A t \in Slots \ {s} : rt2[t] = rt[t]
    PROVE  NamedIn(f, rt2) = NamedIn(f, rt) \cup ReachIn(f, rt2[s].first)
<1>1. NamedSlots(rt2) = NamedSlots(rt) \cup {s} /\ s \notin NamedSlots(rt)
  BY DEF NamedSlots
<1>2. \A t \in NamedSlots(rt) : rt2[t] = rt[t]
  BY <1>1 DEF NamedSlots
<1> QED BY <1>1, <1>2, ReachType DEF NamedIn

LEMMA TreeMore ==
    ASSUME NEW f, NEW rt, NEW rt2, NEW P, NEW s \in Slots, Tree(f, rt, P),
           rt[s].name = NoFile, rt2[s].name # NoFile, \A t \in Slots \ {s} : rt2[t] = rt[t],
           Chain(f, rt2[s].first, P, rt2[s].size),
           ReachIn(f, rt2[s].first) \cap NamedIn(f, rt) = {}
    PROVE  Tree(f, rt2, P)
<1>1. NamedSlots(rt2) = NamedSlots(rt) \cup {s} /\ s \notin NamedSlots(rt)
  BY DEF NamedSlots
<1>2. \A t \in NamedSlots(rt) : rt2[t] = rt[t]
  BY <1>1 DEF NamedSlots
<1>3. \A t \in NamedSlots(rt) : ReachIn(f, rt2[s].first) \cap ReachIn(f, rt2[t].first) = {}
  BY <1>2, ReachType DEF NamedIn
<1>4. \A t \in NamedSlots(rt2) : Chain(f, rt2[t].first, P, rt2[t].size)
  BY <1>1, <1>2 DEF Tree
<1>5. Apart(f, rt2)
  BY <1>1, <1>2, <1>3 DEF Tree, Apart
<1> QED BY <1>4, <1>5 DEF Tree

\* Entries change their names or sizes.
LEMMA TreeRetold ==
    ASSUME NEW f, NEW rt, NEW rt2, NEW P, Tree(f, rt, P),
           NamedSlots(rt2) = NamedSlots(rt),
           \A s \in NamedSlots(rt) :
               /\ rt2[s].first = rt[s].first
               /\ Cardinality(ReachIn(f, rt[s].first)) * ClusterSize >= rt2[s].size
    PROVE  Tree(f, rt2, P) /\ NamedIn(f, rt2) = NamedIn(f, rt)
<1>1. NamedIn(f, rt2) = NamedIn(f, rt)
  BY DEF NamedIn
<1>2. Apart(f, rt2)
  BY DEF Tree, Apart
<1>3. \A s \in NamedSlots(rt2) : Chain(f, rt2[s].first, P, rt2[s].size)
  BY DEF Tree, Chain
<1> QED BY <1>1, <1>2, <1>3 DEF Tree

\* What happens at a cluster of one chain is nothing to the others.
LEMMA OthersSame ==
    ASSUME NEW f, NEW g, NEW rt, NEW s \in NamedSlots(rt), Apart(f, rt),
           NEW e \in ReachIn(f, rt[s].first), \A d \in Data : d # e => g[d] = f[d]
    PROVE  SameBut(f, g, rt, s)
<1> SUFFICES ASSUME NEW t \in NamedSlots(rt) \ {s}
             PROVE  ReachIn(g, rt[t].first) = ReachIn(f, rt[t].first)
  BY DEF SameBut
<1>1. \A d \in ReachIn(f, rt[t].first) : d \in Data /\ d # e
  BY ReachType DEF Apart
<1>2. \A d \in ReachIn(f, rt[t].first) : g[d] = f[d]
  BY <1>1
<1> QED BY <1>2, ReachSame

\* One chain gets another cluster, which waits for its mark.
LEMMA TreeLonger ==
    ASSUME NEW f, NEW g, NEW rt,
           NEW s \in NamedSlots(rt), Tree(f, rt, {}),
           Sized(rt),
           NEW e \in ReachIn(f, rt[s].first), f[e] = EOC,
           NEW n \in Data, f[n] = Free,
           g[e] = n, \A d \in Data : d # e => g[d] = f[d]
    PROVE  /\ Tree(g, rt, {n})
           /\ NamedIn(g, rt) = NamedIn(f, rt) \cup {n}
           /\ n \in ReachIn(g, rt[s].first)
           /\ Cardinality(ReachIn(g, rt[s].first)) = Cardinality(ReachIn(f, rt[s].first)) + 1
<1> DEFINE Rs == ReachIn(f, rt[s].first)
<1>0. Free # EOC
  BY DataType
<1>1. e \in Data /\ e # n
  BY <1>0, ReachType
<1>2. g[e] = n /\ (\A d \in Data : d # e => g[d] = f[d]) /\ g[n] = Free
  BY <1>1
<1>3. n \notin NamedIn(f, rt)
  <2> SUFFICES ASSUME NEW t \in NamedSlots(rt), n \in ReachIn(f, rt[t].first) PROVE FALSE
    BY DEF NamedIn
  <2>1. Chain(f, rt[t].first, {}, rt[t].size)
    BY DEF Tree
  <2> QED BY <2>1, DataType DEF Chain
<1>4. ReachIn(g, rt[s].first) = Rs \cup {n}
  <2>1. f[e] \notin Data /\ g[n] \notin Data
    BY <1>2, DataType
  <2> QED BY <1>2, <2>1, ReachLonger
<1>5. ASSUME NEW t \in NamedSlots(rt) \ {s}
      PROVE  ReachIn(g, rt[t].first) = ReachIn(f, rt[t].first)
  <2>1. \A d \in ReachIn(f, rt[t].first) : d \in Data /\ d # e
    BY ReachType DEF Tree, Apart
  <2>2. \A d \in ReachIn(f, rt[t].first) : g[d] = f[d]
    BY <1>2, <2>1
  <2> QED BY <2>2, ReachSame
<1>6. n \notin Rs
  BY <1>3 DEF NamedIn
<1>7. Cardinality(ReachIn(g, rt[s].first)) = Cardinality(Rs) + 1
  <2>1. IsFiniteSet(Rs)
    BY ReachFinite
  <2> HIDE DEF Rs
  <2>2. Cardinality(Rs \cup {n}) = Cardinality(Rs) + 1
    BY <1>6, <2>1, FS_AddElement
  <2> QED BY <1>4, <2>2
<1>8. NamedIn(g, rt) = NamedIn(f, rt) \cup {n}
  BY <1>4, <1>5 DEF NamedIn
<1>9. ASSUME NEW t \in NamedSlots(rt)
      PROVE  Chain(g, rt[t].first, {n}, rt[t].size)
  <2>1. Chain(f, rt[t].first, {}, rt[t].size)
    BY DEF Tree
  <2>0. Chain(f, rt[s].first, {}, rt[s].size)
    BY DEF Tree
  <2>2. CASE t = s
    <3> DEFINE R == ReachIn(g, rt[s].first)
    <3>1. n \in R
      BY <1>4
    <3>2. \A d \in R : g[d] = EOC \/ g[d] \in Data \/ d \in {n}
      <4>1. \A d \in Rs : f[d] = EOC \/ f[d] \in Data
        BY <2>0 DEF Chain
      <4>2. \A d \in Rs : d \in Data
        BY ReachType
      <4> QED BY <1>2, <1>4, <4>1, <4>2
    <3>3. Cardinality(R) * ClusterSize >= rt[s].size
      <4>1. Cardinality(Rs) \in Nat /\ Cardinality(Rs) * ClusterSize >= rt[s].size
        BY <2>0, ReachFinite DEF Chain
      <4> HIDE DEF R
      <4>2. Cardinality(R) = Cardinality(Rs) + 1
        BY <1>7 DEF R
      <4>3. /\ Cardinality(R) * ClusterSize = Cardinality(Rs) * ClusterSize + ClusterSize
            /\ Cardinality(Rs) * ClusterSize \in Nat
        BY <4>1, <4>2, OneMore
      <4>4. rt[s].size \in Nat /\ ClusterSize \in Nat
        BY VolumeAssumption DEF Sized
      <4> QED BY <4>1, <4>3, <4>4
    <3> QED BY <2>2, <3>1, <3>2, <3>3 DEF Chain
  <2>3. CASE t # s
    <3>1. \A d \in ReachIn(f, rt[t].first) : d \in Data /\ d # e
      BY <2>3, ReachType DEF Tree, Apart
    <3>2. \A d \in ReachIn(f, rt[t].first) : g[d] = f[d]
      BY <1>2, <3>1
    <3> QED BY <1>5, <2>1, <2>3, <3>2 DEF Chain
  <2> QED BY <2>2, <2>3
<1>10. Apart(g, rt)
  <2> SUFFICES ASSUME NEW t \in NamedSlots(rt), NEW u \in NamedSlots(rt), t # u
               PROVE  ReachIn(g, rt[t].first) \cap ReachIn(g, rt[u].first) = {}
    BY DEF Apart
  <2>1. ReachIn(f, rt[t].first) \cap ReachIn(f, rt[u].first) = {}
    BY DEF Tree, Apart
  <2>2. n \notin ReachIn(f, rt[t].first) /\ n \notin ReachIn(f, rt[u].first)
    BY <1>3 DEF NamedIn
  <2> QED BY <1>4, <1>5, <2>1, <2>2
<1>11. Tree(g, rt, {n})
  BY <1>9, <1>10 DEF Tree
<1> QED BY <1>4, <1>5, <1>7, <1>8, <1>11

-----------------------------------------------------------------------------
(***************************************************************************)
(* The disk at each place of an operation, and how each write takes it to  *)
(* the next.                                                               *)
(***************************************************************************)

\* The clusters in use that no entry names.
Spare(f, rt) == {c \in Data : f[c] # Free} \ NamedIn(f, rt)

\* The disk when nobody is inside, when o has been given up.
Quiet(f, rt, o) == Tree(f, rt, {}) /\ Spare(f, rt) \subseteq o

\* A new chain from first on has its clusters up to prev, and left units to come.
WAlloc(first, prev, left, len, f, rt, o) ==
    /\ Tree(f, rt, {})
    /\ ReachIn(f, first) \cap NamedIn(f, rt) = {}
    /\ first = 0 => prev = 0
    /\ first # 0 => prev \in ReachIn(f, first) /\ f[prev] = EOC
    /\ \A d \in ReachIn(f, first) : d = prev \/ f[d] \in Data
    /\ Cardinality(ReachIn(f, first)) * ClusterSize + left >= len
    /\ Spare(f, rt) \subseteq o \cup ReachIn(f, first)

\* Its last cluster, cur, is linked and not yet marked.
WMark(first, cur, left, len, f, rt, o) ==
    /\ Tree(f, rt, {})
    /\ ReachIn(f, first) \cap NamedIn(f, rt) = {}
    /\ cur \in ReachIn(f, first) /\ f[cur] = Free
    /\ \A d \in ReachIn(f, first) : d = cur \/ f[d] \in Data
    /\ Cardinality(ReachIn(f, first)) * ClusterSize + left >= len + ClusterSize
    /\ Spare(f, rt) \subseteq o \cup ReachIn(f, first)

\* A chain without a name is freed from cur on.
DFree(cur, f, rt, o) ==
    /\ Tree(f, rt, {})
    /\ ReachIn(f, cur) \cap NamedIn(f, rt) = {}
    /\ Spare(f, rt) \subseteq o \cup ReachIn(f, cur)

\* The chain of the entry at slot ends at prev, and left of len units want a cluster.
ALink(slot, name, prev, left, len, f, rt, o) ==
    /\ Tree(f, rt, {})
    /\ slot \in NamedSlots(rt) /\ rt[slot].name = name
    /\ prev \in ReachIn(f, rt[slot].first) /\ f[prev] = EOC
    /\ Cardinality(ReachIn(f, rt[slot].first)) * ClusterSize + left >= rt[slot].size + len
    /\ Spare(f, rt) \subseteq o

\* It goes on to cur, which is not yet marked.
AMark(slot, name, cur, left, len, f, rt, o) ==
    /\ Tree(f, rt, {cur})
    /\ slot \in NamedSlots(rt) /\ rt[slot].name = name
    /\ cur \in ReachIn(f, rt[slot].first) /\ f[cur] = Free
    /\ Cardinality(ReachIn(f, rt[slot].first)) * ClusterSize + left
           >= rt[slot].size + len + ClusterSize
    /\ Spare(f, rt) \subseteq o

\* The cluster of a new directory is marked and has no name.
MEntry(cur, f, rt, o) ==
    /\ Tree(f, rt, {})
    /\ cur \in Data /\ f[cur] = EOC /\ cur \notin NamedIn(f, rt)
    /\ Spare(f, rt) \subseteq o \cup {cur}

-----------------------------------------------------------------------------

\* A free cluster has no name.
LEMMA FreeUnnamed ==
    ASSUME NEW f, NEW rt, Tree(f, rt, {}), NEW n \in Data, f[n] = Free
    PROVE  n \notin NamedIn(f, rt)
<1> SUFFICES ASSUME NEW t \in NamedSlots(rt), n \in ReachIn(f, rt[t].first) PROVE FALSE
  BY DEF NamedIn
<1>1. Chain(f, rt[t].first, {}, rt[t].size)
  BY DEF Tree
<1> QED BY <1>1, DataType DEF Chain

\* A cluster that leads nowhere is a chain of one.
LEMMA ReachOne ==
    ASSUME NEW f, NEW c \in Data, f[c] \notin Data
    PROVE  ReachIn(f, c) = {c} /\ Cardinality(ReachIn(f, c)) = 1
<1>1. {c} \in SUBSET Data /\ \A d \in {c} : f[d] \in Data => f[d] \in {c}
  OBVIOUS
<1>2. ReachIn(f, c) \subseteq {c}
  BY <1>1, ReachLeast
<1>3. ReachIn(f, c) = {c}
  BY <1>2, ReachStart
<1> QED BY <1>3, FS_Singleton

LEMMA ReachNone ==
    ASSUME NEW f, NEW c, c \notin Data
    PROVE  ReachIn(f, c) = {} /\ Cardinality(ReachIn(f, c)) = 0
BY ReachStart, FS_EmptySet

\* Writes that leave every cluster free or in use leave the spare ones spare.
LEMMA SpareKept ==
    ASSUME NEW f, NEW g, NEW rt, NamedIn(g, rt) = NamedIn(f, rt),
           \A d \in Data : g[d] = Free <=> f[d] = Free
    PROVE  Spare(g, rt) = Spare(f, rt)
BY DEF Spare

LEMMA WriteBegins ==
    ASSUME NEW f, NEW rt, NEW o, NEW len \in Nat, Quiet(f, rt, o)
    PROVE  WAlloc(0, 0, len, len, f, rt, o)
<1>1. ReachIn(f, 0) = {} /\ Cardinality(ReachIn(f, 0)) = 0
  BY DataType, ReachNone
<1>2. 0 * ClusterSize + len >= len
  BY VolumeAssumption
<1> QED BY <1>1, <1>2 DEF WAlloc, Quiet

LEMMA WriteLinks ==
    ASSUME NEW f, NEW g, NEW rt, NEW o, NEW first, NEW prev, NEW left \in Nat, NEW len \in Nat,
           WAlloc(first, prev, left, len, f, rt, o), prev # 0,
           NEW n \in Data, f[n] = Free, g[prev] = n, \A d \in Data : d # prev => g[d] = f[d]
    PROVE  WMark(first, n, left, len, g, rt, o)
<1> DEFINE R == ReachIn(f, first)
<1>1. first # 0 /\ prev \in R /\ f[prev] = EOC /\ prev \in Data /\ prev # n
  BY ReachType, DataType DEF WAlloc
<1>2. \A d \in NamedIn(f, rt) : d \in Data /\ d # prev
  BY <1>1 DEF WAlloc, NamedIn
<1>3. \A d \in NamedIn(f, rt) : g[d] = f[d]
  BY <1>2
<1>4. Tree(f, rt, {})
  BY DEF WAlloc
<1>5. Tree(g, rt, {}) /\ NamedIn(g, rt) = NamedIn(f, rt)
  BY <1>3, <1>4, TreeKept
<1>6. f[prev] \notin Data /\ g[n] \notin Data /\ g[n] = Free
  BY <1>1, DataType
<1>7. ReachIn(g, first) = R \cup {n}
  BY <1>1, <1>6, ReachLonger
<1>8. n \notin R
  BY <1>1, DataType DEF WAlloc
<1>9. Cardinality(ReachIn(g, first)) = Cardinality(R) + 1 /\ Cardinality(R) \in Nat
  <2>1. IsFiniteSet(R) /\ Cardinality(R) \in Nat
    BY ReachFinite
  <2> HIDE DEF R
  <2> QED BY <1>7, <1>8, <2>1, FS_AddElement
<1>10. Cardinality(ReachIn(g, first)) * ClusterSize + left >= len + ClusterSize
  <2> DEFINE k == Cardinality(R)
  <2>1. k * ClusterSize + left >= len
    BY DEF WAlloc
  <2>2. k * ClusterSize \in Nat /\ (k + 1) * ClusterSize = k * ClusterSize + ClusterSize
    BY <1>9, OneMore
  <2>3. Cardinality(ReachIn(g, first)) = k + 1
    BY <1>9
  <2> HIDE DEF k
  <2> QED BY <2>1, <2>2, <2>3, VolumeAssumption
<1>11. ReachIn(g, first) \cap NamedIn(g, rt) = {}
  BY <1>4, <1>5, <1>7, FreeUnnamed DEF WAlloc
<1>12. \A d \in ReachIn(g, first) : d = n \/ g[d] \in Data
  BY <1>7, ReachType DEF WAlloc
<1>13. Spare(g, rt) = Spare(f, rt)
  <2>1. \A d \in Data : g[d] = Free <=> f[d] = Free
    BY <1>1, DataType
  <2> QED BY <1>5, <2>1, SpareKept
<1>14. Spare(g, rt) \subseteq o \cup ReachIn(g, first)
  BY <1>7, <1>13 DEF WAlloc
<1> QED BY <1>5, <1>6, <1>7, <1>10, <1>11, <1>12, <1>14 DEF WMark

LEMMA WriteTakesFirst ==
    ASSUME NEW f, NEW rt, NEW o, NEW first, NEW left \in Nat, NEW len \in Nat,
           WAlloc(first, 0, left, len, f, rt, o), NEW n \in Data, f[n] = Free
    PROVE  first = 0 /\ WMark(n, n, left, len, f, rt, o)
<1>1. first = 0
  BY ReachType, DataType DEF WAlloc
<1>2. ReachIn(f, 0) = {} /\ Cardinality(ReachIn(f, 0)) = 0
  BY DataType, ReachNone
<1>3. ReachIn(f, n) = {n} /\ Cardinality(ReachIn(f, n)) = 1
  BY DataType, ReachOne
<1>4. left >= len
  BY <1>1, <1>2, VolumeAssumption DEF WAlloc
<1>5. 1 * ClusterSize + left >= len + ClusterSize
  BY <1>4, VolumeAssumption
<1>6. n \notin NamedIn(f, rt)
  BY FreeUnnamed DEF WAlloc
<1>7. Spare(f, rt) \subseteq o \cup {n}
  BY <1>1, <1>2 DEF WAlloc
<1>8. Tree(f, rt, {})
  BY DEF WAlloc
<1> QED BY <1>1, <1>3, <1>5, <1>6, <1>7, <1>8 DEF WMark

LEMMA WriteMarksLast ==
    ASSUME NEW f, NEW g, NEW rt, NEW o, NEW first, NEW cur, NEW left \in Nat, NEW len \in Nat,
           WMark(first, cur, left, len, f, rt, o), NEW left2 \in Nat, left2 + ClusterSize >= left,
           g[cur] = EOC, \A d \in Data : d # cur => g[d] = f[d]
    PROVE  WAlloc(first, cur, left2, len, g, rt, o)
<1> DEFINE R == ReachIn(f, first)
<1>1. cur \in R /\ cur \in Data /\ f[cur] = Free /\ cur \notin NamedIn(f, rt) /\ Tree(f, rt, {})
  BY ReachType DEF WMark
<1>2. \A d \in NamedIn(f, rt) : g[d] = f[d]
  BY <1>1 DEF NamedIn
<1>3. Tree(g, rt, {}) /\ NamedIn(g, rt) = NamedIn(f, rt)
  BY <1>1, <1>2, TreeKept
<1>4. \A d \in R : g[d] = f[d] \/ (g[d] \notin Data /\ f[d] \notin Data)
  BY <1>1, ReachType, DataType
<1>5. ReachIn(g, first) = R
  BY <1>4, ReachSame
<1>6. first # 0
  BY <1>1, ReachStart, DataType
<1>7. \A d \in R : d = cur \/ g[d] \in Data
  BY ReachType DEF WMark
<1>8. Cardinality(R) * ClusterSize + left2 >= len
  <2> DEFINE k == Cardinality(R) * ClusterSize
  <2>1. k + left >= len + ClusterSize
    BY DEF WMark
  <2>2. k \in Nat
    BY ReachFinite, OneMore
  <2> HIDE DEF k
  <2>3. k + left2 >= len
    BY <2>1, <2>2, VolumeAssumption
  <2> QED BY <2>3 DEF k
<1>9. Spare(g, rt) \subseteq Spare(f, rt) \cup {cur}
  BY <1>3 DEF Spare
<1>10. Spare(f, rt) \subseteq o \cup R
  BY DEF WMark
<1>11. R \cap NamedIn(f, rt) = {}
  BY DEF WMark
<1> HIDE DEF R
<1> QED BY <1>1, <1>3, <1>5, <1>6, <1>7, <1>8, <1>9, <1>10, <1>11 DEF WAlloc

LEMMA WriteIsChain ==
    ASSUME NEW f, NEW rt, NEW o, NEW first \in {0} \cup Data, NEW prev, NEW len \in Nat,
           WAlloc(first, prev, 0, len, f, rt, o)
    PROVE  Chain(f, first, {}, len)
<1> DEFINE R == ReachIn(f, first)
<1>1. Cardinality(R) * ClusterSize >= len
  <2>1. Cardinality(R) * ClusterSize \in Nat
    BY ReachFinite, OneMore
  <2> QED BY <2>1 DEF WAlloc
<1>2. first \in Data => \E d \in R : f[d] = EOC \/ d \in {}
  BY DataType DEF WAlloc
<1>3. \A d \in R : f[d] = EOC \/ f[d] \in Data \/ d \in {}
  BY DataType, ReachNone DEF WAlloc
<1> QED BY <1>1, <1>2, <1>3 DEF Chain

\* An entry takes the spare chain from c on.
LEMMA ChainNamed ==
    ASSUME NEW f, NEW rt, NEW rt2, NEW o, NEW c,
           NEW s \in Slots, rt[s].name = NoFile, rt2[s].name # NoFile,
           rt2[s].first = c, Chain(f, rt2[s].first, {}, rt2[s].size),
           \A t \in Slots \ {s} : rt2[t] = rt[t],
           Tree(f, rt, {}), ReachIn(f, c) \cap NamedIn(f, rt) = {},
           Spare(f, rt) \subseteq o \cup ReachIn(f, c)
    PROVE  Quiet(f, rt2, o)
<1>1. Tree(f, rt2, {})
  BY TreeMore
<1>2. NamedIn(f, rt2) = NamedIn(f, rt) \cup ReachIn(f, c)
  BY NamedMore
<1> QED BY <1>1, <1>2 DEF Quiet, Spare

LEMMA WriteNames ==
    ASSUME NEW f, NEW rt, NEW rt2, NEW o, NEW first, NEW prev, NEW left, NEW len,
           WAlloc(first, prev, left, len, f, rt, o),
           NEW s \in Slots, rt[s].name = NoFile, rt2[s].name # NoFile,
           rt2[s].first = first, Chain(f, rt2[s].first, {}, rt2[s].size),
           \A t \in Slots \ {s} : rt2[t] = rt[t]
    PROVE  Quiet(f, rt2, o)
<1>1. /\ Tree(f, rt, {}) /\ ReachIn(f, first) \cap NamedIn(f, rt) = {}
      /\ Spare(f, rt) \subseteq o \cup ReachIn(f, first)
  BY DEF WAlloc
<1> QED BY <1>1, ChainNamed

LEMMA DeleteTakes ==
    ASSUME NEW f, NEW rt, NEW rt2, NEW o, NEW s \in NamedSlots(rt), Quiet(f, rt, o),
           rt2[s].name = NoFile, \A t \in Slots \ {s} : rt2[t] = rt[t]
    PROVE  DFree(rt[s].first, f, rt2, o)
<1>1. Tree(f, rt, {}) /\ Spare(f, rt) \subseteq o
  BY DEF Quiet
<1>2. /\ Tree(f, rt2, {})
      /\ NamedIn(f, rt) = NamedIn(f, rt2) \cup ReachIn(f, rt[s].first)
      /\ NamedIn(f, rt2) \cap ReachIn(f, rt[s].first) = {}
  BY <1>1, TreeLess
<1> QED BY <1>1, <1>2 DEF DFree, Spare

LEMMA DeleteFreesOne ==
    ASSUME NEW f, NEW g, NEW rt, NEW o, NEW cur \in Data, DFree(cur, f, rt, o),
           g[cur] = Free, \A d \in Data : d # cur => g[d] = f[d]
    PROVE  DFree(IF f[cur] = cur THEN 0 ELSE f[cur], g, rt, o)
<1> DEFINE next == IF f[cur] = cur THEN 0 ELSE f[cur]
           R == ReachIn(f, cur)
           S == ReachIn(g, next)
<1>1. cur \in R /\ cur \notin NamedIn(f, rt) /\ Tree(f, rt, {})
  BY ReachStart DEF DFree
<1>2. \A d \in NamedIn(f, rt) : g[d] = f[d]
  BY <1>1 DEF NamedIn
<1>3. Tree(g, rt, {}) /\ NamedIn(g, rt) = NamedIn(f, rt)
  BY <1>1, <1>2, TreeKept
<1>4. R \subseteq {cur} \cup S /\ S \subseteq R
  <2>1. g[cur] \notin Data
    BY DataType
  <2>2. /\ R \subseteq {cur} \cup ReachIn(g, f[cur])
        /\ ReachIn(g, f[cur]) \subseteq R
        /\ f[cur] = cur => R = {cur}
    BY <2>1, ReachShorter
  <2>3. CASE f[cur] = cur
    <3>1. next = 0
      BY <2>3
    <3>2. S = {}
      BY <3>1, DataType, ReachNone
    <3> QED BY <2>2, <2>3, <3>2
  <2>4. CASE f[cur] # cur
    BY <2>2, <2>4
  <2> QED BY <2>3, <2>4
<1> HIDE DEF next, R, S
<1>5. Spare(g, rt) \subseteq Spare(f, rt) \ {cur}
  BY <1>1, <1>3 DEF Spare
<1>6. Spare(f, rt) \subseteq o \cup R /\ R \cap NamedIn(f, rt) = {}
  BY DEF DFree, R
<1>7. Spare(g, rt) \subseteq o \cup S
  BY <1>4, <1>5, <1>6
<1>8. S \cap NamedIn(g, rt) = {}
  BY <1>3, <1>4, <1>6
<1>9. DFree(next, g, rt, o)
  BY <1>3, <1>7, <1>8 DEF DFree, S
<1> QED BY <1>9 DEF next

LEMMA DeleteEnds ==
    ASSUME NEW f, NEW rt, NEW o, NEW cur, cur \notin Data, DFree(cur, f, rt, o)
    PROVE  Quiet(f, rt, o)
BY ReachNone DEF DFree, Quiet

LEMMA TimesGrows ==
    ASSUME NEW a \in Nat, NEW b \in Nat, NEW c \in Nat, a <= b
    PROVE  a * c <= b * c
<1> DEFINE j == b - a
<1>1. j \in Nat /\ b = a + j
  OBVIOUS
<1> HIDE DEF j
<1>2. (a + j) * c = a * c + j * c /\ a * c \in Nat /\ j * c \in Nat
  BY <1>1
<1> QED BY <1>1, <1>2

\* What an append has room for once it fills the last cluster.
LEMMA RoomLeft ==
    ASSUME NEW k \in Nat, NEW size \in Nat, NEW len \in Nat, NEW left \in Nat, size > 0,
           k * ClusterSize >= size,
           left >= len - (IF size % ClusterSize # 0 THEN ClusterSize - (size % ClusterSize) ELSE 0)
    PROVE  k * ClusterSize + left >= size + len
<1> DEFINE CS == ClusterSize
           q == size \div CS
           p == size % CS
<1>1. CS \in Nat /\ CS > 0
  BY VolumeAssumption
<1>2. q \in Nat /\ p \in Nat /\ p < CS /\ size = q * CS + p
  <2> HIDE DEF CS
  <2>1. q \in Nat /\ p \in 0 .. CS - 1 /\ size = CS * q + p
    BY <1>1
  <2> QED BY <1>1, <2>1
<1>3. CASE p = 0
  <2>1. left >= len
    BY <1>3
  <2>2. k * CS \in Nat
    BY <1>1
  <2> HIDE DEF CS, p, q
  <2>3. k * CS + left >= size + len
    BY <2>1, <2>2 DEF CS
  <2> QED BY <2>3 DEF CS
<1>4. CASE p # 0
  <2>1. left >= len - (CS - p)
    BY <1>4
  <2>2. k * CS >= size
    OBVIOUS
  <2> HIDE DEF CS, p, q
  <2>3. k > q
    <3> SUFFICES ASSUME k <= q PROVE FALSE
      BY <1>2
    <3>0. q \in Nat /\ CS \in Nat /\ k \in Nat /\ k <= q
      BY <1>1, <1>2
    <3>1. k * CS <= q * CS
      <4> HIDE DEF CS
      <4> QED BY <3>0, TimesGrows, Zenon
    <3>2. q * CS \in Nat /\ k * CS \in Nat
      BY <3>0
    <3> QED BY <1>2, <1>4, <2>2, <3>1, <3>2
  <2>4. k * CS >= (q + 1) * CS /\ (q + 1) * CS = q * CS + CS
    BY <1>1, <1>2, <2>3, TimesGrows
  <2>5. k * CS \in Nat /\ q * CS \in Nat
    BY <1>1, <1>2
  <2>6. k * CS >= size + (CS - p)
    BY <1>1, <1>2, <2>4, <2>5
  <2>7. k * CS + left >= size + len
    BY <1>1, <1>2, <2>1, <2>5, <2>6
  <2> QED BY <2>7 DEF CS
<1> QED BY <1>3, <1>4

\* A sound chain has an end.
LEMMA ChainEnds ==
    ASSUME NEW f, NEW rt, NEW s \in NamedSlots(rt), Tree(f, rt, {}), rt[s].first \in Data
    PROVE  /\ \E d \in ReachIn(f, rt[s].first) : f[d] \notin ReachIn(f, rt[s].first)
           /\ \A d \in ReachIn(f, rt[s].first) :
                f[d] \notin ReachIn(f, rt[s].first) => f[d] = EOC
<1> DEFINE c == rt[s].first
<1>1. Chain(f, c, {}, rt[s].size)
  BY DEF Tree
<1>2. \A d \in ReachIn(f, c) : f[d] \in Data => f[d] \in ReachIn(f, c)
  BY ReachClosed
<1> HIDE DEF c
<1>3. \A d \in ReachIn(f, c) : f[d] \notin ReachIn(f, c) => f[d] = EOC
  BY <1>1, <1>2 DEF Chain
<1>4. c \in Data => \E d \in ReachIn(f, c) : f[d] \notin ReachIn(f, c)
  BY <1>1, ReachType, DataType DEF Chain
<1> QED BY <1>3, <1>4 DEF c

LEMMA AppendBegins ==
    ASSUME NEW f, NEW rt, NEW o, NEW s \in NamedSlots(rt), Quiet(f, rt, o),
           NEW prev \in ReachIn(f, rt[s].first), f[prev] = EOC,
           rt[s].size \in Nat, rt[s].size > 0, NEW len \in Nat, NEW left \in Nat,
           left >= len - (IF rt[s].size % ClusterSize # 0
                          THEN ClusterSize - (rt[s].size % ClusterSize) ELSE 0)
    PROVE  ALink(s, rt[s].name, prev, left, len, f, rt, o)
<1> DEFINE k == Cardinality(ReachIn(f, rt[s].first))
           size == rt[s].size
<1>1. Tree(f, rt, {}) /\ Spare(f, rt) \subseteq o
  BY DEF Quiet
<1>2. Chain(f, rt[s].first, {}, size)
  BY <1>1 DEF Tree
<1>3. k \in Nat /\ k * ClusterSize >= size
  BY <1>2, ReachFinite DEF Chain
<1> HIDE DEF k, size
<1>4. size \in Nat /\ size > 0
  BY DEF size
<1>5. left >= len - (IF size % ClusterSize # 0 THEN ClusterSize - (size % ClusterSize) ELSE 0)
  BY DEF size
<1>6. k * ClusterSize + left >= size + len
  BY <1>3, <1>4, <1>5, RoomLeft
<1> QED BY <1>1, <1>6 DEF ALink, k, size

LEMMA AppendLinksKeep ==
    ASSUME NEW f, NEW g, NEW rt, NEW o, NEW s, NEW name, NEW prev, NEW left, NEW len,
           ALink(s, name, prev, left, len, f, rt, o), \A d \in Data : d # prev => g[d] = f[d]
    PROVE  SameBut(f, g, rt, s)
<1>1. s \in NamedSlots(rt) /\ Apart(f, rt) /\ prev \in ReachIn(f, rt[s].first)
  BY DEF ALink, Tree
<1> QED BY <1>1, OthersSame

LEMMA AppendLonger ==
    ASSUME NEW f, NEW g, NEW rt, NEW o, NEW s, NEW name, NEW prev, NEW left, NEW len,
           ALink(s, name, prev, left, len, f, rt, o), Sized(rt),
           NEW n \in Data, f[n] = Free, g[prev] = n, \A d \in Data : d # prev => g[d] = f[d]
    PROVE  /\ Tree(g, rt, {n})
           /\ NamedIn(g, rt) = NamedIn(f, rt) \cup {n}
           /\ n \in ReachIn(g, rt[s].first)
           /\ Cardinality(ReachIn(g, rt[s].first)) = Cardinality(ReachIn(f, rt[s].first)) + 1
<1>1. /\ s \in NamedSlots(rt) /\ Tree(f, rt, {})
      /\ prev \in ReachIn(f, rt[s].first) /\ f[prev] = EOC
  BY DEF ALink
<1> QED BY <1>1, TreeLonger

LEMMA AppendLinksOne ==
    ASSUME NEW f, NEW g, NEW rt, NEW o, NEW s, NEW name, NEW prev,
           NEW left \in Nat, NEW len \in Nat, ALink(s, name, prev, left, len, f, rt, o),
           Sized(rt),
           NEW n \in Data, f[n] = Free, g[prev] = n, \A d \in Data : d # prev => g[d] = f[d]
    PROVE  AMark(s, name, n, left, len, g, rt, o)
<1>1. /\ s \in NamedSlots(rt) /\ rt[s].name = name /\ Tree(f, rt, {})
      /\ prev \in ReachIn(f, rt[s].first) /\ f[prev] = EOC
  BY DEF ALink
<1>2. /\ Tree(g, rt, {n})
      /\ NamedIn(g, rt) = NamedIn(f, rt) \cup {n}
      /\ n \in ReachIn(g, rt[s].first)
      /\ Cardinality(ReachIn(g, rt[s].first)) = Cardinality(ReachIn(f, rt[s].first)) + 1
  BY AppendLonger
<1>3. prev \in Data /\ prev # n
  BY <1>1, ReachType, DataType
<1>4. g[n] = Free
  <2>1. n # prev
    BY <1>3
  <2> QED BY <2>1
<1>5. Spare(g, rt) \subseteq Spare(f, rt)
  <2>1. \A d \in Data : g[d] # Free => f[d] # Free
    BY <1>1, <1>3, DataType
  <2> QED BY <1>2, <2>1 DEF Spare
<1>6. Spare(f, rt) \subseteq o
  BY DEF ALink
<1>7. Cardinality(ReachIn(g, rt[s].first)) * ClusterSize + left
          >= rt[s].size + len + ClusterSize
  <2> DEFINE k == Cardinality(ReachIn(f, rt[s].first))
             size == rt[s].size
  <2>1. k \in Nat /\ k * ClusterSize + left >= size + len
    BY ReachFinite DEF ALink
  <2>2. k * ClusterSize \in Nat /\ (k + 1) * ClusterSize = k * ClusterSize + ClusterSize
    BY <2>1, OneMore
  <2>3. size \in Nat
    BY <1>1 DEF Sized
  <2>4. Cardinality(ReachIn(g, rt[s].first)) = k + 1
    BY <1>2
  <2> HIDE DEF k, size
  <2>5. (k + 1) * ClusterSize + left >= size + len + ClusterSize
    BY <2>1, <2>2, <2>3, VolumeAssumption
  <2> QED BY <2>4, <2>5 DEF size
<1> QED BY <1>1, <1>2, <1>4, <1>5, <1>6, <1>7 DEF AMark

\* The mark of the last cluster of a chain.
LEMMA MarkKeeps ==
    ASSUME NEW f, NEW g, NEW rt, NEW cur, Tree(f, rt, {cur}), f[cur] \notin Data,
           g[cur] = EOC, \A d \in Data : d # cur => g[d] = f[d]
    PROVE  /\ Tree(g, rt, {}) /\ NamedIn(g, rt) = NamedIn(f, rt)
           /\ \A t \in NamedSlots(rt) : ReachIn(g, rt[t].first) = ReachIn(f, rt[t].first)
<1> DEFINE P == {cur}
           Q == {}
<1>1. Tree(f, rt, P)
  OBVIOUS
<1>2. \A d \in NamedIn(f, rt) : \/ g[d] = f[d] /\ (d \in P => d \in Q)
                                \/ f[d] \notin Data /\ g[d] = EOC
  BY DEF NamedIn
<1> HIDE DEF P, Q
<1>3. Tree(g, rt, Q)
  BY <1>1, <1>2, TreeKept
<1>4. \A d \in NamedIn(f, rt) : g[d] = f[d] \/ (g[d] \notin Data /\ f[d] \notin Data)
  BY <1>2, DataType
<1>5. \A t \in NamedSlots(rt) : ReachIn(g, rt[t].first) = ReachIn(f, rt[t].first)
  BY <1>4, NamedKept
<1>6. NamedIn(g, rt) = NamedIn(f, rt)
  BY <1>5 DEF NamedIn
<1> QED BY <1>3, <1>5, <1>6 DEF Q

LEMMA AppendMarksKeep ==
    ASSUME NEW f, NEW g, NEW rt, NEW o, NEW s, NEW name, NEW cur, NEW left, NEW len,
           AMark(s, name, cur, left, len, f, rt, o), \A d \in Data : d # cur => g[d] = f[d]
    PROVE  SameBut(f, g, rt, s)
<1>1. s \in NamedSlots(rt) /\ Apart(f, rt) /\ cur \in ReachIn(f, rt[s].first)
  BY DEF AMark, Tree
<1> QED BY <1>1, OthersSame

LEMMA AppendMarksOne ==
    ASSUME NEW f, NEW g, NEW rt, NEW o, NEW s, NEW name, NEW cur,
           NEW left \in Nat, NEW len \in Nat, AMark(s, name, cur, left, len, f, rt, o),
           Sized(rt),
           NEW left2 \in Nat, left2 + ClusterSize >= left,
           g[cur] = EOC, \A d \in Data : d # cur => g[d] = f[d]
    PROVE  ALink(s, name, cur, left2, len, g, rt, o)
<1>1. /\ s \in NamedSlots(rt) /\ rt[s].name = name /\ Tree(f, rt, {cur})
      /\ cur \in ReachIn(f, rt[s].first) /\ f[cur] = Free
  BY DEF AMark
<1>2. f[cur] \notin Data
  BY <1>1, DataType
<1>3. /\ Tree(g, rt, {}) /\ NamedIn(g, rt) = NamedIn(f, rt)
      /\ \A t \in NamedSlots(rt) : ReachIn(g, rt[t].first) = ReachIn(f, rt[t].first)
  BY <1>1, <1>2, MarkKeeps
<1>4. cur \in NamedIn(f, rt)
  BY <1>1, ReachType DEF NamedIn
<1>5. Spare(g, rt) \subseteq Spare(f, rt)
  BY <1>3, <1>4 DEF Spare
<1>6. Spare(f, rt) \subseteq o
  BY DEF AMark
<1>7. Cardinality(ReachIn(g, rt[s].first)) * ClusterSize + left2 >= rt[s].size + len
  <2> DEFINE k == Cardinality(ReachIn(f, rt[s].first)) * ClusterSize
             size == rt[s].size
  <2>1. k + left >= size + len + ClusterSize
    BY DEF AMark
  <2>2. k \in Nat
    BY ReachFinite, OneMore
  <2>3. size \in Nat
    BY <1>1 DEF Sized
  <2> HIDE DEF k, size
  <2>4. k + left2 >= size + len
    BY <2>1, <2>2, <2>3, VolumeAssumption
  <2> QED BY <1>1, <1>3, <2>4 DEF k, size
<1> QED BY <1>1, <1>3, <1>5, <1>6, <1>7 DEF ALink

LEMMA AppendTells ==
    ASSUME NEW f, NEW rt, NEW rt2, NEW o, NEW s, NEW name, NEW prev, NEW len \in Nat,
           ALink(s, name, prev, 0, len, f, rt, o),
           Sized(rt),
           \A t \in Slots \ {s} : rt2[t] = rt[t],
           rt2[s].name = rt[s].name, rt2[s].first = rt[s].first, rt2[s].size = rt[s].size + len
    PROVE  Quiet(f, rt2, o)
<1>1. Tree(f, rt, {}) /\ Spare(f, rt) \subseteq o /\ s \in NamedSlots(rt)
  BY DEF ALink
<1>2. NamedSlots(rt2) = NamedSlots(rt)
  BY DEF NamedSlots
<1>3. Cardinality(ReachIn(f, rt[s].first)) * ClusterSize >= rt2[s].size
  <2> DEFINE k == Cardinality(ReachIn(f, rt[s].first)) * ClusterSize
  <2>1. k \in Nat
    BY ReachFinite, OneMore
  <2>2. k + 0 >= rt[s].size + len
    BY DEF ALink
  <2> HIDE DEF k
  <2>3. k >= rt2[s].size
    BY <2>1, <2>2
  <2> QED BY <2>3 DEF k
<1>4. ASSUME NEW t \in NamedSlots(rt)
      PROVE  /\ rt2[t].first = rt[t].first
             /\ Cardinality(ReachIn(f, rt[t].first)) * ClusterSize >= rt2[t].size
  <2>1. CASE t = s
    BY <1>3, <2>1
  <2>2. CASE t # s
    <3>1. Chain(f, rt[t].first, {}, rt[t].size)
      BY <1>1 DEF Tree
    <3>2. rt2[t] = rt[t]
      BY <2>2 DEF NamedSlots
    <3> QED BY <3>1, <3>2 DEF Chain
  <2> QED BY <2>1, <2>2
<1>5. Tree(f, rt2, {}) /\ NamedIn(f, rt2) = NamedIn(f, rt)
  BY <1>1, <1>2, <1>4, TreeRetold
<1> QED BY <1>1, <1>5 DEF Quiet, Spare

LEMMA MkdirTakes ==
    ASSUME NEW f, NEW g, NEW rt, NEW o, Quiet(f, rt, o), NEW n \in Data, f[n] = Free,
           g[n] = EOC, \A d \in Data : d # n => g[d] = f[d]
    PROVE  MEntry(n, g, rt, o)
<1>1. Tree(f, rt, {}) /\ Spare(f, rt) \subseteq o /\ n \notin NamedIn(f, rt)
  BY FreeUnnamed DEF Quiet
<1>2. \A d \in NamedIn(f, rt) : g[d] = f[d]
  BY <1>1 DEF NamedIn
<1>3. Tree(g, rt, {}) /\ NamedIn(g, rt) = NamedIn(f, rt)
  BY <1>1, <1>2, TreeKept
<1> QED BY <1>1, <1>3 DEF MEntry, Spare

LEMMA OneIsChain ==
    ASSUME NEW f, NEW cur \in Data, f[cur] = EOC
    PROVE  Chain(f, cur, {}, 0)
<1>1. ReachIn(f, cur) = {cur} /\ Cardinality(ReachIn(f, cur)) = 1
  BY DataType, ReachOne
<1>2. 1 * ClusterSize >= 0
  BY VolumeAssumption
<1> QED BY <1>1, <1>2 DEF Chain

LEMMA MkdirNames ==
    ASSUME NEW f, NEW rt, NEW rt2, NEW o, NEW cur, MEntry(cur, f, rt, o),
           NEW s \in Slots, rt[s].name = NoFile, rt2[s].name # NoFile,
           rt2[s].first = cur, Chain(f, rt2[s].first, {}, rt2[s].size),
           \A t \in Slots \ {s} : rt2[t] = rt[t]
    PROVE  Quiet(f, rt2, o)
<1>1. /\ Tree(f, rt, {}) /\ cur \in Data /\ f[cur] = EOC /\ cur \notin NamedIn(f, rt)
      /\ Spare(f, rt) \subseteq o \cup {cur}
  BY DEF MEntry
<1>2. ReachIn(f, cur) = {cur}
  BY <1>1, DataType, ReachOne
<1>3. ReachIn(f, cur) \cap NamedIn(f, rt) = {} /\ Spare(f, rt) \subseteq o \cup ReachIn(f, cur)
  BY <1>1, <1>2
<1> QED BY <1>1, <1>3, ChainNamed

LEMMA RenameTells ==
    ASSUME NEW f, NEW rt, NEW rt2, NEW o, NEW s \in NamedSlots(rt), Quiet(f, rt, o),
           rt2[s].name # NoFile, rt2[s].first = rt[s].first, rt2[s].size = rt[s].size,
           \A t \in Slots \ {s} : rt2[t] = rt[t]
    PROVE  Quiet(f, rt2, o)
<1>1. Tree(f, rt, {}) /\ Spare(f, rt) \subseteq o
  BY DEF Quiet
<1>2. NamedSlots(rt2) = NamedSlots(rt)
  BY DEF NamedSlots
<1>3. \A t \in NamedSlots(rt) : rt2[t].first = rt[t].first /\ rt2[t].size = rt[t].size
  BY DEF NamedSlots
<1>4. \A t \in NamedSlots(rt) :
        Cardinality(ReachIn(f, rt[t].first)) * ClusterSize >= rt[t].size
  BY <1>1 DEF Tree, Chain
<1>5. Tree(f, rt2, {}) /\ NamedIn(f, rt2) = NamedIn(f, rt)
  BY <1>1, <1>2, <1>3, <1>4, TreeRetold
<1> QED BY <1>1, <1>5 DEF Quiet, Spare

-----------------------------------------------------------------------------
(***************************************************************************)
(* The lock: every step of an operation moves one actor, in one of three   *)
(* ways.                                                                   *)
(***************************************************************************)

\* Where an actor can be: outside the lock, or between its spin_lock and its spin_unlock.
Outside == {"idle", "w_lock", "w_relock", "d_lock", "a_lock", "m_lock", "r_lock",
            "l_find", "l_walk", "t_lock"}
HeldAt == {"w_alloc", "w_mark", "d_free", "a_link", "a_mark", "m_entry"}

\* The inductive invariant: the lock says who is inside, and everybody is somewhere.
LockInv ==
    /\ op \in [Actors -> Outside \cup HeldAt]
    /\ fat32_lock \in BOOLEAN
    /\ FatLockExact

-----------------------------------------------------------------------------
(***************************************************************************)
(* Every step of an operation moves one actor, in one of three ways.       *)
(***************************************************************************)

\* It takes the free lock; it gives up the lock, which it held or nobody did; or it stays
\* on its side.
Enters(a) ==
    ~fat32_lock /\ fat32_lock' = TRUE /\ \E w \in HeldAt : op' = [op EXCEPT ![a] = w]
Exits(a) ==
    /\ op[a] \in HeldAt \/ ~fat32_lock
    /\ fat32_lock' = FALSE /\ \E w \in Outside : op' = [op EXCEPT ![a] = w]
Stays(a) ==
    /\ fat32_lock' = fat32_lock
    /\ \/ op' = op
       \/ op[a] \in HeldAt /\ \E w \in HeldAt : op' = [op EXCEPT ![a] = w]
       \/ op[a] \in Outside /\ \E w \in Outside : op' = [op EXCEPT ![a] = w]

\* Going through spin_lock is entering.
LEMMA LocksEnter ==
    ASSUME NEW a \in Actors, NEW here \in Outside, NEW w \in HeldAt,
           Locks(a, here), Keeps(a, w)
    PROVE  Enters(a)
BY DEF Locks, Keeps, Goes, Enters

\* A return is an exit, from inside or after a lock found free.
LEMMA ReturnsExit ==
    ASSUME NEW a \in Actors, Returns(a), op[a] \in HeldAt \/ ~fat32_lock
    PROVE  Exits(a)
BY DEF Returns, Goes, Exits, Outside

LEMMA DeleteReturnsExit ==
    ASSUME NEW a \in Actors, DeleteReturns(a), op[a] \in HeldAt \/ ~fat32_lock
    PROVE  Exits(a)
BY DEF DeleteReturns, Returns, Goes, Exits, Outside

LEMMA WritesMove ==
    ASSUME NEW a \in Actors, LockInv,
           \/ WriteFinds(a) \/ WriteRelocks(a) \/ WriteAllocates(a)
           \/ WriteMarks(a) \/ WriteEnters(a)
    PROVE  Enters(a) \/ Exits(a) \/ Stays(a)
<1>1. CASE WriteFinds(a)
  <2>1. ~fat32_lock /\ op[a] = "w_lock"
    BY <1>1 DEF WriteFinds, Locks, At
  <2>2. CASE Exists(reg[a].name)
    <3>1. fat32_lock' = fat32_lock /\ op' = [op EXCEPT ![a] = "d_lock"]
      BY <1>1, <2>2 DEF WriteFinds, Goes
    <3> QED BY <2>1, <3>1 DEF Stays, Outside
  <2>3. CASE ~Exists(reg[a].name)
    BY <1>1, <2>1, <2>3 DEF WriteFinds, Keeps, Goes, Enters, HeldAt
  <2> QED BY <2>2, <2>3
<1>2. CASE WriteRelocks(a)
  BY <1>2 DEF WriteRelocks, Locks, Keeps, Goes, Enters, HeldAt
<1>3. CASE WriteAllocates(a)
  <2>1. op[a] \in HeldAt
    BY <1>3 DEF WriteAllocates, At, HeldAt
  <2>2. CASE FreeCluster = 0
    BY <1>3, <2>1, <2>2, ReturnsExit DEF WriteAllocates
  <2>3. CASE FreeCluster # 0
    BY <1>3, <2>1, <2>3 DEF WriteAllocates, Goes, Stays, HeldAt
  <2> QED BY <2>2, <2>3
<1>4. CASE WriteMarks(a)
  <2>1. op[a] \in HeldAt
    BY <1>4 DEF WriteMarks, At, HeldAt
  <2>2. CASE Returns(a)
    BY <2>1, <2>2, ReturnsExit
  <2>3. CASE Goes(a, "w_alloc") /\ fat32_lock' = fat32_lock
    BY <2>1, <2>3 DEF Goes, Stays, HeldAt
  <2> QED BY <1>4, <2>2, <2>3 DEF WriteMarks
<1>5. CASE WriteEnters(a)
  <2>1. op[a] \in HeldAt /\ Returns(a)
    BY <1>5 DEF WriteEnters, At, HeldAt
  <2> QED BY <2>1, ReturnsExit
<1> QED BY <1>1, <1>2, <1>3, <1>4, <1>5

LEMMA DeletesMove ==
    ASSUME NEW a \in Actors, LockInv, DeleteFinds(a) \/ DeleteFrees(a)
    PROVE  Enters(a) \/ Exits(a) \/ Stays(a)
<1>1. CASE DeleteFinds(a)
  <2>1. ~fat32_lock
    BY <1>1 DEF DeleteFinds, Locks
  <2>2. CASE Exists(reg[a].name)
    BY <1>1, <2>1, <2>2 DEF DeleteFinds, Keeps, Goes, Enters, HeldAt
  <2>3. CASE ~Exists(reg[a].name)
    BY <1>1, <2>1, <2>3, DeleteReturnsExit DEF DeleteFinds
  <2> QED BY <2>2, <2>3
<1>2. CASE DeleteFrees(a)
  <2>1. op[a] \in HeldAt
    BY <1>2 DEF DeleteFrees, At, HeldAt
  <2>2. CASE reg[a].cur \in Data
    BY <1>2, <2>2 DEF DeleteFrees, Stays
  <2>3. CASE reg[a].cur \notin Data
    BY <1>2, <2>1, <2>3, DeleteReturnsExit DEF DeleteFrees
  <2> QED BY <2>2, <2>3
<1> QED BY <1>1, <1>2

LEMMA AppendsMove ==
    ASSUME NEW a \in Actors, LockInv,
           AppendFinds(a) \/ AppendLinks(a) \/ AppendMarks(a) \/ AppendEnters(a)
    PROVE  Enters(a) \/ Exits(a) \/ Stays(a)
<1>1. CASE AppendFinds(a)
  <2>1. ~fat32_lock
    BY <1>1 DEF AppendFinds, Locks
  <2>2. CASE Returns(a)
    BY <2>1, <2>2, ReturnsExit
  <2>3. CASE Keeps(a, "a_link")
    BY <2>1, <2>3 DEF Keeps, Goes, Enters, HeldAt
  <2> QED BY <1>1, <2>2, <2>3 DEF AppendFinds
<1>2. CASE AppendLinks(a)
  <2>1. op[a] \in HeldAt
    BY <1>2 DEF AppendLinks, At, HeldAt
  <2>2. CASE FreeCluster = 0
    BY <1>2, <2>1, <2>2, ReturnsExit DEF AppendLinks
  <2>3. CASE FreeCluster # 0
    BY <1>2, <2>1, <2>3 DEF AppendLinks, Goes, Stays, HeldAt
  <2> QED BY <2>2, <2>3
<1>3. CASE AppendMarks(a)
  BY <1>3 DEF AppendMarks, At, Goes, Stays, HeldAt
<1>4. CASE AppendEnters(a)
  <2>1. op[a] \in HeldAt /\ Returns(a)
    BY <1>4 DEF AppendEnters, At, HeldAt
  <2> QED BY <2>1, ReturnsExit
<1> QED BY <1>1, <1>2, <1>3, <1>4

LEMMA DirectoriesMove ==
    ASSUME NEW a \in Actors, LockInv, MkdirAllocates(a) \/ MkdirEnters(a) \/ Renames(a)
    PROVE  Enters(a) \/ Exits(a) \/ Stays(a)
<1>1. CASE MkdirAllocates(a)
  <2>1. ~fat32_lock
    BY <1>1 DEF MkdirAllocates, Locks
  <2>2. CASE Returns(a)
    BY <2>1, <2>2, ReturnsExit
  <2>3. CASE Keeps(a, "m_entry")
    BY <2>1, <2>3 DEF Keeps, Goes, Enters, HeldAt
  <2> QED BY <1>1, <2>2, <2>3 DEF MkdirAllocates
<1>2. CASE MkdirEnters(a)
  <2>1. op[a] \in HeldAt /\ Returns(a)
    BY <1>2 DEF MkdirEnters, At, HeldAt
  <2> QED BY <2>1, ReturnsExit
<1>3. CASE Renames(a)
  <2>1. ~fat32_lock /\ Returns(a)
    BY <1>3 DEF Renames, Locks
  <2> QED BY <2>1, ReturnsExit
<1> QED BY <1>1, <1>2, <1>3

\* Who only reads never keeps the lock.
LEMMA ReadsMove ==
    ASSUME NEW a \in Actors, LockInv,
           ReadFinds(a) \/ ReadSteps(a) \/ ReadEnds(a) \/ CatFinds(a)
    PROVE  Stays(a)
<1>1. CASE ReadFinds(a)
  BY <1>1 DEF ReadFinds, At, Goes, Stays, Outside
<1>2. CASE ReadSteps(a)
  BY <1>2 DEF ReadSteps, Stays
<1>3. CASE ReadEnds(a)
  BY <1>3 DEF ReadEnds, At, Goes, Stays, Outside
<1>4. CASE CatFinds(a)
  BY <1>4 DEF CatFinds, Locks, At, Goes, Stays, Outside
<1> QED BY <1>1, <1>2, <1>3, <1>4

\* A call begins outside.
LEMMA CallsMove ==
    ASSUME LockInv, Command(Shell) \/ Command(Prog) \/ Call
    PROVE  \E a \in Actors : Stays(a)
<1>1. \A a \in Actors, w \in Outside : \A r : Starts(a, w, r) => Stays(a)
  BY DEF Starts, At, Goes, Stays, Outside
<1>2. ASSUME NEW a \in Actors, Command(a) PROVE Stays(a)
  <2>1. PICK n \in FileNames :
          \/ Starts(a, "d_lock", [Blank EXCEPT !.name = n])
          \/ Starts(a, "m_lock", [Blank EXCEPT !.name = n])
          \/ Starts(a, "t_lock", [Blank EXCEPT !.name = n])
          \/ \E k \in Lengths \ {0} :
               Starts(a, "a_lock", [Blank EXCEPT !.name = n, !.len = k, !.left = k])
          \/ \E d \in FileNames : Starts(a, "l_find", [Blank EXCEPT !.name = n, !.dest = d])
    BY <1>2 DEF Command
  <2>2. \E w \in Outside : \E r : Starts(a, w, r)
    BY <2>1 DEF Outside
  <2> QED BY <1>1, <2>2
<1>3. ASSUME Call PROVE Stays(Prog)
  <2>1. \E w \in Outside : \E r : Starts(Prog, w, r)
    BY <1>3 DEF Call, Outside
  <2> QED BY <1>1, <2>1 DEF Actors
<1> QED BY <1>2, <1>3 DEF Actors

-----------------------------------------------------------------------------
(***************************************************************************)
(* The invariant.                                                          *)
(***************************************************************************)

LEMMA LockInit == FatInit => LockInv
BY DEF FatInit, LockInv, FatLockExact, Inside, Outside

\* A move of one actor keeps the lock and those inside in step.
LEMMA MovesKeep ==
    ASSUME LockInv, NEW a \in Actors, Enters(a) \/ Exits(a) \/ Stays(a)
    PROVE  LockInv'
<1> USE DEF LockInv, FatLockExact, Inside
<1>0. \A b \in Actors : Inside(b) <=> op[b] \in HeldAt
  BY DEF HeldAt
<1>a. \A b \in Actors : Inside(b)' <=> op'[b] \in HeldAt
  BY DEF HeldAt
<1>b. \A w \in HeldAt : w \notin Outside
  BY DEF HeldAt, Outside
<1> HIDE DEF Inside
<1>1. CASE Enters(a)
  <2>1. PICK w \in HeldAt : op' = [op EXCEPT ![a] = w]
    BY <1>1 DEF Enters
  <2>2. \A b \in Actors : op[b] \notin HeldAt
    BY <1>0, <1>1 DEF Enters
  <2>3. \A b \in Actors : op'[b] \in HeldAt <=> b = a
    BY <2>1, <2>2
  <2> QED BY <1>1, <1>a, <2>1, <2>3 DEF Enters
<1>2. CASE Exits(a)
  <2>1. PICK w \in Outside : op' = [op EXCEPT ![a] = w]
    BY <1>2 DEF Exits
  <2>2. \A b \in Actors \ {a} : op[b] \notin HeldAt
    BY <1>0, <1>2 DEF Exits
  <2>3. \A b \in Actors : op'[b] \notin HeldAt
    BY <1>b, <2>1, <2>2
  <2> QED BY <1>2, <1>a, <2>1, <2>3 DEF Exits
<1>3. CASE Stays(a)
  <2>1. op' \in [Actors -> Outside \cup HeldAt]
    BY <1>3 DEF Stays
  <2>2. \A b \in Actors : op'[b] \in HeldAt <=> op[b] \in HeldAt
    BY <1>3, <1>b DEF Stays
  <2>3. fat32_lock' = fat32_lock
    BY <1>3 DEF Stays
  <2> QED BY <1>0, <1>a, <2>1, <2>2, <2>3
<1> QED BY <1>1, <1>2, <1>3

LEMMA LockStep == LockInv /\ [FatNext]_fatvars => LockInv'
<1> SUFFICES ASSUME LockInv, [FatNext]_fatvars PROVE LockInv'
  OBVIOUS
<1>1. CASE UNCHANGED fatvars
  BY <1>1 DEF LockInv, FatLockExact, Inside, fatvars
<1>2. ASSUME NEW a \in Actors, Works(a) PROVE LockInv'
  <2>1. Enters(a) \/ Exits(a) \/ Stays(a)
    BY <1>2, WritesMove, DeletesMove, AppendsMove, DirectoriesMove, ReadsMove DEF Works
  <2> QED BY <2>1, MovesKeep
<1>3. CASE Command(Shell) \/ Command(Prog) \/ Call
  BY <1>3, CallsMove, MovesKeep
<1>4. CASE PowerLost
  BY <1>4 DEF PowerLost, LockInv, FatLockExact, Inside, Outside
<1> QED BY <1>1, <1>2, <1>3, <1>4 DEF FatNext

\* No early return of the driver keeps fat32_lock, and no two callers are inside at once
\* (every spin_lock and spin_unlock of fat32_file.c, fat32_dir.c and fat32_logic.c).
THEOREM FatLockIsExact == FatSpec => []FatLockExact
<1>1. LockInv => FatLockExact
  BY DEF LockInv
<1> QED BY LockInit, LockStep, <1>1, PTL DEF FatSpec

-----------------------------------------------------------------------------
(***************************************************************************)
(* Types: what the local variables of an operation hold at each place.     *)
(***************************************************************************)

Names == FileNames \cup {NoFile}
Entries == [name : Names, dir : BOOLEAN, first : {0} \cup Data, size : Nat]
Regs == [name : Names, dest : Names, len : Nat, left : Nat,
         prev : Nat, first : Nat, cur : Nat, over : BOOLEAN]
Tables == [0 .. LastCluster -> {Free, EOC} \cup Data]

\* What the local variables r of an operation hold at the place w.
RegFits(w, r) ==
    /\ w \in {"w_lock", "w_relock", "w_alloc", "w_mark", "d_lock", "d_free", "a_lock", "m_lock",
              "m_entry", "r_lock"} => r.name \in FileNames
    /\ w = "r_lock" => r.dest \in FileNames
    /\ w \in {"w_lock", "w_relock", "d_lock", "d_free", "a_lock"} =>
           r.prev = 0 /\ r.first = 0 /\ r.left = r.len
    /\ w \in {"w_alloc", "w_mark"} => r.first \in {0} \cup Data
    /\ w \in {"w_mark", "a_mark", "m_entry"} => r.cur \in Data
    /\ w \in {"a_link", "a_mark"} => r.first \in Slots

TypeInv ==
    /\ fat \in Tables /\ root \in [Slots -> Entries]
    /\ torn \in BOOLEAN /\ orphans \subseteq Data
    /\ reg \in [Actors -> Regs]
    /\ \A a \in Actors : RegFits(op[a], reg[a])

\* One actor moves to w, with r in its variables.
MovesFat(a, w, r) ==
    /\ r \in Regs /\ RegFits(w, r)
    /\ op' = [op EXCEPT ![a] = w] /\ reg' = [reg EXCEPT ![a] = r]

LEMMA MovesFit ==
    ASSUME LockInv, TypeInv, NEW a \in Actors, NEW w, NEW r, MovesFat(a, w, r)
    PROVE  /\ op'[a] = w /\ reg'[a] = r
           /\ \A b \in Actors \ {a} : op'[b] = op[b] /\ reg'[b] = reg[b]
           /\ reg' \in [Actors -> Regs]
           /\ \A b \in Actors : RegFits(op'[b], reg'[b])
<1>1. op \in [Actors -> Outside \cup HeldAt] /\ reg \in [Actors -> Regs]
  BY DEF LockInv, TypeInv
<1>2. /\ op'[a] = w /\ reg'[a] = r
      /\ \A b \in Actors \ {a} : op'[b] = op[b] /\ reg'[b] = reg[b]
  BY <1>1 DEF MovesFat
<1>3. reg' \in [Actors -> Regs]
  BY <1>1 DEF MovesFat
<1>4. ASSUME NEW b \in Actors PROVE RegFits(op'[b], reg'[b])
  <2>1. CASE b = a
    BY <1>2, <2>1 DEF MovesFat
  <2>2. CASE b # a
    BY <1>2, <2>2 DEF TypeInv
  <2> QED BY <2>1, <2>2
<1> QED BY <1>2, <1>3, <1>4

LEMMA BlankFits == Blank \in Regs /\ RegFits("idle", Blank)
BY DEF Blank, Regs, Names, RegFits

LEMMA ReturnsMoves == ASSUME NEW a \in Actors, Returns(a) PROVE MovesFat(a, "idle", Blank)
BY BlankFits DEF Returns, Goes, Sets, MovesFat

\* The registers of the actor that moves.
LEMMA RegsOf ==
    ASSUME TypeInv, NEW a \in Actors
    PROVE  /\ reg[a] \in Regs /\ RegFits(op[a], reg[a])
           /\ reg[a].name \in Names /\ reg[a].dest \in Names
           /\ reg[a].len \in Nat /\ reg[a].left \in Nat /\ reg[a].prev \in Nat
           /\ reg[a].first \in Nat /\ reg[a].cur \in Nat /\ reg[a].over \in BOOLEAN
<1>1. reg[a] \in Regs /\ RegFits(op[a], reg[a])
  BY DEF TypeInv
<1> QED BY <1>1 DEF Regs

\* A step of a cluster takes what is left down.
LEMMA StepsDown ==
    ASSUME NEW left \in Nat
    PROVE  LET l == IF left > ClusterSize THEN left - ClusterSize ELSE 0
           IN  l \in Nat /\ l + ClusterSize >= left
BY VolumeAssumption

\* A deletion that returns goes back to the write that asked for it, or ends.
LEMMA DeleteReturnsMoves ==
    ASSUME TypeInv, NEW a \in Actors, op[a] \in {"d_lock", "d_free"}, DeleteReturns(a)
    PROVE  \E w \in {"idle", "w_relock"} : \E r : MovesFat(a, w, r)
<1>1. CASE reg[a].over
  <2> DEFINE r == [reg[a] EXCEPT !.over = FALSE, !.cur = 0]
  <2>1. op' = [op EXCEPT ![a] = "w_relock"] /\ reg' = [reg EXCEPT ![a] = r]
    BY <1>1 DEF DeleteReturns, Goes, Sets
  <2>2. /\ reg[a].prev = 0 /\ reg[a].first = 0 /\ reg[a].left = reg[a].len
        /\ reg[a].name \in FileNames
    BY RegsOf DEF RegFits
  <2>3. r \in Regs
    BY RegsOf DEF Regs
  <2>4. RegFits("w_relock", r)
    <3>1. /\ r.name = reg[a].name /\ r.prev = reg[a].prev /\ r.first = reg[a].first
          /\ r.left = reg[a].left /\ r.len = reg[a].len
      BY RegsOf DEF Regs
    <3> HIDE DEF r
    <3> QED BY <1>1, <2>2, <3>1 DEF RegFits
  <2> QED BY <2>1, <2>3, <2>4 DEF MovesFat
<1>2. CASE ~reg[a].over
  <2>1. Returns(a)
    BY <1>2 DEF DeleteReturns
  <2> QED BY <2>1, ReturnsMoves
<1> QED BY <1>1, <1>2

\* What a write to the table, a lock, a return or a loss of hope leaves well typed.
LEMMA SetsTable ==
    ASSUME TypeInv, NEW c, NEW v \in {Free, EOC} \cup Data, SetEntry(c, v)
    PROVE  fat' \in Tables /\ (\A d \in Data : d # c => fat'[d] = fat[d])
           /\ (c \in Data => fat'[c] = v)
<1>1. fat \in Tables
  BY DEF TypeInv
<1> QED BY <1>1, DataType DEF SetEntry, Tables

LEMMA HandsType == ASSUME TypeInv, NEW a \in Actors PROVE InHands(a) \subseteq Data
<1>1. RegFits(op[a], reg[a])
  BY RegsOf
<1> QED
  <2>1. CASE op[a] \in {"w_alloc", "w_mark"}
    BY <2>1, ReachType DEF InHands, Reach
  <2>2. CASE op[a] = "d_free"
    BY <2>2, ReachType DEF InHands, Reach
  <2>3. CASE op[a] = "m_entry"
    BY <1>1, <2>3 DEF InHands, RegFits
  <2>4. CASE op[a] \notin {"w_alloc", "w_mark", "d_free", "m_entry"}
    BY <2>4 DEF InHands
  <2> QED BY <2>1, <2>2, <2>3, <2>4

LEMMA GivesUpType ==
    ASSUME TypeInv, NEW a \in Actors, GivesUp(a)
    PROVE  orphans' \subseteq Data
BY HandsType DEF GivesUp, TypeInv

\* The whole of TypeInv after a move.
LEMMA MovesType ==
    ASSUME LockInv, TypeInv, NEW a \in Actors, NEW w, NEW r, MovesFat(a, w, r),
           fat' \in Tables, root' \in [Slots -> Entries], torn' \in BOOLEAN,
           orphans' \subseteq Data
    PROVE  TypeInv'
BY MovesFit DEF TypeInv

-----------------------------------------------------------------------------
(***************************************************************************)
(* The inductive invariant, and how a step of one actor keeps it.          *)
(***************************************************************************)

\* What the disk f, rt is to an actor at w with the variables r.
Stage(w, r, f, rt, o) ==
    /\ w \notin HeldAt => Quiet(f, rt, o)
    /\ w = "w_alloc" => WAlloc(r.first, r.prev, r.left, r.len, f, rt, o)
    /\ w = "w_mark"  => WMark(r.first, r.cur, r.left, r.len, f, rt, o)
    /\ w = "d_free"  => DFree(r.cur, f, rt, o)
    /\ w = "a_link"  => ALink(r.first, r.name, r.prev, r.left, r.len, f, rt, o)
    /\ w = "a_mark"  => AMark(r.first, r.name, r.cur, r.left, r.len, f, rt, o)
    /\ w = "m_entry" => MEntry(r.cur, f, rt, o)

\* The disk is what the one inside makes of it, and quiet when nobody is.
DiskInv ==
    /\ ~fat32_lock => Quiet(fat, root, orphans)
    /\ \A a \in Actors : op[a] \in HeldAt => Stage(op[a], reg[a], fat, root, orphans)

\* Files a was not called for keep their entry and their clusters.
Kept(a) ==
    \A s \in Slots : \A n \in FileNames \ {reg[a].name, reg[a].dest} :
        root[s].name = n \/ root'[s].name = n =>
            root'[s] = root[s] /\ ReachIn(fat', root[s].first) = ReachIn(fat, root[s].first)

DiskType ==
    /\ fat \in Tables /\ root \in [Slots -> Entries]
    /\ torn \in BOOLEAN /\ orphans \subseteq Data

\* A step of an actor that is alone at the disk, to w with r in its variables.
TakesFat(a, w, r) ==
    /\ op[a] \in HeldAt \/ ~fat32_lock
    /\ MovesFat(a, w, r) /\ DiskType'
    /\ torn => torn'
    /\ DiskInv /\ ~torn' => Stage(w, r, fat', root', orphans') /\ Kept(a)
ServesFat(a) == \E w, r : TakesFat(a, w, r)

\* A step that leaves the disk and the lock alone.
Looks(a) ==
    /\ UNCHANGED <<fat, root, fat32_lock, torn, orphans>>
    /\ \E w \in Outside : \E r : op[a] \in Outside /\ MovesFat(a, w, r)

-----------------------------------------------------------------------------

LEMMA KeptRoot ==
    ASSUME NEW a \in Actors, fat' = fat, NEW s \in Slots,
           \A t \in Slots \ {s} : root'[t] = root[t],
           root[s].name \in {NoFile, reg[a].name, reg[a].dest},
           root'[s].name \in {NoFile, reg[a].name, reg[a].dest}
    PROVE  Kept(a)
<1> SUFFICES ASSUME NEW t \in Slots, NEW n \in FileNames \ {reg[a].name, reg[a].dest},
                    root[t].name = n \/ root'[t].name = n
             PROVE  /\ root'[t] = root[t]
                    /\ ReachIn(fat', root[t].first) = ReachIn(fat, root[t].first)
  BY DEF Kept
<1>1. n # NoFile
  BY VolumeAssumption
<1>2. t # s
  BY <1>1
<1> QED BY <1>2

LEMMA KeptTable ==
    ASSUME NEW a \in Actors, root' = root, NEW c, c \notin NamedIn(fat, root),
           \A d \in Data : d # c => fat'[d] = fat[d]
    PROVE  Kept(a)
<1>1. \A d \in NamedIn(fat, root) : fat'[d] = fat[d]
  BY DEF NamedIn
<1>2. \A s \in NamedSlots(root) : ReachIn(fat', root[s].first) = ReachIn(fat, root[s].first)
  BY <1>1, NamedKept
<1>3. \A s \in Slots : \A n \in FileNames : root[s].name = n => s \in NamedSlots(root)
  BY VolumeAssumption DEF NamedSlots
<1> QED BY <1>2, <1>3 DEF Kept

LEMMA KeptSame == ASSUME NEW a \in Actors, UNCHANGED disk PROVE Kept(a)
BY DEF Kept, disk

\* What is inside once an actor alone at the disk has moved.
LEMMA ServesKeep ==
    ASSUME LockInv, LockInv', TypeInv, torn \/ DiskInv, NEW a \in Actors, ServesFat(a)
    PROVE  TypeInv' /\ (torn' \/ (DiskInv' /\ Kept(a)))
<1>1. PICK w, r : TakesFat(a, w, r)
  BY DEF ServesFat
<1>2. TypeInv'
  BY <1>1, MovesType DEF TakesFat, DiskType
<1>3. ASSUME ~torn' PROVE DiskInv' /\ Kept(a)
  <2>1. Stage(w, r, fat', root', orphans') /\ Kept(a)
    BY <1>1, <1>3 DEF TakesFat
  <2>2. op'[a] = w /\ reg'[a] = r /\ \A b \in Actors \ {a} : op'[b] = op[b]
    BY <1>1, MovesFit DEF TakesFat
  <2>3. \A b \in Actors \ {a} : op[b] \notin HeldAt
    BY <1>1 DEF TakesFat, LockInv, FatLockExact, Inside, HeldAt
  <2>4. \A b \in Actors : op'[b] \in HeldAt => b = a
    BY <2>2, <2>3
  <2>5. ~fat32_lock' => w \notin HeldAt
    BY <2>2 DEF LockInv, FatLockExact, Inside, HeldAt
  <2>6. ~fat32_lock' => Quiet(fat', root', orphans')
    BY <2>1, <2>5 DEF Stage
  <2> QED BY <2>1, <2>2, <2>4, <2>6 DEF DiskInv
<1> QED BY <1>2, <1>3

LEMMA LooksKeep ==
    ASSUME LockInv, TypeInv, torn \/ DiskInv, NEW a \in Actors, Looks(a)
    PROVE  TypeInv' /\ (torn' \/ (DiskInv' /\ Kept(a)))
<1>0. PICK w \in Outside : \E r : op[a] \in Outside /\ MovesFat(a, w, r)
  BY DEF Looks
<1>1. PICK r : op[a] \in Outside /\ MovesFat(a, w, r)
  BY <1>0
<1>2. /\ fat' = fat /\ root' = root /\ fat32_lock' = fat32_lock /\ torn' = torn
      /\ orphans' = orphans
  BY DEF Looks
<1>3. TypeInv'
  <2>1. fat' \in Tables /\ root' \in [Slots -> Entries] /\ torn' \in BOOLEAN /\ orphans' \subseteq Data
    BY <1>2 DEF TypeInv
  <2> QED BY <1>1, <2>1, MovesType
<1>4. ASSUME DiskInv PROVE DiskInv'
  <2>1. op'[a] = w /\ \A b \in Actors \ {a} : op'[b] = op[b] /\ reg'[b] = reg[b]
    BY <1>1, MovesFit
  <2>2. w \notin HeldAt
    BY DEF Outside, HeldAt
  <2> QED BY <1>2, <1>4, <2>1, <2>2 DEF DiskInv
<1>5. Kept(a)
  BY <1>2 DEF Kept
<1> QED BY <1>2, <1>3, <1>4, <1>5

-----------------------------------------------------------------------------
\* What an operation in progress knows of the disk.
LEMMA StageNow ==
    ASSUME DiskInv, NEW a \in Actors
    PROVE  /\ ~fat32_lock => Quiet(fat, root, orphans)
           /\ op[a] = "w_alloc" => WAlloc(reg[a].first, reg[a].prev, reg[a].left, reg[a].len,
                                          fat, root, orphans)
           /\ op[a] = "w_mark" => WMark(reg[a].first, reg[a].cur, reg[a].left, reg[a].len,
                                        fat, root, orphans)
           /\ op[a] = "d_free" => DFree(reg[a].cur, fat, root, orphans)
           /\ op[a] = "a_link" => ALink(reg[a].first, reg[a].name, reg[a].prev, reg[a].left,
                                        reg[a].len, fat, root, orphans)
           /\ op[a] = "a_mark" => AMark(reg[a].first, reg[a].name, reg[a].cur, reg[a].left,
                                        reg[a].len, fat, root, orphans)
           /\ op[a] = "m_entry" => MEntry(reg[a].cur, fat, root, orphans)
<1>1. op[a] \in HeldAt => Stage(op[a], reg[a], fat, root, orphans)
  BY DEF DiskInv
<1> QED BY <1>1 DEF DiskInv, Stage, HeldAt

\* Giving up hands the clusters over to the lost ones.
LEMMA HandsNow ==
    ASSUME NEW a \in Actors
    PROVE  /\ op[a] \in {"w_alloc", "w_mark"} =>
                InHands(a) = {c \in ReachIn(fat, reg[a].first) : fat[c] # Free}
           /\ op[a] = "d_free" => InHands(a) = {c \in ReachIn(fat, reg[a].cur) : fat[c] # Free}
           /\ op[a] = "m_entry" => InHands(a) = {c \in {reg[a].cur} : fat[c] # Free}
BY DEF InHands, Reach

LEMMA StageGivesUp ==
    ASSUME DiskInv, NEW a \in Actors, op[a] \in HeldAt, op[a] # "a_mark",
           NEW o, orphans \cup InHands(a) \subseteq o
    PROVE  Quiet(fat, root, o)
<1>1. \A c \in Spare(fat, root) : fat[c] # Free
  BY DEF Spare
<1>2. CASE op[a] = "w_alloc"
  BY <1>1, <1>2, StageNow, HandsNow DEF WAlloc, Quiet
<1>3. CASE op[a] = "w_mark"
  BY <1>1, <1>3, StageNow, HandsNow DEF WMark, Quiet
<1>4. CASE op[a] = "d_free"
  BY <1>1, <1>4, StageNow, HandsNow DEF DFree, Quiet
<1>5. CASE op[a] = "a_link"
  BY <1>1, <1>5, StageNow DEF ALink, Quiet
<1>6. CASE op[a] = "m_entry"
  BY <1>1, <1>6, StageNow, HandsNow DEF MEntry, Quiet
<1> QED BY <1>2, <1>3, <1>4, <1>5, <1>6 DEF HeldAt

-----------------------------------------------------------------------------
(***************************************************************************)
(* Every step of an operation is such a step.                              *)
(***************************************************************************)

LEMMA QuietStage ==
    ASSUME NEW w \in Outside, NEW r, NEW f, NEW rt, NEW o, Quiet(f, rt, o)
    PROVE  Stage(w, r, f, rt, o)
<1>1. w \notin HeldAt
  BY DEF Outside, HeldAt
<1> QED BY <1>1 DEF Stage, HeldAt

\* An operation that returns is done well when it leaves the disk quiet.
LEMMA ReturnServes ==
    ASSUME NEW a \in Actors, Returns(a), op[a] \in HeldAt \/ ~fat32_lock, DiskType',
           torn => torn', DiskInv /\ ~torn' => Quiet(fat', root', orphans') /\ Kept(a)
    PROVE  ServesFat(a)
<1>1. MovesFat(a, "idle", Blank)
  BY ReturnsMoves
<1>2. "idle" \in Outside
  BY DEF Outside
<1>3. TakesFat(a, "idle", Blank)
  BY <1>1, <1>2, QuietStage DEF TakesFat
<1> QED BY <1>3 DEF ServesFat

\* It gives up: the disk stays as it is.
LEMMA GivesUpServes ==
    ASSUME TypeInv, NEW a \in Actors, Returns(a), GivesUp(a), op[a] \in HeldAt, op[a] # "a_mark",
           UNCHANGED <<fat, root, torn>>
    PROVE  ServesFat(a)
<1>1. orphans' \subseteq Data
  BY GivesUpType
<1>2. DiskType'
  BY <1>1 DEF DiskType, TypeInv
<1>3. orphans \cup InHands(a) \subseteq orphans'
  BY DEF GivesUp
<1>4. ASSUME DiskInv PROVE Quiet(fat', root', orphans')
  BY <1>3, <1>4, StageGivesUp
<1>5. Kept(a)
  BY KeptSame DEF disk
<1> QED BY <1>2, <1>4, <1>5, ReturnServes

\* A search that finds nothing, a full disk where nothing was taken: back as it was.
LEMMA IdleServes ==
    ASSUME TypeInv, NEW a \in Actors, Returns(a), ~fat32_lock,
           UNCHANGED <<fat, root, torn, orphans>>
    PROVE  ServesFat(a)
<1>1. DiskType'
  BY DEF DiskType, TypeInv
<1>2. ASSUME DiskInv PROVE Quiet(fat', root', orphans') /\ Kept(a)
  BY <1>2, StageNow, KeptSame DEF disk
<1> QED BY <1>1, <1>2, ReturnServes

\* The registers after a step keep the fields it does not set.
LEMMA RegCur ==
    ASSUME NEW q \in Regs, NEW c \in Nat
    PROVE  LET r == [q EXCEPT !.cur = c]
           IN  /\ r \in Regs /\ r.cur = c
               /\ r.name = q.name /\ r.dest = q.dest /\ r.prev = q.prev /\ r.first = q.first
               /\ r.left = q.left /\ r.len = q.len
BY DEF Regs

LEMMA WriteFindsServes ==
    ASSUME TypeInv, NEW a \in Actors, WriteFinds(a)
    PROVE  ServesFat(a)
<1>1. op[a] = "w_lock" /\ ~fat32_lock /\ UNCHANGED <<fat, root, torn, orphans>>
  BY DEF WriteFinds, Locks, At
<1>2. /\ reg[a].name \in FileNames /\ reg[a].prev = 0 /\ reg[a].first = 0
      /\ reg[a].left = reg[a].len /\ reg[a] \in Regs /\ reg[a].len \in Nat
  BY <1>1, RegsOf DEF RegFits
<1>3. DiskType' /\ Kept(a)
  BY <1>1, KeptSame DEF DiskType, TypeInv, disk
<1>4. CASE Exists(reg[a].name)
  <2> DEFINE r == [reg[a] EXCEPT !.over = TRUE]
  <2>1. /\ r \in Regs /\ r.name = reg[a].name /\ r.prev = reg[a].prev /\ r.first = reg[a].first
        /\ r.left = reg[a].left /\ r.len = reg[a].len
    BY <1>2 DEF Regs
  <2>2. op' = [op EXCEPT ![a] = "d_lock"] /\ reg' = [reg EXCEPT ![a] = r]
    BY <1>4 DEF WriteFinds, Goes, Sets
  <2> HIDE DEF r
  <2>3. RegFits("d_lock", r)
    BY <1>2, <2>1 DEF RegFits
  <2>4. MovesFat(a, "d_lock", r)
    BY <2>1, <2>2, <2>3 DEF MovesFat
  <2>5. ASSUME DiskInv PROVE Stage("d_lock", r, fat', root', orphans')
    BY <1>1, <2>5, StageNow, QuietStage DEF Outside
  <2>6. TakesFat(a, "d_lock", r)
    BY <1>1, <1>3, <2>4, <2>5 DEF TakesFat
  <2> QED BY <2>6 DEF ServesFat
<1>5. CASE ~Exists(reg[a].name)
  <2>1. op' = [op EXCEPT ![a] = "w_alloc"] /\ reg' = [reg EXCEPT ![a] = reg[a]]
    BY <1>5 DEF WriteFinds, Keeps, Goes, TypeInv
  <2>2. RegFits("w_alloc", reg[a])
    BY <1>2 DEF RegFits
  <2>3. MovesFat(a, "w_alloc", reg[a])
    BY <1>2, <2>1, <2>2 DEF MovesFat
  <2>4. ASSUME DiskInv PROVE Stage("w_alloc", reg[a], fat', root', orphans')
    <3>1. Quiet(fat, root, orphans)
      BY <1>1, <2>4, StageNow
    <3>2. WAlloc(0, 0, reg[a].len, reg[a].len, fat, root, orphans)
      BY <1>2, <3>1, WriteBegins
    <3> QED BY <1>1, <1>2, <3>2 DEF Stage, HeldAt
  <2>5. TakesFat(a, "w_alloc", reg[a])
    BY <1>1, <1>3, <2>3, <2>4 DEF TakesFat
  <2> QED BY <2>5 DEF ServesFat
<1> QED BY <1>4, <1>5

LEMMA WriteRelocksServes ==
    ASSUME TypeInv, NEW a \in Actors, WriteRelocks(a)
    PROVE  ServesFat(a)
<1>1. op[a] = "w_relock" /\ ~fat32_lock /\ UNCHANGED <<fat, root, torn, orphans>>
  BY DEF WriteRelocks, Locks, At
<1>2. /\ reg[a].name \in FileNames /\ reg[a].prev = 0 /\ reg[a].first = 0
      /\ reg[a].left = reg[a].len /\ reg[a] \in Regs /\ reg[a].len \in Nat
  BY <1>1, RegsOf DEF RegFits
<1>3. DiskType' /\ Kept(a)
  BY <1>1, KeptSame DEF DiskType, TypeInv, disk
<1>4. op' = [op EXCEPT ![a] = "w_alloc"] /\ reg' = [reg EXCEPT ![a] = reg[a]]
  BY DEF WriteRelocks, Keeps, Goes, TypeInv
<1>5. RegFits("w_alloc", reg[a])
  BY <1>2 DEF RegFits
<1>6. MovesFat(a, "w_alloc", reg[a])
  BY <1>2, <1>4, <1>5 DEF MovesFat
<1>7. ASSUME DiskInv PROVE Stage("w_alloc", reg[a], fat', root', orphans')
  <2>1. Quiet(fat, root, orphans)
    BY <1>1, <1>7, StageNow
  <2>2. WAlloc(0, 0, reg[a].len, reg[a].len, fat, root, orphans)
    BY <1>2, <2>1, WriteBegins
  <2> QED BY <1>1, <1>2, <2>2 DEF Stage, HeldAt
<1>8. TakesFat(a, "w_alloc", reg[a])
  BY <1>1, <1>3, <1>6, <1>7 DEF TakesFat
<1> QED BY <1>8 DEF ServesFat

LEMMA WriteAllocatesServes ==
    ASSUME TypeInv, NEW a \in Actors, WriteAllocates(a)
    PROVE  ServesFat(a)
<1>1. op[a] = "w_alloc" /\ op[a] \in HeldAt /\ UNCHANGED <<root, torn>>
  BY DEF WriteAllocates, At, HeldAt
<1>2. /\ reg[a].name \in FileNames /\ reg[a].first \in {0} \cup Data /\ reg[a] \in Regs
      /\ reg[a].len \in Nat /\ reg[a].left \in Nat /\ reg[a].prev \in Nat
  BY <1>1, RegsOf DEF RegFits
<1>3. CASE FreeCluster = 0
  BY <1>1, <1>3, GivesUpServes DEF WriteAllocates
<1>4. CASE FreeCluster # 0
  <2> DEFINE n == FreeCluster
             r == [reg[a] EXCEPT !.cur = n, !.first = IF @ = 0 THEN n ELSE @]
  <2>1. n \in Data /\ fat[n] = Free /\ n # 0 /\ n \in Nat
    BY <1>4, FreeIsFree, DataType
  <2>2. /\ op' = [op EXCEPT ![a] = "w_mark"] /\ reg' = [reg EXCEPT ![a] = r]
        /\ orphans' = orphans
        /\ IF reg[a].prev # 0 THEN SetEntry(reg[a].prev, n) ELSE fat' = fat
    BY <1>4 DEF WriteAllocates, Goes, Sets
  <2> HIDE DEF n
  <2>3. /\ r \in Regs /\ r.name = reg[a].name /\ r.prev = reg[a].prev /\ r.cur = n
        /\ r.first = (IF reg[a].first = 0 THEN n ELSE reg[a].first)
        /\ r.left = reg[a].left /\ r.len = reg[a].len
    BY <1>2, <2>1 DEF Regs
  <2> HIDE DEF r
  <2>4. RegFits("w_mark", r)
    BY <1>2, <2>1, <2>3 DEF RegFits
  <2>5. MovesFat(a, "w_mark", r)
    BY <2>2, <2>3, <2>4 DEF MovesFat
  <2>6. CASE reg[a].prev = 0
    <3>1. fat' = fat
      BY <2>2, <2>6
    <3>2. DiskType' /\ Kept(a)
      BY <1>1, <2>2, <3>1, KeptSame DEF DiskType, TypeInv, disk
    <3>3. ASSUME DiskInv PROVE Stage("w_mark", r, fat', root', orphans')
      <4>1. WAlloc(reg[a].first, 0, reg[a].left, reg[a].len, fat, root, orphans)
        BY <1>1, <2>6, <3>3, StageNow
      <4>2. reg[a].first = 0 /\ WMark(n, n, reg[a].left, reg[a].len, fat, root, orphans)
        BY <1>2, <2>1, <4>1, WriteTakesFirst
      <4> QED BY <1>1, <2>2, <2>3, <3>1, <4>2 DEF Stage, HeldAt
    <3>4. TakesFat(a, "w_mark", r)
      BY <1>1, <2>5, <3>2, <3>3 DEF TakesFat
    <3> QED BY <3>4 DEF ServesFat
  <2>7. CASE reg[a].prev # 0
    <3>1. SetEntry(reg[a].prev, n)
      BY <2>2, <2>7
    <3>2. /\ fat' \in Tables /\ \A d \in Data : d # reg[a].prev => fat'[d] = fat[d]
          /\ reg[a].prev \in Data => fat'[reg[a].prev] = n
      BY <2>1, <3>1, SetsTable
    <3>3. DiskType'
      BY <1>1, <2>2, <3>2 DEF DiskType, TypeInv
    <3>4. ASSUME DiskInv PROVE Stage("w_mark", r, fat', root', orphans') /\ Kept(a)
      <4>1. WAlloc(reg[a].first, reg[a].prev, reg[a].left, reg[a].len, fat, root, orphans)
        BY <1>1, <3>4, StageNow
      <4>2. /\ reg[a].first # 0 /\ reg[a].prev \in ReachIn(fat, reg[a].first)
            /\ reg[a].prev \in Data /\ reg[a].prev \notin NamedIn(fat, root)
        BY <2>7, <4>1, ReachType DEF WAlloc
      <4>3. fat'[reg[a].prev] = n
        BY <3>2, <4>2
      <4>4. WMark(reg[a].first, n, reg[a].left, reg[a].len, fat', root, orphans)
        BY <1>2, <2>1, <2>7, <3>2, <4>1, <4>3, WriteLinks
      <4>5. Kept(a)
        BY <1>1, <3>2, <4>2, KeptTable
      <4> QED BY <1>1, <2>2, <2>3, <4>2, <4>4, <4>5 DEF Stage, HeldAt
    <3>5. TakesFat(a, "w_mark", r)
      BY <1>1, <2>5, <3>3, <3>4 DEF TakesFat
    <3> QED BY <3>5 DEF ServesFat
  <2> QED BY <2>6, <2>7
<1> QED BY <1>3, <1>4

LEMMA WriteMarksServes ==
    ASSUME TypeInv, NEW a \in Actors, WriteMarks(a)
    PROVE  ServesFat(a)
<1>1. op[a] = "w_mark" /\ op[a] \in HeldAt /\ UNCHANGED <<root, torn>>
  BY DEF WriteMarks, At, HeldAt
<1>2. /\ reg[a].name \in FileNames /\ reg[a].first \in {0} \cup Data /\ reg[a] \in Regs
      /\ reg[a].len \in Nat /\ reg[a].left \in Nat /\ reg[a].cur \in Data
  BY <1>1, RegsOf DEF RegFits
<1> DEFINE l == IF reg[a].left > ClusterSize THEN reg[a].left - ClusterSize ELSE 0
           r == [reg[a] EXCEPT !.prev = reg[a].cur,
                               !.left = IF @ > ClusterSize THEN @ - ClusterSize ELSE 0]
<1>3. CASE Returns(a) /\ GivesUp(a) /\ UNCHANGED fat
  BY <1>1, <1>3, GivesUpServes
<1>4. CASE /\ SetEntry(reg[a].cur, EOC) /\ Sets(a, r) /\ Goes(a, "w_alloc")
           /\ UNCHANGED <<fat32_lock, orphans>>
  <2>1. /\ op' = [op EXCEPT ![a] = "w_alloc"] /\ reg' = [reg EXCEPT ![a] = r]
        /\ orphans' = orphans
    BY <1>4 DEF Goes, Sets
  <2>2. l \in Nat /\ l + ClusterSize >= reg[a].left
    BY <1>2, StepsDown
  <2>3. reg[a].cur \in Nat
    BY <1>2, DataType
  <2>4. /\ r \in Regs /\ r.name = reg[a].name /\ r.prev = reg[a].cur
        /\ r.first = reg[a].first /\ r.left = l /\ r.len = reg[a].len
    BY <1>2, <2>2, <2>3 DEF Regs
  <2> HIDE DEF r, l
  <2>5. RegFits("w_alloc", r)
    BY <1>2, <2>4 DEF RegFits
  <2>6. MovesFat(a, "w_alloc", r)
    BY <2>1, <2>4, <2>5 DEF MovesFat
  <2>7. /\ fat' \in Tables /\ \A d \in Data : d # reg[a].cur => fat'[d] = fat[d]
        /\ fat'[reg[a].cur] = EOC
    BY <1>2, <1>4, SetsTable
  <2>8. DiskType'
    BY <1>1, <2>1, <2>7 DEF DiskType, TypeInv
  <2>9. ASSUME DiskInv PROVE Stage("w_alloc", r, fat', root', orphans') /\ Kept(a)
    <3>1. WMark(reg[a].first, reg[a].cur, reg[a].left, reg[a].len, fat, root, orphans)
      BY <1>1, <2>9, StageNow
    <3>2. reg[a].cur \notin NamedIn(fat, root)
      BY <3>1 DEF WMark
    <3>3. WAlloc(reg[a].first, reg[a].cur, l, reg[a].len, fat', root, orphans)
      BY <1>2, <2>2, <2>7, <3>1, WriteMarksLast
    <3>4. Kept(a)
      BY <1>1, <2>7, <3>2, KeptTable
    <3> QED BY <1>1, <2>1, <2>4, <3>3, <3>4 DEF Stage, HeldAt
  <2>10. TakesFat(a, "w_alloc", r)
    BY <1>1, <2>6, <2>8, <2>9 DEF TakesFat
  <2> QED BY <2>10 DEF ServesFat
<1> QED BY <1>3, <1>4 DEF WriteMarks

LEMMA WriteEntersServes ==
    ASSUME TypeInv, NEW a \in Actors, WriteEnters(a)
    PROVE  ServesFat(a)
<1>1. /\ op[a] = "w_alloc" /\ op[a] \in HeldAt /\ reg[a].left = 0 /\ Returns(a)
      /\ UNCHANGED <<fat, torn>>
  BY DEF WriteEnters, At, HeldAt
<1>2. /\ reg[a].name \in FileNames /\ reg[a].first \in {0} \cup Data /\ reg[a].len \in Nat
      /\ reg[a].name # NoFile
  BY <1>1, RegsOf, VolumeAssumption DEF RegFits
<1>3. CASE ~Exists(NoFile)
  BY <1>1, <1>3, GivesUpServes DEF WriteEnters
<1>4. CASE Exists(NoFile)
  <2> DEFINE s == First(SlotsOf(NoFile))
             e == [name |-> reg[a].name, dir |-> FALSE, first |-> reg[a].first,
                   size |-> reg[a].len]
  <2>1. s \in Slots /\ root[s].name = NoFile
    BY <1>4, FirstIsThere
  <2>2. root' = [root EXCEPT ![s] = e] /\ orphans' = orphans
    BY <1>4 DEF WriteEnters
  <2>3. /\ e \in Entries /\ e.name = reg[a].name /\ e.first = reg[a].first
        /\ e.size = reg[a].len
    BY <1>2 DEF Entries, Names
  <2> HIDE DEF s, e
  <2>4. /\ root' \in [Slots -> Entries] /\ root'[s] = e
        /\ \A t \in Slots \ {s} : root'[t] = root[t]
    BY <2>1, <2>2, <2>3 DEF TypeInv
  <2>5. DiskType'
    BY <1>1, <2>2, <2>4 DEF DiskType, TypeInv
  <2>6. ASSUME DiskInv PROVE Quiet(fat, root', orphans)
    <3>1. WAlloc(reg[a].first, reg[a].prev, 0, reg[a].len, fat, root, orphans)
      BY <1>1, <2>6, StageNow
    <3>2. Chain(fat, reg[a].first, {}, reg[a].len)
      BY <1>2, <3>1, WriteIsChain
    <3>3. root'[s].name # NoFile /\ root'[s].first = reg[a].first
      BY <1>2, <2>3, <2>4
    <3>4. Chain(fat, root'[s].first, {}, root'[s].size)
      BY <2>3, <2>4, <3>2
    <3>5. \A t \in Slots \ {s} : root'[t] = root[t]
      BY <2>4
    <3> QED BY <2>1, <3>1, <3>3, <3>4, <3>5, WriteNames
  <2>7. Kept(a)
    BY <1>1, <2>1, <2>3, <2>4, KeptRoot
  <2> QED BY <1>1, <2>2, <2>5, <2>6, <2>7, ReturnServes
<1> QED BY <1>3, <1>4

LEMMA DeleteFindsServes ==
    ASSUME TypeInv, NEW a \in Actors, DeleteFinds(a)
    PROVE  ServesFat(a)
<1>1. op[a] = "d_lock" /\ ~fat32_lock /\ UNCHANGED <<fat, torn, orphans>>
  BY DEF DeleteFinds, Locks, At
<1>2. /\ reg[a].name \in FileNames /\ reg[a].name # NoFile /\ reg[a] \in Regs
      /\ reg[a].prev = 0 /\ reg[a].first = 0 /\ reg[a].left = reg[a].len
  BY <1>1, RegsOf, VolumeAssumption DEF RegFits
<1>3. CASE ~Exists(reg[a].name)
  <2>1. DeleteReturns(a) /\ root' = root
    BY <1>3 DEF DeleteFinds
  <2>0. PICK w \in {"idle", "w_relock"} : \E r : MovesFat(a, w, r)
    BY <1>1, <2>1, DeleteReturnsMoves
  <2>2. PICK r : MovesFat(a, w, r)
    BY <2>0
  <2>3. w \in Outside
    BY DEF Outside
  <2>4. DiskType' /\ Kept(a)
    BY <1>1, <2>1, KeptSame DEF DiskType, TypeInv, disk
  <2>5. ASSUME DiskInv PROVE Stage(w, r, fat', root', orphans')
    BY <1>1, <2>1, <2>3, <2>5, StageNow, QuietStage
  <2>6. TakesFat(a, w, r)
    BY <1>1, <2>2, <2>4, <2>5 DEF TakesFat
  <2> QED BY <2>6 DEF ServesFat
<1>4. CASE Exists(reg[a].name)
  <2> DEFINE s == First(SlotsOf(reg[a].name))
             r == [reg[a] EXCEPT !.cur = root[s].first]
  <2>1. s \in Slots /\ root[s].name = reg[a].name
    BY <1>4, FirstIsThere
  <2>2. /\ root' = [root EXCEPT ![s] = Absent]
        /\ op' = [op EXCEPT ![a] = "d_free"] /\ reg' = [reg EXCEPT ![a] = r]
    BY <1>4 DEF DeleteFinds, Keeps, Goes, Sets, Entry
  <2>3. Absent \in Entries /\ Absent.name = NoFile
    BY DEF Absent, Entries, Names
  <2> HIDE DEF s
  <2>4. root[s].first \in Nat
    <3>1. root[s] \in Entries
      BY <2>1 DEF TypeInv
    <3>2. root[s].first \in {0} \cup Data
      BY <3>1 DEF Entries
    <3> QED BY <3>2, FirstType
  <2>5. /\ r \in Regs /\ r.name = reg[a].name /\ r.prev = reg[a].prev /\ r.first = reg[a].first
        /\ r.left = reg[a].left /\ r.len = reg[a].len /\ r.cur = root[s].first
    BY <1>2, <2>4, RegCur
  <2> HIDE DEF r
  <2>6. RegFits("d_free", r)
    BY <1>2, <2>5 DEF RegFits
  <2>7. MovesFat(a, "d_free", r)
    BY <2>2, <2>5, <2>6 DEF MovesFat
  <2>8. /\ root' \in [Slots -> Entries] /\ root'[s].name = NoFile
        /\ \A t \in Slots \ {s} : root'[t] = root[t]
    BY <2>1, <2>2, <2>3 DEF TypeInv
  <2>9. DiskType'
    BY <1>1, <2>8 DEF DiskType, TypeInv
  <2>10. Kept(a)
    BY <1>1, <2>1, <2>8, KeptRoot
  <2>11. ASSUME DiskInv PROVE Stage("d_free", r, fat', root', orphans')
    <3>1. Quiet(fat, root, orphans)
      BY <1>1, <2>11, StageNow
    <3>2. s \in NamedSlots(root)
      BY <1>2, <2>1 DEF NamedSlots
    <3>3. DFree(root[s].first, fat, root', orphans)
      BY <2>8, <3>1, <3>2, DeleteTakes
    <3> QED BY <1>1, <2>5, <3>3 DEF Stage, HeldAt
  <2>12. TakesFat(a, "d_free", r)
    BY <1>1, <2>7, <2>9, <2>10, <2>11 DEF TakesFat
  <2> QED BY <2>12 DEF ServesFat
<1> QED BY <1>3, <1>4

LEMMA DeleteFreesServes ==
    ASSUME LockInv, TypeInv, NEW a \in Actors, DeleteFrees(a)
    PROVE  ServesFat(a)
<1>1. op[a] = "d_free" /\ op[a] \in HeldAt /\ UNCHANGED <<root, torn, orphans>>
  BY DEF DeleteFrees, At, HeldAt
<1>2. /\ reg[a].name \in FileNames /\ reg[a] \in Regs
      /\ reg[a].prev = 0 /\ reg[a].first = 0 /\ reg[a].left = reg[a].len
  BY <1>1, RegsOf DEF RegFits
<1>3. CASE reg[a].cur \notin Data
  <2>1. DeleteReturns(a) /\ fat' = fat
    BY <1>3 DEF DeleteFrees
  <2>0. PICK w \in {"idle", "w_relock"} : \E r : MovesFat(a, w, r)
    BY <1>1, <2>1, DeleteReturnsMoves
  <2>2. PICK r : MovesFat(a, w, r)
    BY <2>0
  <2>3. w \in Outside
    BY DEF Outside
  <2>4. DiskType' /\ Kept(a)
    BY <1>1, <2>1, KeptSame DEF DiskType, TypeInv, disk
  <2>5. ASSUME DiskInv PROVE Stage(w, r, fat', root', orphans')
    <3>1. Quiet(fat, root, orphans)
      BY <1>1, <1>3, <2>5, StageNow, DeleteEnds
    <3> QED BY <1>1, <2>1, <2>3, <3>1, QuietStage
  <2>6. TakesFat(a, w, r)
    BY <1>1, <2>2, <2>4, <2>5 DEF TakesFat
  <2> QED BY <2>6 DEF ServesFat
<1>4. CASE reg[a].cur \in Data
  <2> DEFINE c == reg[a].cur
             next == IF fat[c] = c THEN 0 ELSE fat[c]
             r == [reg[a] EXCEPT !.cur = next]
  <2>1. SetEntry(c, Free) /\ reg' = [reg EXCEPT ![a] = r] /\ op' = op
    BY <1>4 DEF DeleteFrees, Sets
  <2>2. next \in Nat
    <3>1. fat[c] \in {Free, EOC} \cup Data
      BY <1>4, DataType DEF TypeInv, Tables
    <3>2. Free \in Nat /\ EOC \in Nat
      BY VolumeAssumption DEF Free, EOC
    <3> QED BY <3>1, <3>2, DataType
  <2>3. /\ r \in Regs /\ r.name = reg[a].name /\ r.prev = reg[a].prev /\ r.first = reg[a].first
        /\ r.left = reg[a].left /\ r.len = reg[a].len /\ r.cur = next
    BY <1>2, <2>2, RegCur
  <2> HIDE DEF r
  <2>4. RegFits("d_free", r)
    BY <1>2, <2>3 DEF RegFits
  <2>5. op' = [op EXCEPT ![a] = "d_free"]
    BY <1>1, <2>1 DEF LockInv
  <2>6. MovesFat(a, "d_free", r)
    BY <2>1, <2>3, <2>4, <2>5 DEF MovesFat
  <2>7. fat' \in Tables /\ (\A d \in Data : d # c => fat'[d] = fat[d]) /\ fat'[c] = Free
    BY <1>4, <2>1, SetsTable
  <2>8. DiskType'
    BY <1>1, <2>7 DEF DiskType, TypeInv
  <2>9. ASSUME DiskInv PROVE Stage("d_free", r, fat', root', orphans') /\ Kept(a)
    <3>1. DFree(c, fat, root, orphans)
      BY <1>1, <2>9, StageNow
    <3>2. c \notin NamedIn(fat, root)
      BY <1>4, <3>1, ReachStart DEF DFree
    <3>3. Kept(a)
      BY <1>1, <2>7, <3>2, KeptTable
    <3>4. DFree(next, fat', root, orphans)
      BY <1>4, <2>7, <3>1, DeleteFreesOne
    <3> QED BY <1>1, <2>3, <3>3, <3>4 DEF Stage, HeldAt
  <2>10. TakesFat(a, "d_free", r)
    BY <1>1, <2>6, <2>8, <2>9 DEF TakesFat
  <2> QED BY <2>10 DEF ServesFat
<1> QED BY <1>3, <1>4

LEMMA NamedSizes == TypeInv => Sized(root)
BY DEF TypeInv, Entries, NamedSlots, Sized

LEMMA SlotType ==
    ASSUME TypeInv, NEW s \in Slots
    PROVE  /\ root[s] \in Entries /\ root[s].first \in {0} \cup Data /\ root[s].size \in Nat
           /\ root[s].dir \in BOOLEAN /\ root[s].name \in Names
<1>1. root[s] \in Entries
  BY DEF TypeInv
<1> QED BY <1>1 DEF Entries

\* What an append leaves for new clusters.
LEMMA RoomUsed ==
    ASSUME NEW size \in Nat, NEW len \in Nat
    PROVE  LET pos == size % ClusterSize
               space == IF pos # 0 \/ size = 0 THEN ClusterSize - pos ELSE 0
               left == IF len > space THEN len - space ELSE 0
           IN  /\ left \in Nat
               /\ size > 0 =>
                    left >= len - (IF size % ClusterSize # 0
                                   THEN ClusterSize - (size % ClusterSize) ELSE 0)
<1>1. ClusterSize \in Nat /\ ClusterSize > 0
  BY VolumeAssumption
<1> DEFINE pos == size % ClusterSize
<1>2. pos \in Nat /\ pos < ClusterSize
  BY <1>1
<1> HIDE DEF pos
<1>3. LET space == IF pos # 0 \/ size = 0 THEN ClusterSize - pos ELSE 0
          left == IF len > space THEN len - space ELSE 0
      IN  left \in Nat /\ (size > 0 => left >= len - (IF pos # 0 THEN ClusterSize - pos ELSE 0))
  BY <1>1, <1>2
<1> QED BY <1>3 DEF pos

LEMMA LastType == ASSUME NEW c \in {0} \cup Data PROVE LastOf(c) \in Nat
<1> DEFINE ends == {d \in Reach(c) : fat[d] \notin Reach(c)}
<1>1. CASE ends = {}
  BY <1>1, FirstType DEF LastOf
<1>2. CASE ends # {}
  <2>1. LastOf(c) = CHOOSE d \in ends : TRUE
    BY <1>2 DEF LastOf
  <2>2. LastOf(c) \in ends
    BY <1>2, <2>1
  <2>3. LastOf(c) \in Data
    BY <2>2, ReachType DEF Reach
  <2> QED BY <2>3, FirstType
<1> QED BY <1>1, <1>2

\* The cluster an append finds ends the chain of the file.
LEMMA LastEnds ==
    ASSUME NEW s \in NamedSlots(root), Tree(fat, root, {}), root[s].first \in Data
    PROVE  LastOf(root[s].first) \in ReachIn(fat, root[s].first)
           /\ fat[LastOf(root[s].first)] = EOC
<1> DEFINE c == root[s].first
           ends == {d \in Reach(c) : fat[d] \notin Reach(c)}
<1>1. /\ \E d \in ReachIn(fat, c) : fat[d] \notin ReachIn(fat, c)
      /\ \A d \in ReachIn(fat, c) : fat[d] \notin ReachIn(fat, c) => fat[d] = EOC
  BY ChainEnds
<1>2. ends # {}
  BY <1>1 DEF Reach
<1>3. LastOf(c) = CHOOSE d \in ends : TRUE
  BY <1>2 DEF LastOf
<1>4. LastOf(c) \in ends
  BY <1>2, <1>3
<1> QED BY <1>1, <1>4 DEF Reach

\* A file with a size has a cluster.
LEMMA SizedHasFirst ==
    ASSUME TypeInv, NEW s \in NamedSlots(root), Tree(fat, root, {}), root[s].size # 0
    PROVE  root[s].first \in Data
<1>1. s \in Slots
  BY DEF NamedSlots
<1>2. root[s].first \in {0} \cup Data /\ root[s].size \in Nat
  BY <1>1, SlotType
<1> SUFFICES ASSUME root[s].first \notin Data PROVE FALSE
  OBVIOUS
<1>3. Cardinality(ReachIn(fat, root[s].first)) = 0
  BY ReachNone
<1>4. Cardinality(ReachIn(fat, root[s].first)) * ClusterSize >= root[s].size
  BY DEF Tree, Chain
<1>5. 0 * ClusterSize = 0
  BY OneMore, VolumeAssumption
<1> QED BY <1>2, <1>3, <1>4, <1>5

LEMMA AppendFindsServes ==
    ASSUME TypeInv, NEW a \in Actors, AppendFinds(a)
    PROVE  ServesFat(a)
<1>1. op[a] = "a_lock" /\ ~fat32_lock /\ UNCHANGED <<fat, root, orphans>>
  BY DEF AppendFinds, Locks, At
<1>2. /\ reg[a].name \in FileNames /\ reg[a].name # NoFile /\ reg[a] \in Regs
      /\ reg[a].left = reg[a].len /\ reg[a].len \in Nat
  BY <1>1, RegsOf, VolumeAssumption DEF RegFits
<1> DEFINE e == Entry(reg[a].name)
           s == First(SlotsOf(reg[a].name))
           pos == e.size % ClusterSize
           space == IF pos # 0 \/ e.size = 0 THEN ClusterSize - pos ELSE 0
           r == [reg[a] EXCEPT !.prev = LastOf(e.first), !.first = s,
                               !.left = IF @ > space THEN @ - space ELSE 0]
<1>3. CASE Returns(a) /\ UNCHANGED torn
  BY <1>1, <1>3, IdleServes
<1>4. CASE /\ Exists(reg[a].name) /\ Sets(a, r) /\ torn' = (torn \/ Tears(e))
           /\ Keeps(a, "a_link")
  <2>1. s \in Slots /\ root[s].name = reg[a].name
    BY <1>4, FirstIsThere
  <2>2. e = root[s]
    BY DEF Entry
  <2>3. e.first \in {0} \cup Data /\ e.size \in Nat
    BY <2>1, <2>2, SlotType
  <2> DEFINE l == IF reg[a].len > space THEN reg[a].len - space ELSE 0
  <2>4. /\ l \in Nat
        /\ e.size > 0 => l >= reg[a].len - (IF e.size % ClusterSize # 0
                                            THEN ClusterSize - (e.size % ClusterSize) ELSE 0)
    BY <1>2, <2>3, RoomUsed
  <2>5. LastOf(e.first) \in Nat /\ s \in Nat
    BY <2>1, <2>3, LastType, VolumeAssumption
  <2>6. r = [reg[a] EXCEPT !.prev = LastOf(e.first), !.first = s, !.left = l]
    BY <1>2 DEF Regs
  <2>7. op' = [op EXCEPT ![a] = "a_link"] /\ reg' = [reg EXCEPT ![a] = r]
    BY <1>4 DEF Keeps, Goes, Sets
  <2> HIDE DEF r, l, s, e
  <2>8. /\ r \in Regs /\ r.name = reg[a].name /\ r.len = reg[a].len /\ r.first = s
        /\ r.prev = LastOf(e.first) /\ r.left = l
    BY <1>2, <2>4, <2>5, <2>6 DEF Regs
  <2>9. RegFits("a_link", r)
    BY <2>1, <2>8 DEF RegFits
  <2>10. MovesFat(a, "a_link", r)
    BY <2>7, <2>8, <2>9 DEF MovesFat
  <2>11. torn' = (torn \/ e.size = 0) /\ torn' \in BOOLEAN
    BY <1>4 DEF Tears, TypeInv
  <2>12. DiskType' /\ Kept(a)
    BY <1>1, <2>11, KeptSame DEF DiskType, TypeInv, disk
  <2>13. ASSUME DiskInv, ~torn' PROVE Stage("a_link", r, fat', root', orphans')
    <3>1. Quiet(fat, root, orphans) /\ Tree(fat, root, {})
      BY <1>1, <2>13, StageNow DEF Quiet
    <3>2. s \in NamedSlots(root)
      BY <1>2, <2>1 DEF NamedSlots
    <3>3. e.size > 0 /\ e.size # 0
      <4>1. e.size # 0
        BY <2>11, <2>13
      <4> QED BY <2>3, <4>1
    <3>4. root[s].first \in Data
      BY <2>2, <3>1, <3>2, <3>3, SizedHasFirst
    <3>5. LastOf(root[s].first) \in ReachIn(fat, root[s].first) /\ fat[LastOf(root[s].first)] = EOC
      BY <3>1, <3>2, <3>4, LastEnds
    <3>6. /\ root[s].size \in Nat /\ root[s].size > 0
          /\ l >= reg[a].len - (IF root[s].size % ClusterSize # 0
                                THEN ClusterSize - (root[s].size % ClusterSize) ELSE 0)
      BY <2>2, <2>3, <2>4, <3>3
    <3>7. ALink(s, root[s].name, LastOf(root[s].first), l, reg[a].len, fat, root, orphans)
      BY <1>2, <2>4, <3>1, <3>2, <3>5, <3>6, AppendBegins
    <3>8. ALink(r.first, r.name, r.prev, r.left, r.len, fat, root, orphans)
      BY <2>1, <2>2, <2>8, <3>7
    <3> QED BY <1>1, <3>8 DEF Stage, HeldAt
  <2>14. TakesFat(a, "a_link", r)
    BY <1>1, <2>10, <2>11, <2>12, <2>13 DEF TakesFat
  <2> QED BY <2>14 DEF ServesFat
<1> QED BY <1>3, <1>4 DEF AppendFinds

\* The files other than the one that grows.
LEMMA KeptOthers ==
    ASSUME NEW a \in Actors, root' = root, NEW s, root[s].name \in {reg[a].name, reg[a].dest},
           SameBut(fat, fat', root, s)
    PROVE  Kept(a)
<1> SUFFICES ASSUME NEW t \in Slots, NEW n \in FileNames \ {reg[a].name, reg[a].dest},
                    root[t].name = n
             PROVE  ReachIn(fat', root[t].first) = ReachIn(fat, root[t].first)
  BY DEF Kept
<1>1. t \in NamedSlots(root) \ {s}
  BY VolumeAssumption DEF NamedSlots
<1> QED BY <1>1 DEF SameBut

LEMMA AppendLinksServes ==
    ASSUME TypeInv, NEW a \in Actors, AppendLinks(a)
    PROVE  ServesFat(a)
<1>1. op[a] = "a_link" /\ op[a] \in HeldAt /\ UNCHANGED <<root, torn, orphans>>
  BY DEF AppendLinks, At, HeldAt
<1>2. /\ reg[a] \in Regs /\ reg[a].len \in Nat /\ reg[a].left \in Nat /\ reg[a].first \in Slots
  BY <1>1, RegsOf DEF RegFits
<1>3. CASE FreeCluster = 0
  <2>1. Returns(a) /\ fat' = fat
    BY <1>3 DEF AppendLinks
  <2>2. DiskType' /\ Kept(a)
    BY <1>1, <2>1, KeptSame DEF DiskType, TypeInv, disk
  <2>3. ASSUME DiskInv PROVE Quiet(fat', root', orphans')
    BY <1>1, <2>1, <2>3, StageNow DEF ALink, Quiet
  <2> QED BY <1>1, <2>1, <2>2, <2>3, ReturnServes
<1>4. CASE FreeCluster # 0
  <2> DEFINE n == FreeCluster
             r == [reg[a] EXCEPT !.cur = n]
  <2>1. n \in Data /\ fat[n] = Free /\ n \in Nat
    BY <1>4, FreeIsFree, FirstType
  <2>2. /\ op' = [op EXCEPT ![a] = "a_mark"] /\ reg' = [reg EXCEPT ![a] = r]
        /\ SetEntry(reg[a].prev, n)
    BY <1>4 DEF AppendLinks, Goes, Sets
  <2> HIDE DEF n
  <2>3. /\ r \in Regs /\ r.name = reg[a].name /\ r.first = reg[a].first /\ r.cur = n
        /\ r.left = reg[a].left /\ r.len = reg[a].len
    BY <1>2, <2>1, RegCur
  <2> HIDE DEF r
  <2>4. RegFits("a_mark", r)
    BY <1>2, <2>1, <2>3 DEF RegFits
  <2>5. MovesFat(a, "a_mark", r)
    BY <2>2, <2>3, <2>4 DEF MovesFat
  <2>6. /\ fat' \in Tables /\ \A d \in Data : d # reg[a].prev => fat'[d] = fat[d]
        /\ reg[a].prev \in Data => fat'[reg[a].prev] = n
    BY <2>1, <2>2, SetsTable
  <2>7. DiskType'
    BY <1>1, <2>6 DEF DiskType, TypeInv
  <2>8. ASSUME DiskInv PROVE Stage("a_mark", r, fat', root', orphans') /\ Kept(a)
    <3>1. ALink(reg[a].first, reg[a].name, reg[a].prev, reg[a].left, reg[a].len,
                fat, root, orphans)
      BY <1>1, <2>8, StageNow
    <3>2. reg[a].prev \in Data /\ root[reg[a].first].name = reg[a].name
      BY <3>1, ReachType DEF ALink
    <3>3. fat'[reg[a].prev] = n
      BY <2>6, <3>2
    <3>4. Sized(root)
      BY NamedSizes
    <3>5. \A d \in Data : d # reg[a].prev => fat'[d] = fat[d]
      BY <2>6
    <3>6. AMark(reg[a].first, reg[a].name, n, reg[a].left, reg[a].len, fat', root, orphans)
      <4>1. reg[a].left \in Nat /\ reg[a].len \in Nat
        BY <1>2
      <4>2. n \in Data /\ fat[n] = Free
        BY <2>1
      <4>3. PICK g : g = fat'
        OBVIOUS
      <4>4. g[reg[a].prev] = n /\ \A d \in Data : d # reg[a].prev => g[d] = fat[d]
        BY <3>3, <3>5, <4>3
      <4>5. AMark(reg[a].first, reg[a].name, n, reg[a].left, reg[a].len, g, root, orphans)
        BY <3>1, <3>4, <4>1, <4>2, <4>4, AppendLinksOne
      <4> QED BY <4>3, <4>5
    <3>7. SameBut(fat, fat', root, reg[a].first)
      BY <3>1, <3>5, AppendLinksKeep
    <3>8. Kept(a)
      BY <1>1, <3>2, <3>7, KeptOthers
    <3> QED BY <1>1, <2>3, <3>6, <3>8 DEF Stage, HeldAt
  <2>9. TakesFat(a, "a_mark", r)
    BY <1>1, <2>5, <2>7, <2>8 DEF TakesFat
  <2> QED BY <2>9 DEF ServesFat
<1> QED BY <1>3, <1>4

LEMMA AppendMarksServes ==
    ASSUME TypeInv, NEW a \in Actors, AppendMarks(a)
    PROVE  ServesFat(a)
<1>1. op[a] = "a_mark" /\ op[a] \in HeldAt /\ UNCHANGED <<root, torn, orphans>>
  BY DEF AppendMarks, At, HeldAt
<1>2. /\ reg[a] \in Regs /\ reg[a].len \in Nat /\ reg[a].left \in Nat /\ reg[a].first \in Slots
      /\ reg[a].cur \in Data
  BY <1>1, RegsOf DEF RegFits
<1> DEFINE l == IF reg[a].left > ClusterSize THEN reg[a].left - ClusterSize ELSE 0
           r == [reg[a] EXCEPT !.prev = reg[a].cur,
                               !.left = IF @ > ClusterSize THEN @ - ClusterSize ELSE 0]
<1>3. /\ op' = [op EXCEPT ![a] = "a_link"] /\ reg' = [reg EXCEPT ![a] = r]
      /\ SetEntry(reg[a].cur, EOC)
  BY DEF AppendMarks, Goes, Sets
<1>4. l \in Nat /\ l + ClusterSize >= reg[a].left
  BY <1>2, StepsDown
<1>5. reg[a].cur \in Nat
  BY <1>2, FirstType
<1>6. /\ r \in Regs /\ r.name = reg[a].name /\ r.prev = reg[a].cur
      /\ r.first = reg[a].first /\ r.left = l /\ r.len = reg[a].len
  BY <1>2, <1>4, <1>5 DEF Regs
<1> HIDE DEF r, l
<1>7. RegFits("a_link", r)
  BY <1>2, <1>6 DEF RegFits
<1>8. MovesFat(a, "a_link", r)
  BY <1>3, <1>6, <1>7 DEF MovesFat
<1>9. /\ fat' \in Tables /\ \A d \in Data : d # reg[a].cur => fat'[d] = fat[d]
      /\ fat'[reg[a].cur] = EOC
  BY <1>2, <1>3, SetsTable
<1>10. DiskType'
  BY <1>1, <1>9 DEF DiskType, TypeInv
<1>11. ASSUME DiskInv PROVE Stage("a_link", r, fat', root', orphans') /\ Kept(a)
  <2>1. AMark(reg[a].first, reg[a].name, reg[a].cur, reg[a].left, reg[a].len,
              fat, root, orphans)
    BY <1>1, <1>11, StageNow
  <2>2. root[reg[a].first].name = reg[a].name
    BY <2>1 DEF AMark
  <2>3. Sized(root)
    BY NamedSizes
  <2>4. \A d \in Data : d # reg[a].cur => fat'[d] = fat[d]
    BY <1>9
  <2>5. fat'[reg[a].cur] = EOC
    BY <1>9
  <2>6. ALink(reg[a].first, reg[a].name, reg[a].cur, l, reg[a].len, fat', root, orphans)
    BY <1>2, <1>4, <2>1, <2>3, <2>4, <2>5, AppendMarksOne
  <2>7. SameBut(fat, fat', root, reg[a].first)
    BY <2>1, <2>4, AppendMarksKeep
  <2>8. Kept(a)
    BY <1>1, <2>2, <2>7, KeptOthers
  <2> QED BY <1>1, <1>6, <2>6, <2>8 DEF Stage, HeldAt
<1>12. TakesFat(a, "a_link", r)
  BY <1>1, <1>8, <1>10, <1>11 DEF TakesFat
<1> QED BY <1>12 DEF ServesFat

LEMMA AppendEntersServes ==
    ASSUME TypeInv, NEW a \in Actors, AppendEnters(a)
    PROVE  ServesFat(a)
<1>1. /\ op[a] = "a_link" /\ op[a] \in HeldAt /\ reg[a].left = 0 /\ Returns(a)
      /\ UNCHANGED <<fat, torn, orphans>>
  BY DEF AppendEnters, At, HeldAt
<1>2. reg[a].len \in Nat /\ reg[a].first \in Slots
  BY <1>1, RegsOf DEF RegFits
<1> DEFINE s == reg[a].first
           e == [root[s] EXCEPT !.size = @ + reg[a].len]
<1>3. root' = [root EXCEPT ![s] = e]
  BY DEF AppendEnters
<1>4. root[s] \in Entries /\ root[s].size \in Nat
  BY <1>2, SlotType
<1>5. root[s].size + reg[a].len \in Nat
  BY <1>2, <1>4
<1>6. /\ e \in Entries /\ e.name = root[s].name /\ e.first = root[s].first
      /\ e.size = root[s].size + reg[a].len
  BY <1>4, <1>5 DEF Entries
<1> HIDE DEF e
<1>7. /\ root' \in [Slots -> Entries] /\ root'[s] = e
      /\ \A t \in Slots \ {s} : root'[t] = root[t]
  BY <1>2, <1>3, <1>6 DEF TypeInv
<1>8. DiskType'
  BY <1>1, <1>7 DEF DiskType, TypeInv
<1>9. ASSUME DiskInv PROVE Quiet(fat, root', orphans) /\ Kept(a)
  <2>1. ALink(s, reg[a].name, reg[a].prev, 0, reg[a].len, fat, root, orphans)
    BY <1>1, <1>9, StageNow
  <2>2. Sized(root)
    BY NamedSizes
  <2>3. \A t \in Slots \ {s} : root'[t] = root[t]
    BY <1>7
  <2>4. /\ root'[s].name = root[s].name /\ root'[s].first = root[s].first
        /\ root'[s].size = root[s].size + reg[a].len
    BY <1>6, <1>7
  <2>5. Quiet(fat, root', orphans)
    BY <1>2, <2>1, <2>2, <2>3, <2>4, AppendTells
  <2>6. root[s].name = reg[a].name
    BY <2>1 DEF ALink
  <2>7. Kept(a)
    BY <1>1, <1>2, <2>3, <2>4, <2>6, KeptRoot
  <2> QED BY <2>5, <2>7
<1> QED BY <1>1, <1>8, <1>9, ReturnServes

LEMMA MkdirAllocatesServes ==
    ASSUME TypeInv, NEW a \in Actors, MkdirAllocates(a)
    PROVE  ServesFat(a)
<1>1. op[a] = "m_lock" /\ ~fat32_lock /\ UNCHANGED <<root, torn, orphans>>
  BY DEF MkdirAllocates, Locks, At
<1>2. reg[a] \in Regs /\ reg[a].name \in FileNames
  BY <1>1, RegsOf DEF RegFits
<1>3. CASE Exists(reg[a].name) \/ FreeCluster = 0
  <2>1. Returns(a) /\ fat' = fat
    BY <1>3 DEF MkdirAllocates
  <2> QED BY <1>1, <2>1, IdleServes
<1>4. CASE ~(Exists(reg[a].name) \/ FreeCluster = 0)
  <2> DEFINE n == FreeCluster
             r == [reg[a] EXCEPT !.cur = n]
  <2>1. n \in Data /\ fat[n] = Free /\ n \in Nat
    BY <1>4, FreeIsFree, FirstType
  <2>2. /\ op' = [op EXCEPT ![a] = "m_entry"] /\ reg' = [reg EXCEPT ![a] = r]
        /\ SetEntry(n, EOC)
    BY <1>4 DEF MkdirAllocates, Keeps, Goes, Sets
  <2> HIDE DEF n
  <2>3. r \in Regs /\ r.name = reg[a].name /\ r.cur = n
    BY <1>2, <2>1, RegCur
  <2> HIDE DEF r
  <2>4. RegFits("m_entry", r)
    BY <1>2, <2>1, <2>3 DEF RegFits
  <2>5. MovesFat(a, "m_entry", r)
    BY <2>2, <2>3, <2>4 DEF MovesFat
  <2>6. fat' \in Tables /\ (\A d \in Data : d # n => fat'[d] = fat[d]) /\ fat'[n] = EOC
    BY <2>1, <2>2, SetsTable
  <2>7. DiskType'
    BY <1>1, <2>6 DEF DiskType, TypeInv
  <2>8. ASSUME DiskInv PROVE Stage("m_entry", r, fat', root', orphans') /\ Kept(a)
    <3>1. Quiet(fat, root, orphans) /\ Tree(fat, root, {})
      BY <1>1, <2>8, StageNow DEF Quiet
    <3>2. MEntry(n, fat', root, orphans)
      BY <2>1, <2>6, <3>1, MkdirTakes
    <3>3. n \notin NamedIn(fat, root)
      BY <2>1, <3>1, FreeUnnamed
    <3>4. Kept(a)
      BY <1>1, <2>6, <3>3, KeptTable
    <3> QED BY <1>1, <2>3, <3>2, <3>4 DEF Stage, HeldAt
  <2>9. TakesFat(a, "m_entry", r)
    BY <1>1, <2>5, <2>7, <2>8 DEF TakesFat
  <2> QED BY <2>9 DEF ServesFat
<1> QED BY <1>3, <1>4

LEMMA MkdirEntersServes ==
    ASSUME TypeInv, NEW a \in Actors, MkdirEnters(a)
    PROVE  ServesFat(a)
<1>1. /\ op[a] = "m_entry" /\ op[a] \in HeldAt /\ Returns(a) /\ UNCHANGED <<fat, torn>>
  BY DEF MkdirEnters, At, HeldAt
<1>2. /\ reg[a].name \in FileNames /\ reg[a].name # NoFile /\ reg[a].cur \in Data
  BY <1>1, RegsOf, VolumeAssumption DEF RegFits
<1> DEFINE s == First(SlotsOf(NoFile))
           e == [name |-> reg[a].name, dir |-> TRUE, first |-> reg[a].cur, size |-> 0]
<1>3. CASE GivesUp(a) /\ root' = root
  BY <1>1, <1>3, GivesUpServes
<1>4. CASE Exists(NoFile) /\ root' = [root EXCEPT ![s] = e] /\ orphans' = orphans
  <2>1. s \in Slots /\ root[s].name = NoFile
    BY <1>4, FirstIsThere
  <2>2. /\ e \in Entries /\ e.name = reg[a].name /\ e.first = reg[a].cur /\ e.size = 0
    BY <1>2 DEF Entries, Names
  <2> HIDE DEF s, e
  <2>3. /\ root' \in [Slots -> Entries] /\ root'[s] = e
        /\ \A t \in Slots \ {s} : root'[t] = root[t]
    BY <1>4, <2>1, <2>2 DEF TypeInv
  <2>4. DiskType'
    BY <1>1, <1>4, <2>3 DEF DiskType, TypeInv
  <2>5. ASSUME DiskInv PROVE Quiet(fat, root', orphans)
    <3>1. MEntry(reg[a].cur, fat, root, orphans) /\ fat[reg[a].cur] = EOC
      BY <1>1, <2>5, StageNow DEF MEntry
    <3>2. Chain(fat, reg[a].cur, {}, 0)
      BY <1>2, <3>1, OneIsChain
    <3>3. root'[s].name # NoFile /\ root'[s].first = reg[a].cur
      BY <1>2, <2>2, <2>3
    <3>4. Chain(fat, root'[s].first, {}, root'[s].size)
      BY <2>2, <2>3, <3>2
    <3>5. \A t \in Slots \ {s} : root'[t] = root[t]
      BY <2>3
    <3> QED BY <2>1, <3>1, <3>3, <3>4, <3>5, MkdirNames
  <2>6. Kept(a)
    BY <1>1, <2>1, <2>2, <2>3, KeptRoot
  <2> QED BY <1>1, <1>4, <2>4, <2>5, <2>6, ReturnServes
<1> QED BY <1>3, <1>4 DEF MkdirEnters

LEMMA RenamesServes ==
    ASSUME TypeInv, NEW a \in Actors, Renames(a)
    PROVE  ServesFat(a)
<1>1. op[a] = "r_lock" /\ ~fat32_lock /\ Returns(a) /\ UNCHANGED <<fat, torn, orphans>>
  BY DEF Renames, Locks, At
<1>2. /\ reg[a].name \in FileNames /\ reg[a].name # NoFile
      /\ reg[a].dest \in FileNames /\ reg[a].dest # NoFile
  BY <1>1, RegsOf, VolumeAssumption DEF RegFits
<1>3. CASE root' = root
  BY <1>1, <1>3, IdleServes
<1> DEFINE s == First(SlotsOf(reg[a].name))
           e == [root[s] EXCEPT !.name = reg[a].dest]
<1>4. CASE Exists(reg[a].name) /\ root' = [root EXCEPT ![s] = e]
  <2>1. s \in Slots /\ root[s].name = reg[a].name
    BY <1>4, FirstIsThere
  <2>2. root[s] \in Entries
    BY <2>1, SlotType
  <2>3. /\ e \in Entries /\ e.name = reg[a].dest /\ e.first = root[s].first
        /\ e.size = root[s].size
    BY <1>2, <2>2 DEF Entries, Names
  <2> HIDE DEF s, e
  <2>4. /\ root' \in [Slots -> Entries] /\ root'[s] = e
        /\ \A t \in Slots \ {s} : root'[t] = root[t]
    BY <1>4, <2>1, <2>3 DEF TypeInv
  <2>5. DiskType'
    BY <1>1, <2>4 DEF DiskType, TypeInv
  <2>6. ASSUME DiskInv PROVE Quiet(fat, root', orphans)
    <3>1. Quiet(fat, root, orphans) /\ s \in NamedSlots(root)
      BY <1>1, <1>2, <2>1, <2>6, StageNow DEF NamedSlots
    <3>2. /\ root'[s].name # NoFile /\ root'[s].first = root[s].first
          /\ root'[s].size = root[s].size
      BY <1>2, <2>3, <2>4
    <3>3. \A t \in Slots \ {s} : root'[t] = root[t]
      BY <2>4
    <3> QED BY <3>1, <3>2, <3>3, RenameTells
  <2>7. Kept(a)
    BY <1>1, <2>1, <2>3, <2>4, KeptRoot
  <2> QED BY <1>1, <2>5, <2>6, <2>7, ReturnServes
<1> QED BY <1>3, <1>4 DEF Renames

-----------------------------------------------------------------------------
\* Who only reads looks, and so does a call that begins.

LEMMA ReadFindsLooks == ASSUME TypeInv, NEW a \in Actors, ReadFinds(a) PROVE Looks(a)
<1>1. /\ op[a] \in Outside /\ op[a] = "l_find"
      /\ UNCHANGED <<fat, root, fat32_lock, torn, orphans>>
  BY DEF ReadFinds, At, Outside
<1>2. "idle" \in Outside /\ "l_walk" \in Outside
  BY DEF Outside
<1> DEFINE e == Entry(reg[a].name)
           r == [reg[a] EXCEPT !.cur = e.first, !.left = e.size,
                               !.len = IF reg[a].dest = NoFile THEN 0 ELSE e.size]
<1>3. CASE Goes(a, "idle") /\ Sets(a, Blank)
  <2>1. MovesFat(a, "idle", Blank)
    BY <1>3, BlankFits DEF Goes, Sets, MovesFat
  <2> QED BY <1>1, <1>2, <2>1 DEF Looks
<1>4. CASE Exists(reg[a].name) /\ Sets(a, r) /\ Goes(a, "l_walk")
  <2>1. First(SlotsOf(reg[a].name)) \in Slots
    BY <1>4, FirstIsThere
  <2>2. e.first \in {0} \cup Data /\ e.size \in Nat
    BY <2>1, SlotType DEF Entry
  <2>3. e.first \in Nat
    BY <2>2, FirstType
  <2> HIDE DEF e
  <2>4. reg[a] \in Regs
    BY RegsOf
  <2>5. r \in Regs
    BY <2>2, <2>3, <2>4 DEF Regs
  <2>6. RegFits("l_walk", r)
    BY DEF RegFits
  <2> HIDE DEF r
  <2>7. MovesFat(a, "l_walk", r)
    BY <1>4, <2>5, <2>6 DEF Goes, Sets, MovesFat
  <2> QED BY <1>1, <1>2, <2>7 DEF Looks
<1> QED BY <1>3, <1>4 DEF ReadFinds

LEMMA ReadStepsLooks == ASSUME LockInv, TypeInv, NEW a \in Actors, ReadSteps(a) PROVE Looks(a)
<1>1. /\ op[a] \in Outside /\ op[a] = "l_walk"
      /\ UNCHANGED <<fat, root, fat32_lock, torn, orphans>>
  BY DEF ReadSteps, Locks, At, Outside
<1> DEFINE c == reg[a].cur
           next == IF fat[c] = c THEN 0 ELSE fat[c]
           l == IF reg[a].left > ClusterSize THEN reg[a].left - ClusterSize ELSE 0
           r == [reg[a] EXCEPT !.left = IF @ > ClusterSize THEN @ - ClusterSize ELSE 0,
                               !.cur = next]
<1>2. c \in Data /\ reg' = [reg EXCEPT ![a] = r] /\ op' = op
  BY DEF ReadSteps, Sets
<1>3. op' = [op EXCEPT ![a] = "l_walk"]
  BY <1>1, <1>2 DEF LockInv
<1>4. next \in Nat
  <2>1. fat[c] \in {Free, EOC} \cup Data
    BY <1>2, DataType DEF TypeInv, Tables
  <2>2. Free \in Nat /\ EOC \in Nat
    BY VolumeAssumption DEF Free, EOC
  <2> QED BY <2>1, <2>2, DataType
<1> HIDE DEF next
<1>5. reg[a] \in Regs /\ reg[a].left \in Nat
  BY RegsOf
<1>6. l \in Nat
  BY <1>5, StepsDown
<1>7. r = [reg[a] EXCEPT !.left = l, !.cur = next]
  BY <1>5 DEF Regs
<1> HIDE DEF r, l
<1>8. r \in Regs
  BY <1>4, <1>5, <1>6, <1>7 DEF Regs
<1>9. RegFits("l_walk", r)
  BY DEF RegFits
<1>10. MovesFat(a, "l_walk", r)
  BY <1>2, <1>3, <1>8, <1>9 DEF MovesFat
<1>11. "l_walk" \in Outside
  BY DEF Outside
<1> QED BY <1>1, <1>10, <1>11 DEF Looks

\* What a call sets up: a name, perhaps another, and perhaps as much left as there is to write.
LEMMA CallNames ==
    ASSUME NEW n \in FileNames, NEW w \in Outside, w # "r_lock"
    PROVE  [Blank EXCEPT !.name = n] \in Regs /\ RegFits(w, [Blank EXCEPT !.name = n])
<1> DEFINE r == [Blank EXCEPT !.name = n]
<1>1. NoFile \in Names /\ n \in Names
  BY DEF Names
<1>2. r \in Regs /\ r.name = n /\ r.left = r.len /\ r.prev = 0 /\ r.first = 0
  BY <1>1 DEF Blank, Regs
<1> HIDE DEF r
<1>3. RegFits(w, r)
  BY <1>2 DEF RegFits, Outside
<1> QED BY <1>2, <1>3 DEF r

LEMMA CallCopies ==
    ASSUME NEW n \in FileNames, NEW d \in FileNames, NEW w \in Outside
    PROVE  /\ [Blank EXCEPT !.name = n, !.dest = d] \in Regs
           /\ RegFits(w, [Blank EXCEPT !.name = n, !.dest = d])
<1> DEFINE r == [Blank EXCEPT !.name = n, !.dest = d]
<1>1. n \in Names /\ d \in Names
  BY DEF Names
<1>2. r \in Regs /\ r.name = n /\ r.dest = d /\ r.left = r.len /\ r.prev = 0 /\ r.first = 0
  BY <1>1 DEF Blank, Regs
<1> HIDE DEF r
<1>3. RegFits(w, r)
  BY <1>2 DEF RegFits, Outside
<1> QED BY <1>2, <1>3 DEF r

LEMMA CallWrites ==
    ASSUME NEW n \in FileNames, NEW k \in Nat, NEW w \in Outside, w # "r_lock"
    PROVE  /\ [Blank EXCEPT !.name = n, !.len = k, !.left = k] \in Regs
           /\ RegFits(w, [Blank EXCEPT !.name = n, !.len = k, !.left = k])
<1> DEFINE r == [Blank EXCEPT !.name = n, !.len = k, !.left = k]
<1>1. NoFile \in Names /\ n \in Names
  BY DEF Names
<1>2. r \in Regs /\ r.name = n /\ r.left = r.len /\ r.prev = 0 /\ r.first = 0
  BY <1>1 DEF Blank, Regs
<1> HIDE DEF r
<1>3. RegFits(w, r)
  BY <1>2 DEF RegFits, Outside
<1> QED BY <1>2, <1>3 DEF r

LEMMA ReadEndsLooks == ASSUME TypeInv, NEW a \in Actors, ReadEnds(a) PROVE Looks(a)
<1>1. /\ op[a] \in Outside /\ UNCHANGED <<fat, root, fat32_lock, torn, orphans>>
  BY DEF ReadEnds, At, Outside
<1>2. "idle" \in Outside /\ "w_lock" \in Outside
  BY DEF Outside
<1>3. CASE reg[a].dest = NoFile
  <2>1. MovesFat(a, "idle", Blank)
    BY <1>3, BlankFits DEF ReadEnds, Goes, Sets, MovesFat
  <2> QED BY <1>1, <1>2, <2>1 DEF Looks
<1>4. CASE reg[a].dest # NoFile
  <2> DEFINE r == [Blank EXCEPT !.name = reg[a].dest, !.len = reg[a].len, !.left = reg[a].len]
  <2>1. /\ op' = [op EXCEPT ![a] = "w_lock"] /\ reg' = [reg EXCEPT ![a] = r]
    BY <1>4 DEF ReadEnds, Goes, Sets
  <2>2. reg[a].dest \in FileNames /\ reg[a].len \in Nat
    BY <1>4, RegsOf DEF Names
  <2>4. r \in Regs /\ RegFits("w_lock", r)
    BY <1>2, <2>2, CallWrites
  <2> HIDE DEF r
  <2>5. MovesFat(a, "w_lock", r)
    BY <2>1, <2>4 DEF MovesFat
  <2> QED BY <1>1, <1>2, <2>5 DEF Looks
<1> QED BY <1>3, <1>4

LEMMA CatFindsLooks == ASSUME TypeInv, NEW a \in Actors, CatFinds(a) PROVE Looks(a)
<1>1. /\ op[a] \in Outside /\ UNCHANGED <<fat, root, fat32_lock, torn, orphans>>
  BY DEF CatFinds, Locks, At, Outside
<1>2. "idle" \in Outside /\ "l_find" \in Outside
  BY DEF Outside
<1>3. CASE Goes(a, "idle") /\ Sets(a, Blank)
  <2>1. MovesFat(a, "idle", Blank)
    BY <1>3, BlankFits DEF Goes, Sets, MovesFat
  <2> QED BY <1>1, <1>2, <2>1 DEF Looks
<1>4. CASE Goes(a, "l_find") /\ reg' = reg
  <2>1. reg' = [reg EXCEPT ![a] = reg[a]] /\ reg[a] \in Regs
    BY <1>4, RegsOf DEF TypeInv
  <2>2. RegFits("l_find", reg[a])
    BY DEF RegFits
  <2>3. MovesFat(a, "l_find", reg[a])
    BY <1>4, <2>1, <2>2 DEF Goes, MovesFat
  <2> QED BY <1>1, <1>2, <2>3 DEF Looks
<1> QED BY <1>3, <1>4 DEF CatFinds

LEMMA StartsLook ==
    ASSUME NEW a \in Actors, NEW w \in Outside, NEW r, Starts(a, w, r), r \in Regs, RegFits(w, r)
    PROVE  Looks(a)
<1>1. op[a] \in Outside /\ UNCHANGED <<fat, root, fat32_lock, torn, orphans>>
  BY DEF Starts, At, Outside
<1>2. MovesFat(a, w, r)
  BY DEF Starts, Goes, Sets, MovesFat
<1> QED BY <1>1, <1>2 DEF Looks

LEMMA CommandLooks == ASSUME NEW a \in Actors, Command(a) PROVE Looks(a)
<1>1. PICK n \in FileNames :
        \/ Starts(a, "d_lock", [Blank EXCEPT !.name = n])
        \/ Starts(a, "m_lock", [Blank EXCEPT !.name = n])
        \/ Starts(a, "t_lock", [Blank EXCEPT !.name = n])
        \/ \E k \in Lengths \ {0} :
             Starts(a, "a_lock", [Blank EXCEPT !.name = n, !.len = k, !.left = k])
        \/ \E d \in FileNames : Starts(a, "l_find", [Blank EXCEPT !.name = n, !.dest = d])
  BY DEF Command
<1>2. NoFile \in Names /\ FileNames \subseteq Names /\ Lengths \subseteq Nat
  BY VolumeAssumption DEF Names
<1>3. /\ "d_lock" \in Outside /\ "m_lock" \in Outside /\ "t_lock" \in Outside
      /\ "a_lock" \in Outside /\ "l_find" \in Outside
  BY DEF Outside
<1>4. ASSUME NEW w \in {"d_lock", "m_lock", "t_lock"}, Starts(a, w, [Blank EXCEPT !.name = n])
      PROVE  Looks(a)
  <2>1. [Blank EXCEPT !.name = n] \in Regs /\ RegFits(w, [Blank EXCEPT !.name = n])
    BY <1>3, CallNames
  <2> QED BY <1>3, <1>4, <2>1, StartsLook
<1>5. ASSUME NEW k \in Lengths,
             Starts(a, "a_lock", [Blank EXCEPT !.name = n, !.len = k, !.left = k])
      PROVE  Looks(a)
  <2> DEFINE r == [Blank EXCEPT !.name = n, !.len = k, !.left = k]
  <2>1. k \in Nat
    BY <1>2
  <2>2. r \in Regs /\ RegFits("a_lock", r)
    BY <1>3, <2>1, CallWrites
  <2> QED BY <1>3, <1>5, <2>2, StartsLook
<1>6. ASSUME NEW d \in FileNames, Starts(a, "l_find", [Blank EXCEPT !.name = n, !.dest = d])
      PROVE  Looks(a)
  <2> DEFINE r == [Blank EXCEPT !.name = n, !.dest = d]
  <2>1. r \in Regs /\ RegFits("l_find", r)
    BY <1>3, CallCopies
  <2> QED BY <1>3, <1>6, <2>1, StartsLook
<1> QED BY <1>1, <1>4, <1>5, <1>6

LEMMA CallLooks == ASSUME Call PROVE Looks(Prog)
<1>0. Prog \in Actors
  BY DEF Actors
<1>1. PICK n \in FileNames :
        \/ \E k \in Lengths :
             Starts(Prog, "w_lock", [Blank EXCEPT !.name = n, !.len = k, !.left = k])
        \/ \E d \in FileNames : Starts(Prog, "r_lock", [Blank EXCEPT !.name = n, !.dest = d])
        \/ Starts(Prog, "l_find", [Blank EXCEPT !.name = n])
  BY DEF Call
<1>2. NoFile \in Names /\ FileNames \subseteq Names /\ Lengths \subseteq Nat
  BY VolumeAssumption DEF Names
<1>3. "w_lock" \in Outside /\ "r_lock" \in Outside /\ "l_find" \in Outside
  BY DEF Outside
<1>4. ASSUME NEW k \in Lengths,
             Starts(Prog, "w_lock", [Blank EXCEPT !.name = n, !.len = k, !.left = k])
      PROVE  Looks(Prog)
  <2> DEFINE r == [Blank EXCEPT !.name = n, !.len = k, !.left = k]
  <2>1. k \in Nat
    BY <1>2
  <2>2. r \in Regs /\ RegFits("w_lock", r)
    BY <1>3, <2>1, CallWrites
  <2> QED BY <1>0, <1>3, <1>4, <2>2, StartsLook
<1>5. ASSUME NEW d \in FileNames, Starts(Prog, "r_lock", [Blank EXCEPT !.name = n, !.dest = d])
      PROVE  Looks(Prog)
  <2> DEFINE r == [Blank EXCEPT !.name = n, !.dest = d]
  <2>1. r \in Regs /\ RegFits("r_lock", r)
    BY <1>3, CallCopies
  <2> QED BY <1>0, <1>3, <1>5, <2>1, StartsLook
<1>6. ASSUME Starts(Prog, "l_find", [Blank EXCEPT !.name = n]) PROVE Looks(Prog)
  <2>1. [Blank EXCEPT !.name = n] \in Regs /\ RegFits("l_find", [Blank EXCEPT !.name = n])
    BY <1>3, CallNames
  <2> QED BY <1>0, <1>3, <1>6, <2>1, StartsLook
<1> QED BY <1>1, <1>4, <1>5, <1>6

-----------------------------------------------------------------------------
(***************************************************************************)
(* The invariant, and the theorems.                                        *)
(***************************************************************************)

\* The inductive invariant.
VolumeInv == LockInv /\ TypeInv /\ (torn \/ DiskInv)

LEMMA VolumeInit == FatInit => VolumeInv
<1> SUFFICES ASSUME FatInit PROVE VolumeInv
  OBVIOUS
<1>1. LockInv
  BY LockInit
<1>2. fat \in Tables /\ \A c \in Data : fat[c] = Free
  <2>1. \A c \in 0 .. LastCluster : (c <= Root) <=> c \notin Data
    BY VolumeAssumption DEF Root, Data
  <2>2. \A c \in 0 .. LastCluster : fat[c] = (IF c <= Root THEN EOC ELSE Free)
    BY DEF FatInit
  <2>3. fat \in Tables
    BY DEF FatInit, Tables
  <2> QED BY <2>1, <2>2, <2>3, DataType
<1>3. root \in [Slots -> Entries] /\ \A s \in Slots : root[s].name = NoFile
  BY DEF FatInit, Absent, Entries, Names
<1>4. TypeInv
  <2>1. reg \in [Actors -> Regs] /\ \A a \in Actors : RegFits(op[a], reg[a])
    BY BlankFits DEF FatInit
  <2> QED BY <1>2, <1>3, <2>1 DEF FatInit, TypeInv
<1>5. NamedSlots(root) = {}
  BY <1>3 DEF NamedSlots
<1>6. Quiet(fat, root, orphans)
  BY <1>2, <1>5 DEF Quiet, Tree, Apart, Spare
<1>7. DiskInv
  BY <1>6 DEF FatInit, DiskInv, HeldAt
<1> QED BY <1>1, <1>4, <1>7 DEF VolumeInv

LEMMA WorkKeeps ==
    ASSUME VolumeInv, NEW a \in Actors, Works(a)
    PROVE  TypeInv' /\ (torn' \/ (DiskInv' /\ Kept(a)))
<1>1. LockInv /\ TypeInv /\ (torn \/ DiskInv)
  BY DEF VolumeInv
<1>2. LockInv'
  BY <1>1, LockStep DEF FatNext
<1>3. CASE \/ WriteFinds(a) \/ WriteRelocks(a) \/ WriteAllocates(a) \/ WriteMarks(a)
           \/ WriteEnters(a) \/ DeleteFinds(a) \/ DeleteFrees(a)
  <2>1. ServesFat(a)
    BY <1>1, <1>3, WriteFindsServes, WriteRelocksServes, WriteAllocatesServes, WriteMarksServes,
       WriteEntersServes, DeleteFindsServes, DeleteFreesServes
  <2> QED BY <1>1, <1>2, <2>1, ServesKeep
<1>4. CASE \/ AppendFinds(a) \/ AppendLinks(a) \/ AppendMarks(a) \/ AppendEnters(a)
           \/ MkdirAllocates(a) \/ MkdirEnters(a) \/ Renames(a)
  <2>1. ServesFat(a)
    BY <1>1, <1>4, AppendFindsServes, AppendLinksServes, AppendMarksServes, AppendEntersServes,
       MkdirAllocatesServes, MkdirEntersServes, RenamesServes
  <2> QED BY <1>1, <1>2, <2>1, ServesKeep
<1>5. CASE ReadFinds(a) \/ ReadSteps(a) \/ ReadEnds(a) \/ CatFinds(a)
  <2>1. Looks(a)
    BY <1>1, <1>5, ReadFindsLooks, ReadStepsLooks, ReadEndsLooks, CatFindsLooks
  <2> QED BY <1>1, <2>1, LooksKeep
<1> QED BY <1>3, <1>4, <1>5 DEF Works

\* A call begins, and nothing else happens.
LEMMA CallKeeps ==
    ASSUME VolumeInv, Command(Shell) \/ Command(Prog) \/ Call
    PROVE  TypeInv' /\ (torn' \/ DiskInv')
<1>1. LockInv /\ TypeInv /\ (torn \/ DiskInv)
  BY DEF VolumeInv
<1>2. Shell \in Actors /\ Prog \in Actors
  BY DEF Actors
<1>3. Looks(Shell) \/ Looks(Prog)
  BY <1>2, CommandLooks, CallLooks
<1> QED BY <1>1, <1>2, <1>3, LooksKeep

\* The power fails: what was in anybody's hands is lost.
LEMMA PowerKeeps ==
    ASSUME VolumeInv, PowerLost
    PROVE  TypeInv' /\ (torn' \/ DiskInv')
<1>1. LockInv /\ TypeInv /\ (torn \/ DiskInv)
  BY DEF VolumeInv
<1>2. \A a \in Actors : op'[a] = "idle" /\ reg'[a] = Blank
  BY DEF PowerLost
<1>3. fat' = fat /\ root' = root
  BY DEF PowerLost, disk
<1>4. TypeInv'
  <2>1. reg' \in [Actors -> Regs] /\ \A a \in Actors : RegFits(op'[a], reg'[a])
    BY <1>2, BlankFits DEF PowerLost
  <2>2. \A a \in Actors : InHands(a) \subseteq Data
    BY <1>1, HandsType
  <2>3. torn' \in BOOLEAN /\ orphans' \subseteq Data
    BY <1>1, <2>2 DEF PowerLost, TypeInv
  <2> QED BY <1>1, <1>3, <2>1, <2>3 DEF TypeInv
<1>5. ASSUME ~torn' PROVE DiskInv'
  <2>1. DiskInv /\ \A a \in Actors : op[a] # "a_mark"
    BY <1>1, <1>5 DEF PowerLost
  <2>2. orphans \subseteq orphans' /\ \A a \in Actors : InHands(a) \subseteq orphans'
    BY DEF PowerLost
  <2>3. Quiet(fat, root, orphans')
    <3>1. CASE ~fat32_lock
      BY <2>1, <2>2, <3>1, StageNow DEF Quiet, Actors, DiskInv
    <3>2. CASE fat32_lock
      <4>1. PICK a \in Actors : op[a] \in HeldAt
        BY <1>1, <3>2 DEF LockInv, FatLockExact, Inside, HeldAt
      <4>2. orphans \cup InHands(a) \subseteq orphans'
        BY <2>2
      <4> QED BY <2>1, <4>1, <4>2, StageGivesUp
    <3> QED BY <3>1, <3>2
  <2> QED BY <1>2, <1>3, <2>3 DEF DiskInv, HeldAt
<1> QED BY <1>4, <1>5

LEMMA VolumeStep == VolumeInv /\ [FatNext]_fatvars => VolumeInv'
<1> SUFFICES ASSUME VolumeInv, [FatNext]_fatvars PROVE VolumeInv'
  OBVIOUS
<1>1. LockInv'
  BY LockStep DEF VolumeInv
<1>2. CASE UNCHANGED fatvars
  <2>1. /\ fat' = fat /\ root' = root /\ fat32_lock' = fat32_lock /\ op' = op /\ reg' = reg
        /\ torn' = torn /\ orphans' = orphans
    BY <1>2 DEF fatvars
  <2> QED BY <1>1, <2>1 DEF VolumeInv, TypeInv, DiskInv
<1>3. CASE \E a \in Actors : Works(a)
  BY <1>1, <1>3, WorkKeeps DEF VolumeInv
<1>4. CASE Command(Shell) \/ Command(Prog) \/ Call
  BY <1>1, <1>4, CallKeeps DEF VolumeInv
<1>5. CASE PowerLost
  BY <1>1, <1>5, PowerKeeps DEF VolumeInv
<1> QED BY <1>2, <1>3, <1>4, <1>5 DEF FatNext

-----------------------------------------------------------------------------
\* What holds of the disk whoever is inside.

Pending == {d \in Data : \E a \in Actors : op[a] = "a_mark" /\ reg[a].cur = d}
AllHands == UNION {InHands(a) : a \in Actors}

LEMMA DiskNow ==
    ASSUME LockInv, TypeInv, DiskInv
    PROVE  Tree(fat, root, Pending) /\ Spare(fat, root) \subseteq orphans \cup AllHands
<1>1. ASSUME \A a \in Actors : op[a] # "a_mark"
      PROVE  Pending = {}
  BY <1>1 DEF Pending
<1>2. CASE ~fat32_lock
  <2>1. Quiet(fat, root, orphans)
    BY <1>2 DEF DiskInv
  <2>2. \A a \in Actors : op[a] # "a_mark"
    BY <1>2 DEF LockInv, FatLockExact, Inside
  <2> QED BY <1>1, <2>1, <2>2 DEF Quiet
<1>3. CASE fat32_lock
  <2>1. PICK a \in Actors : op[a] \in HeldAt
    BY <1>3 DEF LockInv, FatLockExact, Inside, HeldAt
  <2>2. \A b \in Actors : op[b] \in HeldAt => b = a
    BY <2>1 DEF LockInv, FatLockExact, Inside, HeldAt
  <2>3. CASE op[a] = "a_mark"
    <3>1. AMark(reg[a].first, reg[a].name, reg[a].cur, reg[a].left, reg[a].len,
                fat, root, orphans)
      BY <2>3, StageNow
    <3>2. reg[a].cur \in Data
      BY <2>3, RegsOf DEF RegFits
    <3>3. \A b \in Actors : op[b] = "a_mark" <=> b = a
      BY <2>2, <2>3 DEF HeldAt
    <3>4. Pending = {reg[a].cur}
      BY <3>2, <3>3 DEF Pending
    <3> QED BY <3>1, <3>4 DEF AMark
  <2>4. CASE op[a] # "a_mark"
    <3>1. \A b \in Actors : op[b] # "a_mark"
      BY <2>2, <2>4 DEF HeldAt
    <3>2. Quiet(fat, root, orphans \cup InHands(a))
      BY <2>1, <2>4, StageGivesUp
    <3>3. InHands(a) \subseteq AllHands
      BY DEF AllHands
    <3> QED BY <1>1, <3>1, <3>2, <3>3 DEF Quiet
  <2> QED BY <2>3, <2>4
<1> QED BY <1>2, <1>3

-----------------------------------------------------------------------------

\* The table and the directory stay well formed: no link leaves the volume, no entry points
\* into the reserved clusters.
THEOREM FatTypes == FatSpec => []FatTypeOK
<1>1. VolumeInv => FatTypeOK
  <2> SUFFICES ASSUME VolumeInv PROVE FatTypeOK
    OBVIOUS
  <2>1. TypeInv /\ LockInv
    BY DEF VolumeInv
  <2>2. {Free, EOC} \cup Data \subseteq 0 .. EOC
    BY VolumeAssumption DEF Free, EOC, Data
  <2>3. {0} \cup Data \subseteq 0 .. LastCluster
    BY VolumeAssumption DEF Data
  <2>4. fat \in [0 .. LastCluster -> 0 .. EOC]
    BY <2>1, <2>2 DEF TypeInv, Tables
  <2>5. \A s \in Slots : root[s] \in [name : FileNames \cup {NoFile}, dir : BOOLEAN,
                                      first : 0 .. LastCluster, size : Nat]
    BY <2>1, <2>3 DEF TypeInv, Entries, Names
  <2>6. root \in [Slots -> [name : FileNames \cup {NoFile}, dir : BOOLEAN,
                            first : 0 .. LastCluster, size : Nat]]
    BY <2>1, <2>5 DEF TypeInv
  <2> QED BY <2>1, <2>4, <2>6 DEF TypeInv, LockInv, FatTypeOK
<1> QED BY VolumeInit, VolumeStep, <1>1, PTL DEF FatSpec

\* Every file's chain is allocated to its end, long enough for its size and apart from the
\* others, after every step of every operation and after a loss of power at any of them.
THEOREM ChainsAreSound == FatSpec => []ChainsSound
<1>1. VolumeInv => ChainsSound
  <2> SUFFICES ASSUME VolumeInv, ~torn, NEW s \in Slots, root[s].name # NoFile
               PROVE  LET c == root[s].first
                          ended == {d \in Reach(c) : fat[d] = EOC \/ \E a \in Actors :
                                                  op[a] = "a_mark" /\ reg[a].cur = d}
                      IN  /\ c # 0 => ended # {}
                          /\ \A d \in Reach(c) \ ended : fat[d] \in Data
                          /\ Cardinality(Reach(c)) * ClusterSize >= root[s].size
                          /\ \A t \in Slots \ {s} :
                               root[t].name # NoFile =>
                                   Reach(c) \cap Reach(root[t].first) = {}
    BY DEF ChainsSound
  <2> DEFINE c == root[s].first
             ended == {d \in Reach(c) : fat[d] = EOC \/ \E a \in Actors :
                                            op[a] = "a_mark" /\ reg[a].cur = d}
  <2>1. Tree(fat, root, Pending) /\ TypeInv
    BY DiskNow DEF VolumeInv
  <2>2. c \in {0} \cup Data
    BY <2>1, SlotType
  <2>3. ended = {d \in ReachIn(fat, c) : fat[d] = EOC \/ d \in Pending}
    BY ReachType DEF Reach, Pending
  <2>4. Chain(fat, c, Pending, root[s].size)
    BY <2>1 DEF Tree, NamedSlots
  <2>5. \A t \in Slots \ {s} : root[t].name # NoFile => Reach(c) \cap Reach(root[t].first) = {}
    BY <2>1 DEF Tree, Apart, NamedSlots, Reach
  <2> HIDE DEF ended, c
  <2>6. c # 0 => ended # {}
    BY <2>2, <2>3, <2>4 DEF Chain
  <2>7. \A d \in Reach(c) \ ended : fat[d] \in Data
    BY <2>3, <2>4 DEF Chain, Reach
  <2>8. Cardinality(Reach(c)) * ClusterSize >= root[s].size
    BY <2>4 DEF Chain, Reach
  <2> QED BY <2>5, <2>6, <2>7, <2>8 DEF ended, c
<1> QED BY VolumeInit, VolumeStep, <1>1, PTL DEF FatSpec

\* No sequence of operations loses a cluster but in the known ways.
THEOREM NothingIsLost == FatSpec => []NothingLeaks
<1>1. VolumeInv => NothingLeaks
  <2> SUFFICES ASSUME VolumeInv, ~torn
               PROVE  Unnamed \subseteq orphans \cup UNION {InHands(a) : a \in Actors}
    BY DEF NothingLeaks
  <2>1. Spare(fat, root) \subseteq orphans \cup AllHands
    BY DiskNow DEF VolumeInv
  <2>2. NamedIn(fat, root) = Named
    BY ReachType DEF NamedIn, Named, NamedSlots, Reach
  <2> QED BY <2>1, <2>2 DEF Unnamed, Spare, AllHands
<1> QED BY VolumeInit, VolumeStep, <1>1, PTL DEF FatSpec

-----------------------------------------------------------------------------

\* The files of a name nobody is called for.
LEMMA FilesKept ==
    ASSUME NEW n \in FileNames, NEW a \in Actors, Kept(a),
           n \notin {reg[a].name, reg[a].dest}
    PROVE  FilesOf(n)' = FilesOf(n)
<1>1. \A s \in Slots : root[s].name = n \/ root'[s].name = n =>
        root'[s] = root[s] /\ ReachIn(fat', root[s].first) = ReachIn(fat, root[s].first)
  BY DEF Kept
<1>2. FilesOf(n) = {<<root[s], ReachIn(fat, root[s].first)>> : s \in SlotsOf(n)}
  BY DEF FilesOf, Reach
<1>3. FilesOf(n)' = {<<root'[s], ReachIn(fat', root'[s].first)>> : s \in SlotsOf(n)'}
  BY DEF FilesOf, Reach
<1>4. SlotsOf(n)' = SlotsOf(n)
  BY <1>1 DEF SlotsOf
<1>5. \A s \in SlotsOf(n) : <<root'[s], ReachIn(fat', root'[s].first)>> =
                            <<root[s], ReachIn(fat, root[s].first)>>
  BY <1>1 DEF SlotsOf
<1> QED BY <1>2, <1>3, <1>4, <1>5

LEMMA FilesSame == ASSUME NEW n, UNCHANGED disk PROVE FilesOf(n)' = FilesOf(n)
BY DEF disk, FilesOf, SlotsOf, Reach

\* Files an operation was not called for keep their entry and their clusters.
THEOREM FilesAreLeftAlone == FatSpec => OthersUntouched
<1>1. ASSUME VolumeInv, [FatNext]_fatvars, NEW n \in FileNames, ~torn', ~Concerns(n)
      PROVE  FilesOf(n)' = FilesOf(n)
  <2>1. CASE UNCHANGED fatvars \/ PowerLost \/ Command(Shell) \/ Command(Prog) \/ Call
    <3>1. CASE UNCHANGED fatvars \/ PowerLost
      BY <3>1, FilesSame DEF fatvars, PowerLost, disk
    <3>2. CASE Command(Shell) \/ Command(Prog) \/ Call
      <4>1. Looks(Shell) \/ Looks(Prog)
        BY <3>2, CommandLooks, CallLooks DEF Actors
      <4> QED BY <4>1, FilesSame DEF Looks, disk
    <3> QED BY <2>1, <3>1, <3>2
  <2>2. ASSUME NEW a \in Actors, Works(a) PROVE FilesOf(n)' = FilesOf(n)
    <3>1. op[a] # "idle"
      BY <2>2 DEF Works, WriteFinds, WriteRelocks, WriteAllocates, WriteMarks, WriteEnters,
         DeleteFinds, DeleteFrees, AppendFinds, AppendLinks, AppendMarks, AppendEnters,
         MkdirAllocates, MkdirEnters, Renames, ReadFinds, ReadSteps, ReadEnds, CatFinds,
         Locks, At
    <3>2. n \notin {reg[a].name, reg[a].dest}
      BY <1>1, <3>1 DEF Concerns
    <3>3. Kept(a)
      BY <1>1, <2>2, WorkKeeps
    <3> QED BY <3>2, <3>3, FilesKept
  <2> QED BY <1>1, <2>1, <2>2 DEF FatNext
<1>2. VolumeInv /\ [FatNext]_fatvars
        => [\A n \in FileNames : torn' \/ Concerns(n) \/ FilesOf(n)' = FilesOf(n)]_fatvars
  BY <1>1
<1> QED BY VolumeInit, VolumeStep, <1>2, PTL DEF FatSpec, OthersUntouched

=============================================================================
