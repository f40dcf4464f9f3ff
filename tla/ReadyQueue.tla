----------------------------- MODULE ReadyQueue -----------------------------
(***************************************************************************)
(* What a scheduler promises to those who wait for the CPU, whatever its   *)
(* data structures: the process that is served is the one that has nobody  *)
(* ahead of it, two processes that go on waiting never swap, and the       *)
(* process that gives up the CPU goes behind everyone who was waiting.     *)
(* A process that starts to wait may do so at any place.                   *)
(***************************************************************************)
CONSTANTS
  Procs,  \* the processes
  Idle    \* the process that always has something to do

VARIABLES
  owner,    \* who has the CPU
  waiting,  \* who waits for it
  ahead     \* the pairs <<p, q>> of waiting processes where p comes before q

queue == <<owner, waiting, ahead>>

\* r orders the set S.
Orders(r, S) ==
  /\ r \subseteq S \X S
  /\ \A p, q \in S : p # q => (<<p, q>> \in r \/ <<q, p>> \in r)
  /\ \A p, q \in S : <<p, q>> \in r => <<q, p>> \notin r
  /\ \A p, q, s \in S : <<p, q>> \in r /\ <<q, s>> \in r => <<p, s>> \in r

\* Those who go on waiting keep their order, and the others get some place.
KeepsOrder ==
  /\ Orders(ahead', waiting')
  /\ \A p, q \in waiting \cap waiting' : <<p, q>> \in ahead' <=> <<p, q>> \in ahead

Init == owner = Idle /\ waiting = {} /\ ahead = {}

\* p wakes, is created or is made ready by the owner.
Arrive(p) ==
  /\ p \notin waiting \cup {owner}
  /\ waiting' = waiting \cup {p}
  /\ owner' = owner
  /\ KeepsOrder

\* p is killed by the owner.
Leave(p) ==
  /\ p \in waiting \ {Idle}
  /\ waiting' = waiting \ {p}
  /\ owner' = owner
  /\ KeepsOrder

\* The owner gives up the CPU, for a while or for ever, some processes wake,
\* and one of those that wait or wake is served.
Dispatch ==
  /\ waiting' \in SUBSET (Procs \ {owner'})
  /\ waiting \subseteq waiting' \cup {owner'}
  /\ owner = Idle => Idle \in waiting' \cup {owner'}
  /\ owner' \in waiting => \A p \in waiting \ {owner'} : <<owner', p>> \in ahead
  /\ owner' = owner => waiting' = {}
  /\ owner \in waiting' => \A p \in waiting \ {owner'} : <<p, owner>> \in ahead'
  /\ KeepsOrder

Next == Dispatch \/ \E p \in Procs : Arrive(p) \/ Leave(p)

Spec == Init /\ [][Next]_queue

=============================================================================
