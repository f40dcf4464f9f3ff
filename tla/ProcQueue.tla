----------------------------- MODULE ProcQueue ------------------------------
(***************************************************************************)
(* The list of processes and the scan of schedule (Proc) keep the promises *)
(* of ReadyQueue: the place of a process in the queue is the number of     *)
(* links schedule would follow from current_process to reach it.           *)
(***************************************************************************)
EXTENDS Proc

Waiting == {p \in Linked : state[p] = "ready" /\ p # current}

Ahead == {pq \in Waiting \X Waiting : Turn(pq[1]) < Turn(pq[2])}

Queue == INSTANCE ReadyQueue
           WITH Idle <- TaskA, owner <- current, waiting <- Waiting, ahead <- Ahead

\* Whatever is created, killed, woken or reaped while processes wait, schedule
\* serves them as the abstract queue does: first come first, nobody
\* overtakes, and a process that was preempted goes behind those it kept
\* waiting.
ServesInTurn == Queue!Spec

=============================================================================
