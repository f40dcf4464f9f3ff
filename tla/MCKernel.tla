------------------------------ MODULE MCKernel ------------------------------
(***************************************************************************)
(* The bench of the kernel's parts: the frames and the address spaces, the *)
(* kernel heap, a program's heap, the keyboard and the mouse up to their   *)
(* readers, and the protected blocks of kernel code, one of them in each   *)
(* behaviour.                                                              *)
(***************************************************************************)
EXTENDS Memory, Heap, Input, Recovery, TLC

VARIABLE part

vars == <<part, memvars, heapvars, inputvars, recoveryvars>>

\* The parts that stand still start in one state of theirs.
Init ==
    /\ part \in {"memory", "kernel heap", "user heap", "input", "recovery"}
    /\ MemInit /\ HeapInit /\ InputInit /\ RecoveryInit

Only(here, next, others) == part = here /\ next /\ UNCHANGED <<part, others>>

Next ==
    \/ Only("memory", MemNext, <<heapvars, inputvars, recoveryvars>>)
    \/ Only("kernel heap", KernelHeapNext, <<memvars, inputvars, recoveryvars>>)
    \/ Only("user heap", UserHeapNext, <<memvars, inputvars, recoveryvars>>)
    \/ Only("input", InputNext, <<memvars, heapvars, recoveryvars>>)
    \/ Only("recovery", RecoveryNext, <<memvars, heapvars, inputvars>>)

Spec == Init /\ [][Next]_vars

\* Nothing is followed past a race of two loaders, the loss of a second frame, the first page
\* fault that leaves the address space wrong, a mouse out of step or a byte another reader
\* took.  The rings and the packets are not filled at once: they share only the controller.
StateConstraint ==
    /\ ~raced /\ Cardinality(lost) <= 1 /\ cr3 = "good"
    /\ ~slipped /\ ~robbed
    /\ mouse.cycle # 0 \/ coming # << >> => RingIsEmpty(keys) /\ line = 0

Symmetry == Permutations(Programs)

KernelTypeOK == MemTypeOK /\ InputTypeOK /\ RecoveryTypeOK
=============================================================================
