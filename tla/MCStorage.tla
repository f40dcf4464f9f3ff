----------------------------- MODULE MCStorage -----------------------------
(***************************************************************************)
(* The bench of the storage parts: the FAT file operations, the volume     *)
(* switch, the AHCI port and the USB transfers, one of them in each        *)
(* behaviour.  The parts share no state here; one run checks them all.     *)
(***************************************************************************)
EXTENDS Fat32, Volumes, Ahci, Ehci, TLC

VARIABLE part

vars == <<part, fatvars, volvars, ahcivars, usbvars>>

\* The parts that stand still start in one state of theirs.
Init ==
    /\ part \in {"fat", "volumes", "ahci", "usb"}
    /\ FatInit /\ VolInit
    /\ AhciInit /\ (part # "ahci" => sector = [s \in Sectors |-> bounce] /\ bounce = "x")
    /\ UsbInit /\ (part # "usb" => pen.ends = Pairs[1])

Only(here, next, others) == part = here /\ next /\ UNCHANGED <<part, others>>

Next ==
    \/ Only("fat", FatNext, <<volvars, ahcivars, usbvars>>)
    \/ Only("volumes", VolNext, <<fatvars, ahcivars, usbvars>>)
    \/ Only("ahci", AhciNext, <<fatvars, volvars, usbvars>>)
    \/ Only("usb", UsbNext, <<fatvars, volvars, ahcivars>>)

Spec == Init /\ [][Next]_vars

\* Nothing is followed past a power cut in the middle of a command, past the first lost
\* overlap of two callers, or past a transfer that two threads have mixed up.
StateConstraint ==
    ~torn /\ ~overlap /\ ~shared /\ ~overtime /\ ~crossed /\ ~(mixed /\ upset)

\* No definition tells one file name, or one block, from another; as the parts share no state,
\* the configuration gives both sets the same two values.
Symmetry == Permutations(FileNames)

StorageTypeOK == FatTypeOK /\ VolTypeOK /\ AhciTypeOK /\ UsbTypeOK
=============================================================================
