------------------------------ MODULE Volumes ------------------------------
(***************************************************************************)
(* The drives C:, D: and E: of fs/fat32.c: one active geometry, a saved    *)
(* context per unit, and the switch between them.  The FAT operations use  *)
(* the active geometry and fat32_current_dev_id at every access, and hold  *)
(* fat32_lock; the switch holds fat_lock.  The shell is a kernel thread;   *)
(* the system call of a program runs with interrupts off.                  *)
(***************************************************************************)
EXTENDS Naturals

CONSTANT Dirs            \* directories of a disk besides its root

Disks == 0 .. 2          \* 0 is SATA; 1 and 2 are USB, and nothing answers at address 2
RootDir == "root"
ASSUME DirsAssumption == RootDir \notin Dirs

Hands == {"shell", "program"}
NoHand == [at |-> "idle", to |-> 0, from |-> 0, part |-> 0, switch |-> FALSE]
Place(d, c) == [disk |-> d, dir |-> c]

VARIABLES
    dev,       \* fat32_current_dev_id
    geo,       \* of which disk are disk_bpb, the partition offset, the start sectors; the directory
    units,     \* unidades_sistema
    hand,      \* what each actor is doing
    was,       \* history: the directory the user was last in, per disk
    forgotten, \* history: disks that were left without saving the directory
    failed,    \* history: a mount failed after it had set fat32_current_dev_id
    overlap,   \* history: a switch or a mount overlapped with another's call
    strayed    \* history: C: was written with clusters or geometry of another disk

volvars == <<dev, geo, units, hand, was, forgotten, failed, overlap, strayed>>

GeoOf(d, p) == [bpb |-> d, off |-> d, fat |-> d, dir |-> p]

\* kernel_main has mounted C: and switched to it.
VolInit ==
    /\ dev = 0
    /\ geo = GeoOf(0, Place(0, RootDir))
    /\ units = [d \in Disks |-> [ready |-> d = 0, geo |-> geo]]
    /\ hand = [h \in Hands |-> NoHand]
    /\ was = [d \in Disks |-> RootDir]
    /\ forgotten = {}
    /\ failed = FALSE /\ overlap = FALSE /\ strayed = FALSE

HandAt(h, where) ==
    /\ h = "program" \/ hand["program"].at = "idle"
    /\ hand[h].at = where
HandGoes(h, r) == hand' = [hand EXCEPT ![h] = r]
HandMoves(h, where) == HandGoes(h, [hand[h] EXCEPT !.at = where])
Other(h) == CHOOSE g \in Hands : g # h

Busy(h) == hand[h].at # "idle"
InFat(h) == hand[h].at = "work"
InLock(h) == hand[h].at \in {"mount_geo", "restore_bpb", "restore_rest"}   \* fat_lock

-----------------------------------------------------------------------------
(* fat32_mount *)

Mounts(h) ==
    /\ HandAt(h, "mount")
    /\ dev' = hand[h].to
    /\ forgotten' = IF dev = hand[h].to THEN forgotten ELSE forgotten \cup {dev}
    /\ HandMoves(h, "mount_read")
    /\ UNCHANGED <<geo, units, was, failed, overlap, strayed>>

\* No block, no MBR, no boot record, or a boot record without its signature: what had been
\* assigned by then stays.
MountFails(h) ==
    /\ HandAt(h, "mount_read") /\ ~InLock(Other(h))
    /\ failed' = TRUE
    /\ LET d == hand[h].to
       IN  \/ UNCHANGED geo
           \/ d # 2 /\ geo' = [geo EXCEPT !.off = d]
           \/ d # 2 /\ geo' = [geo EXCEPT !.off = d, !.bpb = d]
    /\ HandGoes(h, NoHand)
    /\ UNCHANGED <<dev, units, was, forgotten, overlap, strayed>>

MountReads(h) ==
    /\ HandAt(h, "mount_read") /\ ~InLock(Other(h)) /\ hand[h].to # 2
    /\ geo' = [geo EXCEPT !.off = hand[h].to, !.bpb = hand[h].to]
    /\ HandMoves(h, "mount_geo")
    /\ UNCHANGED <<dev, units, was, forgotten, failed, overlap, strayed>>

MountSets(h) ==
    /\ HandAt(h, "mount_geo")
    /\ geo' = [geo EXCEPT !.fat = hand[h].to, !.dir = Place(hand[h].to, RootDir)]
    /\ was' = [was EXCEPT ![hand[h].to] = RootDir]
    /\ HandMoves(h, "mount_save")
    /\ UNCHANGED <<dev, units, forgotten, failed, overlap, strayed>>

\* fat32_salvar_contexto_disco; a switch goes on, SYS_EHCI returns.
MountSaves(h) ==
    /\ HandAt(h, "mount_save")
    /\ LET d == hand[h].to
           dir == IF units[d].ready THEN geo.dir ELSE Place(geo.bpb, RootDir)
       IN  units' = [units EXCEPT ![d] = [ready |-> TRUE, geo |-> [geo EXCEPT !.dir = dir]]]
    /\ IF hand[h].switch THEN HandMoves(h, "switch") ELSE HandGoes(h, NoHand)
    /\ UNCHANGED <<dev, geo, was, forgotten, failed, overlap, strayed>>

-----------------------------------------------------------------------------
(* fat32_mudar_disco_ativo *)

SwitchSaves(h) ==
    /\ HandAt(h, "switch") /\ ~InLock(Other(h))
    /\ units' = [units EXCEPT ![dev].geo.dir = geo.dir]
    /\ dev' = hand[h].to
    /\ HandMoves(h, "restore_bpb")
    /\ UNCHANGED <<geo, was, forgotten, failed, overlap, strayed>>

RestoresBpb(h) ==
    /\ HandAt(h, "restore_bpb")
    /\ geo' = [geo EXCEPT !.bpb = units[hand[h].to].geo.bpb]
    /\ HandMoves(h, "restore_rest")
    /\ UNCHANGED <<dev, units, was, forgotten, failed, overlap, strayed>>

\* Mutant: where the FAT of the drive is, is not restored.
BadRestoresRest(h) ==
    /\ HandAt(h, "restore_rest")
    /\ LET saved == units[hand[h].to].geo
       IN  geo' = [saved EXCEPT !.bpb = geo.bpb, !.fat = geo.fat]
    /\ HandGoes(h, NoHand)
    /\ UNCHANGED <<dev, units, was, forgotten, failed, overlap, strayed>>

\* The disk is back where it was, or where it was when it was last saved.
RestoresRest(h) ==
    /\ HandAt(h, "restore_rest")
    /\ LET d == hand[h].to
           saved == units[d].geo
       IN  /\ geo' = [saved EXCEPT !.bpb = geo.bpb]
           /\ was' = IF d \in forgotten THEN [was EXCEPT ![d] = saved.dir.dir] ELSE was
           /\ forgotten' = forgotten \ {d}
    /\ HandGoes(h, NoHand)
    /\ UNCHANGED <<dev, units, failed, overlap, strayed>>

-----------------------------------------------------------------------------
(* Calls *)

\* ehci_storage_init and the rest of the waking may fail: nothing is changed then.
Asks(h, d, switch) ==
    /\ HandAt(h, "idle")
    /\ overlap' = (overlap \/ Busy(Other(h)))
    /\ HandGoes(h, [NoHand EXCEPT !.to = d, !.switch = switch,
                                  !.at = IF switch /\ units[d].ready THEN "switch" ELSE "mount"])
    /\ UNCHANGED <<dev, geo, units, was, forgotten, failed, strayed>>

\* A FAT operation: the clusters it works with come from where the geometry points.  It
\* spins while another holds fat32_lock, a program with interrupts off.
Source == IF \A p \in {"bpb", "off", "fat"} : geo[p] = dev THEN dev ELSE 3
Opens(h) ==
    /\ HandAt(h, "idle") /\ ~InFat(Other(h))
    /\ overlap' = (overlap \/ Busy(Other(h)))
    /\ HandGoes(h, [NoHand EXCEPT !.at = "work", !.from = Source])
    /\ UNCHANGED <<dev, geo, units, was, forgotten, failed, strayed>>

\* storage_write_sectors refuses every disk but C:.
WritesSector(h) ==
    /\ HandAt(h, "work")
    /\ strayed' = (strayed \/ (dev = 0 /\ (Source # 0 \/ hand[h].from # 0)))
    /\ UNCHANGED <<dev, geo, units, hand, was, forgotten, failed, overlap>>

Closes(h) ==
    /\ HandAt(h, "work")
    /\ HandGoes(h, NoHand)
    /\ UNCHANGED <<dev, geo, units, was, forgotten, failed, overlap, strayed>>

\* SYS_CHDIR and cd: a search, then the assignment.
ChangesDir(h) ==
    /\ HandAt(h, "work") /\ hand[h].from \in Disks
    /\ \E c \in Dirs \cup {RootDir} :
         /\ geo' = [geo EXCEPT !.dir = Place(hand[h].from, c)]
         /\ was' = [was EXCEPT ![hand[h].from] = c]
    /\ HandGoes(h, NoHand)
    /\ UNCHANGED <<dev, units, forgotten, failed, overlap, strayed>>

VolNext ==
    \E h \in Hands :
        \/ Mounts(h) \/ MountFails(h) \/ MountReads(h) \/ MountSets(h) \/ MountSaves(h)
        \/ SwitchSaves(h) \/ RestoresBpb(h) \/ RestoresRest(h)
        \/ \E d \in Disks : (d # 0 \/ units[0].ready) /\ Asks(h, d, TRUE)   \* SYS_SET_DRIVE
        \/ Asks(h, 1, FALSE)                                                \* SYS_EHCI
        \/ Opens(h) \/ WritesSector(h) \/ Closes(h) \/ ChangesDir(h)

VolSpec == VolInit /\ [][VolNext]_volvars

-----------------------------------------------------------------------------
(* Properties *)

VolTypeOK ==
    /\ dev \in Disks
    /\ \A p \in {"bpb", "off", "fat"} : geo[p] \in Disks
    /\ geo.dir \in [disk : Disks, dir : Dirs \cup {RootDir}]
    /\ {failed, overlap, strayed} \subseteq BOOLEAN /\ forgotten \subseteq Disks

\* C: is only ever written with its own geometry and with clusters found on it, after any
\* sequence of switches, mounts and failed mounts, as long as no switch overlaps a call of
\* somebody else: fat_lock, which the switch takes, is not the lock the FAT operations hold.
WritesHome == overlap \/ ~strayed

\* Whoever comes back to a drive is in the directory they left (fat32_mudar_disco_ativo), and the
\* geometry is that of the current drive, unless a mount failed, or set
\* fat32_current_dev_id before the directory of the drive left was saved.
DirKept ==
    overlap \/ failed \/ (\E h \in Hands : Busy(h)) \/
    (/\ \A p \in {"bpb", "off", "fat"} : geo[p] = dev
     /\ geo.dir.disk = dev
     /\ dev \in forgotten \/ geo.dir.dir = was[dev])

\* Both: one thread's switches lose neither data nor directory (fat32_mudar_disco_ativo,
\* fat32_mount), and only an overlap with somebody else's call does.
VolumesKept == WritesHome /\ DirKept
=============================================================================
