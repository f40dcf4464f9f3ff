------------------------------- MODULE Fat32 -------------------------------
(***************************************************************************)
(* The FAT32 driver: the allocation table and the root directory on disk,  *)
(* and the operations the shell (a kernel thread, interrupts on) and the   *)
(* programs (system calls, interrupts off) run on them.  The ELF loader of *)
(* task_c and task_d reads as the shell does.                              *)
(*                                                                         *)
(* A step is one write to the disk, or a stretch of reads.  Taking the     *)
(* lock and the reads made under it belong to the write they lead to,      *)
(* since whoever writes holds the lock.  The power may fail between any    *)
(* two steps.                                                              *)
(***************************************************************************)
EXTENDS Naturals, FiniteSets

CONSTANTS
    LastCluster,  \* data clusters are 3 to LastCluster; 2 is the root directory
    Slots,        \* entries of the root directory, in the order they are scanned
    FileNames,    \* names in 8.3 form
    ClusterSize,  \* units of data in a cluster (sectors_per_cluster * 512)
    Lengths       \* how much one call writes or appends, in units

NoFile == "nofile"               \* filename[0] is 0x00 or 0xE5

ASSUME VolumeAssumption ==
    /\ LastCluster \in Nat /\ LastCluster > 2
    /\ ClusterSize \in Nat \ {0}
    /\ Lengths \subseteq Nat
    /\ Slots \subseteq Nat /\ IsFiniteSet(Slots)
    /\ NoFile \notin FileNames

Root == 2
Data == 3 .. LastCluster
Free == 0
EOC  == LastCluster + 1           \* FAT32_EOC: above every cluster
Absent == [name |-> NoFile, dir |-> FALSE, first |-> 0, size |-> 0]

Shell == "shell"
Prog  == "program"
Actors == {Shell, Prog}

VARIABLES
    fat,        \* the allocation table
    root,       \* the entries of the root directory
    fat32_lock, \* is the lock taken
    op,         \* where each actor is in its operation
    reg,        \* its local variables
    torn,       \* history: a chain has been damaged (see Tears)
    orphans     \* history: clusters an operation gave up on its way out

disk == <<fat, root>>
fatvars == <<fat, root, fat32_lock, op, reg, torn, orphans>>

Blank == [name |-> NoFile, dest |-> NoFile, len |-> 0, left |-> 0,
          prev |-> 0, first |-> 0, cur |-> 0, over |-> FALSE]

FatInit ==
    /\ fat = [c \in 0 .. LastCluster |-> IF c <= Root THEN EOC ELSE Free]
    /\ root = [s \in Slots |-> Absent]
    /\ fat32_lock = FALSE
    /\ op = [a \in Actors |-> "idle"]
    /\ reg = [a \in Actors |-> Blank]
    /\ torn = FALSE
    /\ orphans = {}

-----------------------------------------------------------------------------
(* What is on the disk *)

\* The data clusters met from c on, the way every loop of the driver follows the table f: the
\* least set that holds c and whatever follows a cluster of it.
Closed(f, S) == \A d \in S : f[d] \in Data => f[d] \in S
ReachIn(f, c) ==
    {d \in Data : \A S \in SUBSET Data : ({c} \cap Data \subseteq S /\ Closed(f, S)) => d \in S}
Reach(c) == ReachIn(fat, c)

\* Mutant: a cluster in the middle of a chain is taken for a free one.
BadFreeClusters == {c \in Data : fat[c] # EOC}

\* fat32_find_free_cluster: the first free one, or 0.
FreeClusters == {c \in Data : fat[c] = Free}
FreeCluster ==
    IF FreeClusters = {} THEN 0
    ELSE CHOOSE c \in FreeClusters : \A d \in FreeClusters : c <= d

First(S) == CHOOSE s \in S : \A t \in S : s <= t

\* fat32_find_entry, and the scan for a free entry: the first slot that fits.
SlotsOf(n)  == {s \in Slots : root[s].name = n}
Exists(n)   == SlotsOf(n) # {}
Entry(n)    == root[First(SlotsOf(n))]

\* The last cluster append finds: where the chain ends, or 0 for an empty file.
LastOf(c) ==
    LET ends == {d \in Reach(c) : fat[d] \notin Reach(c)}
    IN  IF ends = {} THEN c ELSE CHOOSE d \in ends : TRUE

Named == UNION {Reach(root[s].first) : s \in {t \in Slots : root[t].name # NoFile}}
Unnamed == {c \in Data : fat[c] # Free} \ Named

-----------------------------------------------------------------------------
(* How an actor moves *)

\* A system call of a program runs with interrupts off: nobody else moves before it returns.
Runs(a) == a = Prog \/ op[Prog] = "idle"

At(a, where) == Runs(a) /\ op[a] = where
Goes(a, where) == op' = [op EXCEPT ![a] = where]
Sets(a, r) == reg' = [reg EXCEPT ![a] = r]

\* spin_lock: a kernel thread that finds it taken spins until its next turn; a
\* program spins with interrupts off, and the machine with it.
Locks(a, where) == At(a, where) /\ ~fat32_lock
Keeps(a, where) == fat32_lock' = TRUE /\ Goes(a, where)

\* spin_unlock and return: what was allocated and has no name by now never gets one.
Returns(a) ==
    /\ fat32_lock' = FALSE
    /\ Goes(a, "idle")
    /\ Sets(a, Blank)

SetEntry(c, v) == fat' = [fat EXCEPT ![c] = v]

\* What the operation has written to the table and no entry names.
InHands(a) ==
    {c \in CASE op[a] \in {"w_alloc", "w_mark"} -> Reach(reg[a].first)
              [] op[a] = "d_free" -> Reach(reg[a].cur)
              [] op[a] = "m_entry" -> {reg[a].cur}
              [] OTHER -> {}
       : fat[c] # Free}

GivesUp(a) == orphans' = orphans \cup InHands(a)

-----------------------------------------------------------------------------
(* fat32_write_file *)

\* An old file of that name is deleted first, by a call that takes the lock itself.
WriteFinds(a) ==
    /\ Locks(a, "w_lock")
    /\ IF Exists(reg[a].name)
       THEN /\ Goes(a, "d_lock")
            /\ Sets(a, [reg[a] EXCEPT !.over = TRUE])
            /\ UNCHANGED fat32_lock
       ELSE /\ Keeps(a, "w_alloc")
            /\ UNCHANGED reg
    /\ UNCHANGED <<fat, root, torn, orphans>>

WriteRelocks(a) ==
    /\ Locks(a, "w_relock")
    /\ Keeps(a, "w_alloc")
    /\ UNCHANGED <<fat, root, reg, torn, orphans>>

\* Mutant: a full disk is left with the lock taken.
BadWriteAllocates(a) ==
    /\ At(a, "w_alloc") /\ reg[a].left > 0 /\ FreeCluster = 0
    /\ Goes(a, "idle") /\ Sets(a, Blank) /\ GivesUp(a)
    /\ UNCHANGED <<fat, root, fat32_lock, torn>>

\* The next cluster: it is linked to the one before it, and marked only after its data.
WriteAllocates(a) ==
    /\ At(a, "w_alloc") /\ reg[a].left > 0
    /\ LET c == FreeCluster
           r == reg[a]
       IN  IF c = 0
           THEN Returns(a) /\ GivesUp(a) /\ UNCHANGED fat
           ELSE /\ Sets(a, [r EXCEPT !.cur = c, !.first = IF @ = 0 THEN c ELSE @])
                /\ IF r.prev # 0 THEN SetEntry(r.prev, c) ELSE UNCHANGED fat
                /\ Goes(a, "w_mark")
                /\ UNCHANGED <<fat32_lock, orphans>>
    /\ UNCHANGED <<root, torn>>

WriteMarks(a) ==
    /\ At(a, "w_mark")
    /\ LET r == reg[a]
       IN  \/ /\ SetEntry(r.cur, EOC)
              /\ Sets(a, [r EXCEPT !.prev = r.cur,
                                   !.left = IF @ > ClusterSize THEN @ - ClusterSize ELSE 0])
              /\ Goes(a, "w_alloc")
              /\ UNCHANGED <<fat32_lock, orphans>>
           \/ Returns(a) /\ GivesUp(a) /\ UNCHANGED fat   \* kmalloc fails
    /\ UNCHANGED <<root, torn>>

WriteEnters(a) ==
    /\ At(a, "w_alloc") /\ reg[a].left = 0
    /\ Returns(a)
    /\ LET r == reg[a]
       IN  IF Exists(NoFile)
           THEN /\ root' = [root EXCEPT ![First(SlotsOf(NoFile))] =
                              [name |-> r.name, dir |-> FALSE, first |-> r.first, size |-> r.len]]
                /\ UNCHANGED orphans
           ELSE GivesUp(a) /\ UNCHANGED root
    /\ UNCHANGED <<fat, torn>>

-----------------------------------------------------------------------------
(* fat32_delete_file: the entry first, then its clusters one by one *)

DeleteReturns(a) ==
    IF reg[a].over
    THEN /\ fat32_lock' = FALSE
         /\ Goes(a, "w_relock")
         /\ Sets(a, [reg[a] EXCEPT !.over = FALSE, !.cur = 0])
    ELSE Returns(a)

\* Mutant: the clusters are freed under an entry that stays.
BadDeleteFinds(a) ==
    /\ Locks(a, "d_lock")
    /\ IF Exists(reg[a].name)
       THEN Sets(a, [reg[a] EXCEPT !.cur = Entry(reg[a].name).first]) /\ Keeps(a, "d_free")
       ELSE DeleteReturns(a)
    /\ UNCHANGED <<fat, root, torn, orphans>>

DeleteFinds(a) ==
    /\ Locks(a, "d_lock")
    /\ IF Exists(reg[a].name)
       THEN /\ root' = [root EXCEPT ![First(SlotsOf(reg[a].name))] = Absent]
            /\ Sets(a, [reg[a] EXCEPT !.cur = Entry(reg[a].name).first])
            /\ Keeps(a, "d_free")
       ELSE DeleteReturns(a) /\ UNCHANGED root
    /\ UNCHANGED <<fat, torn, orphans>>

\* Mutant: only the first cluster is freed.
BadDeleteFrees(a) ==
    /\ At(a, "d_free")
    /\ IF reg[a].cur \in Data THEN SetEntry(reg[a].cur, Free) ELSE UNCHANGED fat
    /\ DeleteReturns(a)
    /\ UNCHANGED <<root, torn, orphans>>

DeleteFrees(a) ==
    /\ At(a, "d_free")
    /\ LET c == reg[a].cur
       IN  IF c \in Data
           THEN /\ SetEntry(c, Free)
                /\ Sets(a, [reg[a] EXCEPT !.cur = IF fat[c] = c THEN 0 ELSE fat[c]])
                /\ UNCHANGED <<fat32_lock, op>>
           ELSE DeleteReturns(a) /\ UNCHANGED fat
    /\ UNCHANGED <<root, torn, orphans>>

-----------------------------------------------------------------------------
(* fat32_append_file *)

\* An empty file has cluster 0, and cluster 0 is read and written as the root
\* directory; a directory is a file of size 0 whose first cluster is its table.
Tears(e) == e.size = 0

AppendFinds(a) ==
    /\ Locks(a, "a_lock")
    /\ \/ ~Exists(reg[a].name) /\ Returns(a) /\ UNCHANGED torn
       \/ Exists(reg[a].name) /\ Returns(a) /\ UNCHANGED torn            \* kmalloc fails
       \/ /\ Exists(reg[a].name)
          /\ LET e == Entry(reg[a].name)
                 pos == e.size % ClusterSize
                 space == IF pos # 0 \/ e.size = 0 THEN ClusterSize - pos ELSE 0
             IN  /\ Sets(a, [reg[a] EXCEPT !.prev = LastOf(e.first),
                                           !.first = First(SlotsOf(reg[a].name)),
                                           !.left = IF @ > space THEN @ - space ELSE 0])
                 /\ torn' = (torn \/ Tears(e))
          /\ Keeps(a, "a_link")
    /\ UNCHANGED <<fat, root, orphans>>

AppendLinks(a) ==
    /\ At(a, "a_link") /\ reg[a].left > 0
    /\ LET c == FreeCluster
       IN  IF c = 0
           THEN Returns(a) /\ UNCHANGED fat
           ELSE /\ SetEntry(reg[a].prev, c)
                /\ Sets(a, [reg[a] EXCEPT !.cur = c])
                /\ Goes(a, "a_mark")
                /\ UNCHANGED fat32_lock
    /\ UNCHANGED <<root, torn, orphans>>

AppendMarks(a) ==
    /\ At(a, "a_mark")
    /\ SetEntry(reg[a].cur, EOC)
    /\ Sets(a, [reg[a] EXCEPT !.prev = reg[a].cur,
                              !.left = IF @ > ClusterSize THEN @ - ClusterSize ELSE 0])
    /\ Goes(a, "a_link")
    /\ UNCHANGED <<root, fat32_lock, torn, orphans>>

\* The size is added to the entry that was found at first.
AppendEnters(a) ==
    /\ At(a, "a_link") /\ reg[a].left = 0
    /\ root' = [root EXCEPT ![reg[a].first].size = @ + reg[a].len]
    /\ Returns(a)
    /\ UNCHANGED <<fat, torn, orphans>>

-----------------------------------------------------------------------------
(* fat32_create_dir, fat32_rename *)

MkdirAllocates(a) ==
    /\ Locks(a, "m_lock")
    /\ LET c == FreeCluster
       IN  IF Exists(reg[a].name) \/ c = 0
           THEN Returns(a) /\ UNCHANGED fat
           ELSE /\ SetEntry(c, EOC)
                /\ Sets(a, [reg[a] EXCEPT !.cur = c])
                /\ Keeps(a, "m_entry")
    /\ UNCHANGED <<root, torn, orphans>>

MkdirEnters(a) ==
    /\ At(a, "m_entry")
    /\ Returns(a)
    /\ \/ /\ Exists(NoFile)
          /\ root' = [root EXCEPT ![First(SlotsOf(NoFile))] =
                        [name |-> reg[a].name, dir |-> TRUE, first |-> reg[a].cur, size |-> 0]]
          /\ UNCHANGED orphans
       \/ GivesUp(a) /\ UNCHANGED root   \* kmalloc fails, or no entry is free
    /\ UNCHANGED <<fat, torn>>

Renames(a) ==
    /\ Locks(a, "r_lock")
    /\ Returns(a)
    /\ LET r == reg[a]
       IN  IF Exists(r.name) /\ ~Exists(r.dest)
           THEN root' = [root EXCEPT ![First(SlotsOf(r.name))].name = r.dest]
           ELSE UNCHANGED root
    /\ UNCHANGED <<fat, torn, orphans>>

-----------------------------------------------------------------------------
(* fat32_read_file_at_offset, fat32_read_file_user, fat32_display_file and *)
(* fat32_copy_file: the search and the walk take no lock, only the copy of *)
(* each cluster's bytes does.                                              *)

ReadFinds(a) ==
    /\ At(a, "l_find")
    /\ \/ /\ Exists(reg[a].name) /\ Entry(reg[a].name).size > 0
          /\ LET e == Entry(reg[a].name)
             IN  Sets(a, [reg[a] EXCEPT !.cur = e.first, !.left = e.size,
                                        !.len = IF reg[a].dest = NoFile THEN 0 ELSE e.size])
          /\ Goes(a, "l_walk")
       \/ Goes(a, "idle") /\ Sets(a, Blank)   \* not there, empty, or kmalloc fails
    /\ UNCHANGED <<fat, root, fat32_lock, torn, orphans>>

ReadSteps(a) ==
    /\ Locks(a, "l_walk")
    /\ reg[a].cur \in Data /\ reg[a].left > 0
    /\ LET c == reg[a].cur
       IN  Sets(a, [reg[a] EXCEPT !.left = IF @ > ClusterSize THEN @ - ClusterSize ELSE 0,
                                  !.cur = IF fat[c] = c THEN 0 ELSE fat[c]])
    /\ UNCHANGED <<fat, root, fat32_lock, op, torn, orphans>>

\* A copy goes on to write as much as the entry said, whatever the walk met.
ReadEnds(a) ==
    /\ At(a, "l_walk")
    /\ reg[a].cur \notin Data \/ reg[a].left = 0
    /\ IF reg[a].dest = NoFile
       THEN Goes(a, "idle") /\ Sets(a, Blank)
       ELSE /\ Goes(a, "w_lock")
            /\ Sets(a, [Blank EXCEPT !.name = reg[a].dest, !.len = reg[a].len,
                                     !.left = reg[a].len])
    /\ UNCHANGED <<fat, root, fat32_lock, torn, orphans>>

\* cat looks the file up under the lock, gives it back and reads like everybody else.
CatFinds(a) ==
    /\ Locks(a, "t_lock")
    /\ \/ /\ Exists(reg[a].name) /\ Entry(reg[a].name).size > 0
          /\ Goes(a, "l_find")
          /\ UNCHANGED reg
       \/ Goes(a, "idle") /\ Sets(a, Blank)
    /\ UNCHANGED <<fat, root, fat32_lock, torn, orphans>>

-----------------------------------------------------------------------------
(* Calls *)

Starts(a, where, r) ==
    /\ At(a, "idle")
    /\ Goes(a, where)
    /\ Sets(a, r)
    /\ UNCHANGED <<fat, root, fat32_lock, torn, orphans>>

\* SYS_FATRM, SYS_MKDIR, SYS_FATCAT, SYS_FATCP and append, of the shell and of programs.
Command(a) ==
    \E n \in FileNames :
        \/ Starts(a, "d_lock", [Blank EXCEPT !.name = n])
        \/ Starts(a, "m_lock", [Blank EXCEPT !.name = n])
        \/ Starts(a, "t_lock", [Blank EXCEPT !.name = n])
        \/ \E k \in Lengths \ {0} :
             Starts(a, "a_lock", [Blank EXCEPT !.name = n, !.len = k, !.left = k])
        \/ \E d \in FileNames : Starts(a, "l_find", [Blank EXCEPT !.name = n, !.dest = d])

\* SYS_FATWRITE, SYS_FATRENAME and SYS_FATREAD, of programs only.
Call ==
    \E n \in FileNames :
        \/ \E k \in Lengths :
             Starts(Prog, "w_lock", [Blank EXCEPT !.name = n, !.len = k, !.left = k])
        \/ \E d \in FileNames : Starts(Prog, "r_lock", [Blank EXCEPT !.name = n, !.dest = d])
        \/ Starts(Prog, "l_find", [Blank EXCEPT !.name = n])

\* The power fails and the volume is mounted again: only the disk is left.
PowerLost ==
    /\ \E a \in Actors : op[a] # "idle"
    /\ torn' = (torn \/ \E a \in Actors : op[a] = "a_mark")
    /\ orphans' = orphans \cup UNION {InHands(a) : a \in Actors}
    /\ fat32_lock' = FALSE
    /\ op' = [a \in Actors |-> "idle"]
    /\ reg' = [a \in Actors |-> Blank]
    /\ UNCHANGED disk

Works(a) ==
    \/ WriteFinds(a) \/ WriteRelocks(a) \/ WriteAllocates(a) \/ WriteMarks(a) \/ WriteEnters(a)
    \/ DeleteFinds(a) \/ DeleteFrees(a)
    \/ AppendFinds(a) \/ AppendLinks(a) \/ AppendMarks(a) \/ AppendEnters(a)
    \/ MkdirAllocates(a) \/ MkdirEnters(a) \/ Renames(a)
    \/ ReadFinds(a) \/ ReadSteps(a) \/ ReadEnds(a) \/ CatFinds(a)

FatNext ==
    \/ \E a \in Actors : Works(a)
    \/ Command(Shell) \/ Command(Prog) \/ Call
    \/ PowerLost

FatSpec == FatInit /\ [][FatNext]_fatvars

-----------------------------------------------------------------------------
(* Properties *)

FatTypeOK ==
    /\ fat \in [0 .. LastCluster -> 0 .. EOC]
    /\ root \in [Slots -> [name : FileNames \cup {NoFile}, dir : BOOLEAN,
                           first : 0 .. LastCluster, size : Nat]]
    /\ fat32_lock \in BOOLEAN
    /\ torn \in BOOLEAN /\ orphans \subseteq Data

\* Every chain that an entry names is allocated to its end, long enough for the size the
\* entry tells, and shares no cluster with another: in every state, so also after a loss
\* of power anywhere, a full disk or a failed allocation (fat32_write_file,
\* fat32_append_file, fat32_delete_file, fat32_create_dir).  It is not claimed once an append
\* met an empty file or a directory, or was cut between its two writes of the table.
ChainsSound ==
    torn \/
    \A s \in Slots : root[s].name # NoFile =>
        LET c == root[s].first
            ended == {d \in Reach(c) : fat[d] = EOC \/ \E a \in Actors :
                                                  op[a] = "a_mark" /\ reg[a].cur = d}
        IN  /\ c # 0 => ended # {}
            /\ \A d \in Reach(c) \ ended : fat[d] \in Data
            /\ Cardinality(Reach(c)) * ClusterSize >= root[s].size
            /\ \A t \in Slots \ {s} :
                 root[t].name # NoFile => Reach(c) \cap Reach(root[t].first) = {}

\* Every allocated cluster is named by an entry, or is in the hands of the operation that
\* allocated or frees it, or was lost in one of the known ways: the power failed, the disk
\* or the directory was full, or memory was short.  No sequence of complete operations,
\* overwriting and renaming included, loses a cluster.
NothingLeaks ==
    torn \/ Unnamed \subseteq orphans \cup UNION {InHands(a) : a \in Actors}

\* Whatever an operation does, files it was not called for keep their entry and their
\* clusters, also when it is preempted between the two locks of an overwrite.
Concerns(n) == \E a \in Actors : op[a] # "idle" /\ n \in {reg[a].name, reg[a].dest}
FilesOf(n) == {<<root[s], Reach(root[s].first)>> : s \in SlotsOf(n)}
OthersUntouched ==
    [][\A n \in FileNames : torn' \/ Concerns(n) \/ FilesOf(n)' = FilesOf(n)]_fatvars

\* fat32_lock is taken exactly while somebody is between a spin_lock and its spin_unlock:
\* no early return keeps it, and no two are inside at once.
Inside(a) == op[a] \in {"w_alloc", "w_mark", "d_free", "a_link", "a_mark", "m_entry"}
FatLockExact ==
    /\ fat32_lock <=> \E a \in Actors : Inside(a)
    /\ \A a, b \in Actors : Inside(a) /\ Inside(b) => a = b
=============================================================================
