------------------------------- MODULE Memory -------------------------------
(***************************************************************************)
(* Physical frames and address spaces: the bitmap of pmm.c, the tables of  *)
(* vmm.c, the loader of elf.c, SYS_SBRK, the growth of the kernel heap and *)
(* what exception_handler does with a fault of a program.                  *)
(*                                                                         *)
(* pmm_alloc_block reads the bitmap and marks it in two steps, between     *)
(* which a kernel thread may be preempted.  A system call or a fault of a  *)
(* program runs with interrupts off: nobody moves before it is over.       *)
(***************************************************************************)
EXTENDS Integers, Sequences, FiniteSets

CONSTANTS
    LastFrame,   \* frames 1 to LastFrame are handed out (8 MB and above)
    WordSize,    \* frames in a word of the bitmap (32)
    Programs,    \* the programs there may be at a time
    Kernel,      \* no program
    Loaders,     \* the kernel threads that load them: task_d, and at boot task_c
    HeapPages    \* how far the kernel heap may grow

ASSUME FrameAssumption ==
    /\ LastFrame \in Nat
    /\ WordSize \in Nat \ {0}
    /\ Kernel \notin Programs
    /\ Loaders \cap {"shell", "call", "task_b", "kmalloc"} = {}

Frames == 1 .. LastFrame
NoFrame == 0
Word(f) == f \div WordSize

\* What an address space is made of.  The image lies under the first entry of the PML4; the
\* stack has an entry of its own, and so has the heap of SYS_SBRK.  "pdpt" stands for the two
\* tables of the image's entry, "s_pt" and "h_pt" for the two that follow the others' first.
Core   == {"pml4", "pdpt"}
Tables == Core \cup {"pt", "s_pdpt", "s_pt", "h_pdpt", "h_pt"}
Pages  == {"image", "stack", "heap"}
Places == Tables \cup Pages

\* The tables a page needs, from the top.
TablesOf(place) ==
    CASE place = "image" -> <<"pt">>
      [] place = "stack" -> <<"s_pdpt", "s_pt">>
      [] place = "heap"  -> <<"h_pdpt", "h_pt">>
      [] OTHER -> << >>

\* The loaders load programs, the shell mounts volumes, and a program makes calls.
Hands == Loaders \cup {"shell", "call"}
Nobody == [place \in Places |-> NoFrame]

VARIABLES
    used,      \* the frames marked in the bitmap
    last_bit_index,
    space,     \* the frame of every place of every program
    life,      \* "none", "loading", "alive" or "zombie"
    task,      \* what each hand still has to fill, the program it is for, the frame
               \* it has for the page at the head, and the frame read but not yet marked
    kheap,     \* the frames the kernel heap took
    cr3,       \* "good", or "fault address"
    raced,     \* history: two allocations overlapped
    lost       \* history: frames given up without being freed

memvars == <<used, last_bit_index, space, life, task, kheap, cr3, raced, lost>>

Rest == [todo |-> << >>, prog |-> Kernel, frame |-> NoFrame, seen |-> NoFrame, reading |-> FALSE]

MemInit ==
    /\ used = {}
    /\ last_bit_index = 0
    /\ space = [p \in Programs |-> Nobody]
    /\ life = [p \in Programs |-> "none"]
    /\ task = [h \in Hands |-> Rest]
    /\ kheap = {}
    /\ cr3 = "good"
    /\ raced = FALSE
    /\ lost = {}

-----------------------------------------------------------------------------
(* pmm.c *)

Idle(h)  == task[h].todo = << >>
Moves(h) == cr3 = "good" /\ (h = "call" \/ Idle("call"))

\* The words from last_bit_index on and around; in a word the lowest free bit.
Distance(f) == LET d == Word(f) - last_bit_index
               IN  IF d < 0 THEN d + Word(LastFrame) + 1 ELSE d
FreeFrames == Frames \ used
NextFit ==
    IF FreeFrames = {} THEN NoFrame
    ELSE CHOOSE f \in FreeFrames : \A g \in FreeFrames :
           Distance(f) < Distance(g) \/ (Distance(f) = Distance(g) /\ f <= g)

Overlaps(h) == \E g \in Hands \ {h} : task[g].reading

\* Mutant: the bit of the frame is not set.
BadMarks(h, f) ==
    /\ last_bit_index' = Word(f)
    /\ raced' = (raced \/ Overlaps(h))
    /\ UNCHANGED used

Marks(h, f) ==
    /\ used' = used \cup {f}
    /\ last_bit_index' = Word(f)
    /\ raced' = (raced \/ Overlaps(h))

\* pmm_free_block of each of a set of frames.
Unmarks(h, S) ==
    /\ used' = used \ S
    /\ last_bit_index' = LET w == {Word(f) : f \in S} \cup {last_bit_index}
                         IN  CHOOSE i \in w : \A j \in w : i <= j
    /\ raced' = (raced \/ (S # {} /\ Overlaps(h)))

KeepsBitmap == UNCHANGED <<used, last_bit_index, raced>>

-----------------------------------------------------------------------------
(* Filling places: what the loader, SYS_SBRK and fat32_mount have in common *)

\* The first table a page still misses once it has its frame, or the page itself.
MissingOf(page, frame, places) ==
    LET t == TablesOf(page)
        gaps == {i \in 1 .. Len(t) : places[t[i]] = NoFrame}
    IN  IF frame = NoFrame \/ gaps = {} THEN page
        ELSE t[CHOOSE i \in gaps : \A j \in gaps : i <= j]

Missing(h) == MissingOf(Head(task[h].todo), task[h].frame, space[task[h].prog])

\* A page whose frame is there and whose tables are complete needs no more frames.
Complete(h) == task[h].frame # NoFrame /\ Missing(h) = Head(task[h].todo)

Asks(h) ==
    /\ Moves(h) /\ ~Idle(h) /\ ~task[h].reading
    /\ Head(task[h].todo) # "start" /\ ~Complete(h)
    /\ task' = [task EXCEPT ![h].seen = NextFit, ![h].reading = TRUE]
    /\ raced' = (raced \/ Overlaps(h))
    /\ UNCHANGED <<used, last_bit_index, space, life, kheap, cr3, lost>>

Answered(h) == Moves(h) /\ task[h].reading

\* get_next_table and vmm_map_user link a new table; the loader's own tables likewise.
GetsTable(h) ==
    /\ Answered(h) /\ task[h].seen # NoFrame /\ Missing(h) \in Tables
    /\ Marks(h, task[h].seen)
    /\ space' = [space EXCEPT ![task[h].prog][Missing(h)] = task[h].seen]
    /\ task' = [task EXCEPT ![h].seen = NoFrame, ![h].reading = FALSE,
                            ![h].todo = IF Head(@) \in Core THEN Tail(@) ELSE @]
    /\ UNCHANGED <<life, kheap, cr3, lost>>

GetsPage(h) ==
    /\ Answered(h) /\ task[h].seen # NoFrame /\ Missing(h) \in Pages \cup {"buffer"}
    /\ Marks(h, task[h].seen)
    /\ task' = [task EXCEPT ![h].frame = task[h].seen, ![h].seen = NoFrame, ![h].reading = FALSE]
    /\ UNCHANGED <<space, life, kheap, cr3, lost>>

\* vmm_map_page_to_pml4 and vmm_map_user write the entry of the page.
MapsPage(h) ==
    /\ Moves(h) /\ ~Idle(h) /\ ~task[h].reading
    /\ Head(task[h].todo) \in Pages /\ Complete(h)
    /\ space' = [space EXCEPT ![task[h].prog][Head(task[h].todo)] = task[h].frame]
    /\ task' = [task EXCEPT ![h] = IF h = "call" THEN Rest
                                   ELSE [task[h] EXCEPT !.todo = Tail(@), !.frame = NoFrame]]
    /\ KeepsBitmap
    /\ UNCHANGED <<life, kheap, cr3, lost>>

-----------------------------------------------------------------------------
(* elf.c *)

\* create_elf_process: its own tables, the pages of the segments, the pages of the stack,
\* and then create_process.
StartsLoad(h, p) ==
    /\ Moves(h) /\ h \in Loaders /\ Idle(h) /\ life[p] = "none"
    /\ life' = [life EXCEPT ![p] = "loading"]
    /\ task' = [task EXCEPT ![h] =
          [Rest EXCEPT !.todo = <<"pml4", "pdpt", "image", "stack", "start">>, !.prog = p]]
    /\ UNCHANGED <<used, last_bit_index, space, kheap, cr3, raced, lost>>

\* elf_unload_failed_pml4: the image with its tables, and the top table of the rest.
FreedByUnload == Core \cup {"pt", "image", "s_pdpt", "h_pdpt"}
FramesAt(p, S) == {space[p][x] : x \in S} \ {NoFrame}

Unloads(h, p, more) ==
    /\ Unmarks(h, FramesAt(p, FreedByUnload))
    /\ lost' = lost \cup FramesAt(p, Places \ FreedByUnload) \cup (more \ {NoFrame})
    /\ space' = [space EXCEPT ![p] = Nobody]
    /\ life' = [life EXCEPT ![p] = "none"]

\* No frame for a table of the program, or for a page of its image; or the file cannot be
\* read, is not an ELF file, or kmalloc fails: everything is unloaded.
LoadFails(h) ==
    /\ h \in Loaders /\ ~Idle(h)
    /\ \/ /\ Answered(h) /\ task[h].seen = NoFrame
          /\ Missing(h) \in Core \cup {"image"}
       \/ /\ Moves(h) /\ ~task[h].reading /\ task[h].frame = NoFrame
          /\ Head(task[h].todo) \in {"image", "start"}
    /\ Unloads(h, task[h].prog, {})
    /\ task' = [task EXCEPT ![h] = Rest]
    /\ UNCHANGED <<kheap, cr3>>

\* No frame for a page of the stack, or for a table below those: nobody tests
\* it, the page stays unmapped, its frame is forgotten and the load goes on.
PageDropped(h) ==
    /\ h \in Loaders
    /\ Answered(h) /\ task[h].seen = NoFrame
    /\ Missing(h) \notin Core \cup {"image"}
    /\ lost' = lost \cup ({task[h].frame} \ {NoFrame})
    /\ task' = [task EXCEPT ![h].todo = Tail(@), ![h].frame = NoFrame, ![h].reading = FALSE]
    /\ KeepsBitmap
    /\ UNCHANGED <<space, life, kheap, cr3>>

\* create_process answers -1 when it fails, and only 0 makes the caller unload.
LoadEnds(h) ==
    /\ Moves(h) /\ h \in Loaders /\ ~Idle(h)
    /\ Head(task[h].todo) = "start"
    /\ LET p == task[h].prog
       IN  \/ /\ life' = [life EXCEPT ![p] = "alive"]
              /\ UNCHANGED <<space, lost>>
           \/ /\ lost' = lost \cup FramesAt(p, Places)
              /\ space' = [space EXCEPT ![p] = Nobody]
              /\ life' = [life EXCEPT ![p] = "none"]
    /\ task' = [task EXCEPT ![h] = Rest]
    /\ KeepsBitmap
    /\ UNCHANGED <<kheap, cr3>>

\* SYS_EXIT, SYS_KILL; then process_cleanup_zombies, with interrupts off.
Dies(p) ==
    /\ Moves("call") /\ Idle("call") /\ life[p] = "alive"
    /\ life' = [life EXCEPT ![p] = "zombie"]
    /\ UNCHANGED <<used, last_bit_index, space, task, kheap, cr3, raced, lost>>

Reaped(p) ==
    /\ Moves("shell") /\ life[p] = "zombie"
    /\ Unloads("task_b", p, {})
    /\ UNCHANGED <<task, kheap, cr3>>

-----------------------------------------------------------------------------
(* The other users of frames *)

\* SYS_SBRK, one page further; a page that cannot be mapped is given back.
CallsSbrk(p) ==
    /\ Moves("call") /\ Idle("call") /\ life[p] = "alive" /\ space[p]["heap"] = NoFrame
    /\ task' = [task EXCEPT !["call"] = [Rest EXCEPT !.todo = <<"heap">>, !.prog = p]]
    /\ UNCHANGED <<used, last_bit_index, space, life, kheap, cr3, raced, lost>>

\* Mutant: the frame that could not be mapped is kept.
BadSbrkFails ==
    /\ Answered("call") /\ task["call"].seen = NoFrame
    /\ task' = [task EXCEPT !["call"] = Rest]
    /\ KeepsBitmap
    /\ UNCHANGED <<space, life, kheap, cr3, lost>>

SbrkFails ==
    /\ Answered("call") /\ task["call"].seen = NoFrame
    /\ Unmarks("call", {task["call"].frame} \ {NoFrame})
    /\ task' = [task EXCEPT !["call"] = Rest]
    /\ UNCHANGED <<space, life, kheap, cr3, lost>>

\* fat32_mount borrows a frame for a sector and gives it back on every path.
Borrows ==
    /\ Moves("shell") /\ Idle("shell")
    /\ task' = [task EXCEPT !["shell"] = [Rest EXCEPT !.todo = <<"buffer">>]]
    /\ UNCHANGED <<used, last_bit_index, space, life, kheap, cr3, raced, lost>>

GivesBack ==
    /\ Moves("shell") /\ ~Idle("shell")
    /\ \/ task["shell"].frame # NoFrame
       \/ task["shell"].reading /\ task["shell"].seen = NoFrame
    /\ Unmarks("shell", {task["shell"].frame} \ {NoFrame})
    /\ task' = [task EXCEPT !["shell"] = Rest]
    /\ UNCHANGED <<space, life, kheap, cr3, lost>>

\* expandir_heap, with interrupts off, on behalf of anybody.  Nothing is ever given back.
HeapGrows ==
    /\ Moves("shell") /\ Cardinality(kheap) < HeapPages /\ NextFit # NoFrame
    /\ kheap' = kheap \cup {NextFit}
    /\ Marks("kmalloc", NextFit)
    /\ UNCHANGED <<space, life, task, cr3, lost>>

\* exception_handler takes CR2, the fault address, for the address space of the program:
\* handle_page_fault finds no entry there, takes a frame for the page below the stack and
\* fails to map it, and then CR3 is loaded with the fault address.
StackFault(p) ==
    /\ Moves("call") /\ Idle("call") /\ life[p] = "alive"
    /\ IF NextFit = NoFrame THEN KeepsBitmap /\ UNCHANGED lost
       ELSE Marks("call", NextFit) /\ lost' = lost \cup {NextFit}
    /\ cr3' = "fault address"
    /\ UNCHANGED <<space, life, task, kheap>>

\* Any other exception of a program comes to the same end.
OtherFault(p) ==
    /\ Moves("call") /\ Idle("call") /\ life[p] = "alive"
    /\ cr3' = "fault address"
    /\ UNCHANGED <<used, last_bit_index, space, life, task, kheap, raced, lost>>

MemNext ==
    \/ \E h \in Hands : Asks(h) \/ GetsTable(h) \/ GetsPage(h) \/ MapsPage(h)
                        \/ LoadFails(h) \/ PageDropped(h) \/ LoadEnds(h)
    \/ \E p \in Programs : \/ \E h \in Loaders : StartsLoad(h, p)
                           \/ Dies(p) \/ Reaped(p) \/ CallsSbrk(p)
                           \/ StackFault(p) \/ OtherFault(p)
    \/ SbrkFails \/ Borrows \/ GivesBack \/ HeapGrows

MemSpec == MemInit /\ [][MemNext]_memvars

-----------------------------------------------------------------------------
(* Properties *)

MemTypeOK ==
    /\ used \subseteq Frames /\ kheap \subseteq Frames /\ lost \subseteq Frames
    /\ last_bit_index \in 0 .. Word(LastFrame)
    /\ space \in [Programs -> [Places -> Frames \cup {NoFrame}]]
    /\ life \in [Programs -> {"none", "loading", "alive", "zombie"}]
    /\ cr3 \in {"good", "fault address"} /\ raced \in BOOLEAN

\* The frames somebody relies on, by who holds them.
Held(p) == FramesAt(p, Places)
InHand  == {task[h].frame : h \in Hands} \ {NoFrame}
AllHeld == (UNION {Held(p) : p \in Programs}) \cup InHand \cup kheap

\* A frame has one holder: no two places, programs, calls or the heap share it, and what is
\* held is marked, so pmm_alloc_block cannot hand it out again; and nothing leaks but what
\* the code is known to forget: the stack and heap of a program that ends, a page that could
\* not be mapped, a program create_process refused (pmm_alloc_block, pmm_free_block,
\* elf_unload_failed_pml4).  Not claimed once a preempted allocation was overtaken.
FramesSound ==
    raced \/
    /\ AllHeld \subseteq used /\ used \subseteq AllHeld \cup lost
    /\ \A p \in Programs : Cardinality(Held(p)) = Cardinality({x \in Places : space[p][x] # NoFrame})
    /\ \A p, q \in Programs : p # q => Held(p) \cap Held(q) = {}
    /\ \A g, h \in Hands : g # h /\ task[g].frame # NoFrame => task[g].frame # task[h].frame
    /\ \A p \in Programs : Held(p) \cap (InHand \cup kheap) = {}
    /\ InHand \cap kheap = {}
=============================================================================
