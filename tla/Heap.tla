-------------------------------- MODULE Heap --------------------------------
(***************************************************************************)
(* The two heaps: kmalloc.c of the kernel and malloc.c of a program.       *)
(* Both keep their blocks, free or not, in one doubly linked list, take    *)
(* the first that fits, split what is left and join what is given back.    *)
(* trava_adquirir keeps interrupts off, and a program is one thread, so an *)
(* operation is a step.  Sizes and addresses are in units of 16 bytes.     *)
(***************************************************************************)
EXTENDS Integers

CONSTANTS
    Header,      \* the header of a block
    Chunk,       \* what heap_init asks for, and the multiple malloc asks sbrk for
    KernelLimit, \* ENDERECO_MAX
    BreakLimit,  \* where sbrk begins to fail
    Requests     \* the sizes asked for, as rounded by both allocators

ASSUME HeapAssumption ==
    /\ Header \in Nat \ {0} /\ Chunk \in Nat /\ Chunk > Header
    /\ KernelLimit \in Nat /\ BreakLimit \in Nat
    /\ Requests \subseteq Nat \ {0}

Nil == 0 - 1                       \* NULL; the first block is at 0
KernelSplit == 1                   \* a block is cut if this much is left: 16 bytes in kmalloc,
UserSplit == 2                     \* MIN_SPLIT bytes in malloc

\* A heap: its blocks by address, the first and the last of the list, and where the next
\* block of new memory goes (heap_atual, the program break).
VARIABLES
    kernel, user,
    kernel_out, user_out   \* what callers hold: the size asked for, by address of the block

heapvars == <<kernel, user, kernel_out, user_out>>

Block(n, f, nx, pv) == [size |-> n, free |-> f, next |-> nx, prev |-> pv]
EmptyHeap == [block |-> << >>, first |-> Nil, last |-> Nil, top |-> 0]

\* heap_init: one free block over the first page.
HeapInit ==
    /\ kernel = [block |-> [b \in {0} |-> Block(Chunk - Header, TRUE, Nil, Nil)],
                 first |-> 0, last |-> 0, top |-> Chunk]
    /\ user = EmptyHeap
    /\ kernel_out = << >>
    /\ user_out = << >>

-----------------------------------------------------------------------------
(* The list *)

Addresses(h) == DOMAIN h.block
With(f, a, v) == [x \in DOMAIN f \cup {a} |-> IF x = a THEN v ELSE f[x]]
Without(f, a) == [x \in DOMAIN f \ {a} |-> f[x]]

\* The block at b gets a new successor, and the list its new last block.
Link(h, b, nx) ==
    LET m == [h.block EXCEPT ![b].next = nx]
    IN  [block |-> IF nx = Nil THEN m ELSE [m EXCEPT ![nx].prev = b],
         first |-> h.first, last |-> IF nx = Nil THEN b ELSE h.last, top |-> h.top]

\* split_block: what is left of b over n becomes a free block behind it.
Split(h, b, n, min) ==
    LET rest == b + Header + n
        left == h.block[b].size - n - Header
        halved == [h EXCEPT !.block = With([@ EXCEPT ![b].size = n], rest,
                                           Block(left, TRUE, Nil, b))]
    IN  IF h.block[b].size < n + Header + min THEN h
        ELSE Link(Link(halved, rest, h.block[b].next), b, rest)

\* Mutant: the header of the successor is not counted.
BadJoinNext(h, b) ==
    LET nx == h.block[b].next
        m  == [h EXCEPT !.block[b].size = @ + h.block[nx].size]
        j  == Link(m, b, h.block[nx].next)
    IN  [j EXCEPT !.block = Without(@, nx)]

\* b takes in its successor.
JoinNext(h, b) ==
    LET nx == h.block[b].next
        m  == [h EXCEPT !.block[b].size = @ + Header + h.block[nx].size]
        j  == Link(m, b, h.block[nx].next)
    IN  [j EXCEPT !.block = Without(@, nx)]

IsFree(h, b) == b # Nil /\ h.block[b].free
EndOf(h, b)  == b + Header + h.block[b].size

\* kfree joins neighbours in the list that touch; coalesce takes for granted that they do.
Free(h, b, checks) ==
    LET f  == [h EXCEPT !.block[b].free = TRUE]
        nx == f.block[b].next
        g  == IF IsFree(f, nx) /\ (checks => EndOf(f, b) = nx) THEN JoinNext(f, b) ELSE f
        pv == g.block[b].prev
    IN  IF IsFree(g, pv) /\ (checks => EndOf(g, pv) = b) THEN JoinNext(g, pv) ELSE g

\* The first free block, in list order, that is large enough: the walk from the first block
\* passes only blocks that do not fit before it comes to this one.
Fits(h, n) == {b \in Addresses(h) : h.block[b].free /\ h.block[b].size >= n}
ComesTo(h, F, b) ==
    \E passed \in SUBSET (Addresses(h) \ F) :
        {h.first} \cup {h.block[x].next : x \in passed} \subseteq passed \cup {b}
FirstFit(h, n) ==
    LET F == Fits(h, n)
    IN  IF F = {} THEN Nil ELSE CHOOSE b \in F : ComesTo(h, F, b)

Take(h, b, n, min) == [Split(h, b, n, min) EXCEPT !.block[b].free = FALSE]

\* New memory of size n behind the last block; it becomes one block in use.
Grow(h, n) ==
    LET b == h.top
        m == [block |-> With(h.block, b, Block(n - Header, FALSE, Nil, h.last)),
              first |-> IF h.first = Nil THEN b ELSE h.first,
              last  |-> h.last, top |-> h.top + n]
    IN  IF h.last = Nil THEN [m EXCEPT !.last = b] ELSE Link(Link(m, h.last, b), b, Nil)

-----------------------------------------------------------------------------
(* kmalloc.c *)

KmallocFits(n) ==
    /\ FirstFit(kernel, n) # Nil
    /\ kernel' = Take(kernel, FirstFit(kernel, n), n, KernelSplit)
    /\ kernel_out' = With(kernel_out, FirstFit(kernel, n), n)
    /\ UNCHANGED <<user, user_out>>

\* expandir_heap refuses past the limit, and may find no frame.
KmallocGrows(n) ==
    /\ FirstFit(kernel, n) = Nil
    /\ kernel.top + Header + n < KernelLimit
    /\ kernel' = Grow(kernel, Header + n)
    /\ kernel_out' = With(kernel_out, kernel.top, n)
    /\ UNCHANGED <<user, user_out>>

Kfree(b) ==
    /\ kernel' = Free(kernel, b, TRUE)
    /\ kernel_out' = Without(kernel_out, b)
    /\ UNCHANGED <<user, user_out>>

-----------------------------------------------------------------------------
(* malloc.c *)

Rounded(n) == ((n + Chunk - 1) \div Chunk) * Chunk

\* What malloc does to the heap, and the block it gives; Nil when sbrk refuses.
Malloc(h, n) ==
    LET b == FirstFit(h, n)
        more == Rounded(n + Header)
    IN  IF b # Nil THEN <<Take(h, b, n, UserSplit), b>>
        ELSE IF h.top + more > BreakLimit THEN <<h, Nil>>
        ELSE <<Split(Grow(h, more), h.top, n, UserSplit), h.top>>

UserMalloc(n) ==
    LET r == Malloc(user, n)
    IN  /\ r[2] # Nil
        /\ user' = r[1]
        /\ user_out' = With(user_out, r[2], n)
        /\ UNCHANGED <<kernel, kernel_out>>

UserFree(b) ==
    /\ user' = Free(user, b, FALSE)
    /\ user_out' = Without(user_out, b)
    /\ UNCHANGED <<kernel, kernel_out>>

\* realloc: cut in place, or take in a free successor, or move.
Realloc(b, n) ==
    /\ LET nx == user.block[b].next
       IN  \/ /\ user.block[b].size >= n
              /\ user' = Split(user, b, n, UserSplit)
              /\ user_out' = With(user_out, b, n)
           \/ /\ user.block[b].size < n
              /\ IsFree(user, nx) /\ user.block[b].size + Header + user.block[nx].size >= n
              /\ user' = Split(JoinNext(user, b), b, n, UserSplit)
              /\ user_out' = With(user_out, b, n)
           \/ /\ user.block[b].size < n
              /\ ~(IsFree(user, nx) /\ user.block[b].size + Header + user.block[nx].size >= n)
              /\ LET r == Malloc(user, n)
                 IN  /\ r[2] # Nil
                     /\ user' = Free(r[1], b, FALSE)
                     /\ user_out' = With(Without(user_out, b), r[2], n)
    /\ UNCHANGED <<kernel, kernel_out>>

KernelHeapNext ==
    \/ \E n \in Requests : KmallocFits(n) \/ KmallocGrows(n)
    \/ \E b \in DOMAIN kernel_out : Kfree(b)

UserHeapNext ==
    \/ \E n \in Requests : UserMalloc(n)
    \/ \E b \in DOMAIN user_out : UserFree(b) \/ \E n \in Requests : Realloc(b, n)

HeapNext == KernelHeapNext \/ UserHeapNext

HeapSpec == HeapInit /\ [][HeapNext]_heapvars

-----------------------------------------------------------------------------
(* Properties *)

\* The blocks of a heap cover it from its start to its top without a gap and without
\* overlapping, and the list goes through them in that order, both ways.
Tiled(h) ==
    /\ \A b \in Addresses(h) :
         LET x == h.block[b]
         IN  /\ x.size >= 0
             /\ x.next = IF EndOf(h, b) = h.top THEN Nil ELSE EndOf(h, b)
             /\ x.next # Nil => x.next \in Addresses(h) /\ h.block[x.next].prev = b
             /\ x.next = Nil => h.last = b
             /\ x.prev = Nil => b = 0 /\ h.first = b
             /\ x.prev # Nil => x.prev \in Addresses(h) /\ h.block[x.prev].next = b
    /\ h.top > 0 => 0 \in Addresses(h)

\* What callers hold is in use and as large as they asked; everything else is free.
InUse(h, out) ==
    /\ {b \in Addresses(h) : ~h.block[b].free} = DOMAIN out
    /\ \A b \in DOMAIN out : h.block[b].size >= out[b]

\* In the kernel heap no two free blocks touch: what is given back can be used whole (kfree).
\* A program's heap does not promise it: realloc cuts without joining.
KernelJoined ==
    \A b \in Addresses(kernel) :
        LET nx == kernel.block[b].next
        IN  ~(kernel.block[b].free /\ IsFree(kernel, nx))

\* Both heaps stay whole and give no memory to two callers, in whatever order blocks are
\* asked for, cut, moved and given back (kmalloc, kfree, malloc, free, realloc).
HeapSound ==
    /\ Tiled(kernel) /\ InUse(kernel, kernel_out)
    /\ Tiled(user) /\ InUse(user, user_out)
    /\ KernelJoined
=============================================================================
