-------------------------------- MODULE Ehci --------------------------------
(***************************************************************************)
(* The USB pendrive: pd/ehci_core.c and pd/ehci_storage.c, how             *)
(* fat32_mudar_disco_ativo and SYS_EHCI wake them, and the reads of        *)
(* storage.c.  A command is three bulk transfers (CBW, data, CSW), each    *)
(* linked into the controller's ring, polled and unlinked.  The data       *)
(* toggles are kept by hand, one pair for the whole kernel.                *)
(*                                                                         *)
(* The controller and the pendrive are external: packets, one per step.    *)
(***************************************************************************)
EXTENDS Naturals, Sequences, FiniteSets

CONSTANTS
    Threads,    \* kernel threads that use the disk: the shell, the loaders
    Blocks,     \* sectors somebody reads
    Counts,     \* how many sectors one call reads
    MaxCount,   \* what fits into 3500 bytes
    Tries       \* of read capacity per pair of endpoints

ASSUME UsbAssumption == Counts \subseteq Nat \ {0} /\ MaxCount \in Nat /\ Tries \in Nat \ {0}

App == "program"
Users == Threads \cup {App}
Pairs == <<<<1, 1>>, <<2, 1>>, <<1, 2>>>>     \* ep_pairs: OUT and IN endpoint
Capacity == "capacity"
NoTransfer == [at |-> "idle", job |-> "none", waking |-> FALSE, tries |-> 0, step |-> "none",
               block |-> "none", n |-> 0, data |-> "none", bit |-> 0, taken |-> 0]

VARIABLES
    host,     \* the driver's globals
    pen,      \* the pendrive
    ring,     \* horizontal_link of the head and of each caller's queue head
    usbcall,  \* what each caller is doing
    upset,    \* history: a transfer or an identification failed, or was too long
    mixed,    \* history: two calls were under way at once
    crossed,  \* history: two of them were kernel threads
    lied      \* history: a read that returned 1 did not bring its sectors

usbvars == <<host, pen, ring, usbcall, upset, mixed, crossed, lied>>

UsbInit ==
    /\ host = [engine |-> FALSE, list |-> FALSE, lazy |-> FALSE, woken |-> FALSE,
               pair |-> 2, out |-> 0, in |-> 0]
    /\ pen \in [addr : {0}, set : {FALSE}, ends : {Pairs[i] : i \in 1 .. 3}, out : {0}, in : {0},
                queue : {<< >>}, block : {"none"}]
    /\ ring = [q \in Users \cup {"head"} |-> "head"]
    /\ usbcall = [c \in Users |-> NoTransfer]
    /\ upset = FALSE /\ mixed = FALSE /\ crossed = FALSE /\ lied = FALSE

UsbAt(c, where) ==
    /\ c = App \/ usbcall[App].at = "idle"    \* a system call runs with interrupts off
    /\ usbcall[c].at = where
UsbGoes(c, r) == usbcall' = [usbcall EXCEPT ![c] = r]
Ends(c) == UsbGoes(c, NoTransfer)

-----------------------------------------------------------------------------
(* The bulk transfer: ehci_enviar_bulk *)

OnRing(c) == \E k \in 0 .. Cardinality(Users) :
    LET from[i \in 0 .. k] == IF i = 0 THEN ring["head"] ELSE ring[from[i-1]]
    IN  from[k] = c /\ \A i \in 0 .. k : from[i] # "head"

\* ehci_bot_transfer goes on with the next transfer; the CBW of a command is its first.
Next3 == [cbw |-> "data", data |-> "csw"]
UsbCommand(r) == [r EXCEPT !.at = "insert", !.step = "cbw", !.data = "none", !.taken = 0]

Packets(r) == IF r.step = "data" /\ ~r.waking THEN r.n ELSE 1

\* Mutant: the toggle is not moved by the status.
BadOddPackets(r) == Packets(r) % 2 = 1 /\ r.step # "csw"

OddPackets(r) == Packets(r) % 2 = 1
Toggle(r) == IF r.step \in {"data", "csw"} THEN host.in ELSE host.out

\* What follows a transfer, or a whole command, that failed: the next try of
\* ehci_storage_init, the next pair with its toggles at 0, or the end of the call.
Fails(c) ==
    LET r == usbcall[c]
    IN  IF ~r.waking \/ r.step = "config" \/ (host.pair = 3 /\ r.tries = Tries)
        THEN Ends(c) /\ UNCHANGED host
        ELSE IF r.tries < Tries
        THEN UsbGoes(c, UsbCommand([r EXCEPT !.tries = @ + 1])) /\ UNCHANGED host
        ELSE /\ UsbGoes(c, UsbCommand([r EXCEPT !.tries = 1]))
             /\ host' = [host EXCEPT !.pair = @ + 1, !.out = 0, !.in = 0]

Inserts(c) ==
    /\ UsbAt(c, "insert")
    /\ LET r == usbcall[c]
       IN  IF ~host.list
           THEN Fails(c) /\ UNCHANGED <<ring, upset>>
           ELSE \/ /\ Packets(r) <= MaxCount
                   /\ ring' = [ring EXCEPT !["head"] = c, ![c] = ring["head"]]
                   /\ UsbGoes(c, [r EXCEPT !.at = "wait", !.bit = Toggle(r), !.taken = 0])
                   /\ UNCHANGED <<host, upset>>
                \/ upset' = TRUE /\ Fails(c) /\ UNCHANGED ring   \* too long, or no block
    /\ UNCHANGED <<pen, mixed, crossed, lied>>

Unlinks(c) == ring' = [ring EXCEPT !["head"] = ring[c]]
\* Mutant: the toggle is counted up.
BadFlip(b) == b + 1

Flip(b) == 1 - b

\* ehci_storage_init has found the pair; what comes after it depends on who called.
Wakes(c) ==
    LET r == [usbcall[c] EXCEPT !.waking = FALSE]
    IN  IF r.job = "read" THEN UsbGoes(c, UsbCommand(r)) ELSE Ends(c)

\* Success: the toggle moves by the packets that were asked for, whatever arrived.
Succeeds(c) ==
    LET r == usbcall[c]
        odd == OddPackets(r)
        done == [host EXCEPT !.out = IF odd /\ r.step = "cbw" THEN Flip(@) ELSE @,
                             !.in = IF odd /\ r.step \in {"data", "csw"} THEN Flip(@) ELSE @]
    IN  /\ UsbAt(c, "done")
        /\ Unlinks(c)
        /\ IF r.step = "config"
           THEN /\ UsbGoes(c, UsbCommand([r EXCEPT !.tries = 1]))
                /\ host' = [host EXCEPT !.pair = 1, !.out = 0, !.in = 0]
                /\ UNCHANGED lied
           ELSE IF r.step # "csw"
           THEN /\ UsbGoes(c, [r EXCEPT !.at = "insert", !.step = Next3[r.step]])
                /\ host' = done
                /\ UNCHANGED lied
           ELSE /\ host' = [done EXCEPT !.lazy = @ \/ (r.waking /\ r.job = "read")]
                /\ IF r.waking THEN Wakes(c) /\ UNCHANGED lied
                   ELSE Ends(c) /\ lied' = (lied \/ r.data # r.block)
        /\ UNCHANGED <<pen, upset, mixed, crossed>>

\* What came for a CSW is none: its signature is wrong, though the transfer succeeded.
Refuses(c) ==
    /\ UsbAt(c, "bad")
    /\ Unlinks(c)
    /\ Fails(c)
    /\ UNCHANGED <<pen, upset, mixed, crossed, lied>>

\* Halted, a transaction error, or the time is over.
TransferTimesOut(c) ==
    /\ UsbAt(c, "wait") \/ UsbAt(c, "done")
    /\ Unlinks(c)
    /\ upset' = TRUE
    /\ Fails(c)
    /\ UNCHANGED <<pen, mixed, crossed, lied>>

-----------------------------------------------------------------------------
(* The controller and the pendrive *)

Serves(c, where, r) ==
    /\ usbcall[c].at = where /\ host.engine /\ OnRing(c)
    /\ usbcall' = [usbcall EXCEPT ![c] = r]
    /\ UNCHANGED <<host, ring, upset, mixed, crossed, lied>>

\* SET_CONFIGURATION: toggles start over, and the command in progress is forgotten or not.
PenConfigures(c) ==
    /\ usbcall[c].step = "config" /\ pen.addr = 1
    /\ Serves(c, "wait", [usbcall[c] EXCEPT !.at = "done"])
    /\ \E q \in {<< >>, pen.queue} :
         pen' = [pen EXCEPT !.set = TRUE, !.out = 0, !.in = 0, !.queue = q]

Answer(r) == IF r.waking THEN <<Capacity, "csw">> ELSE [i \in 1 .. r.n |-> "data"] \o <<"csw">>
Reaches(c, end) == pen.set /\ pen.ends[end] = Pairs[host.pair][end]

\* A CBW whose toggle is not the expected one is acknowledged and dropped.
PenTakesCbw(c) ==
    /\ usbcall[c].step = "cbw" /\ Reaches(c, 1) /\ pen.queue = << >>
    /\ Serves(c, "wait", [usbcall[c] EXCEPT !.at = "done"])
    /\ pen' = IF usbcall[c].bit # pen.out THEN pen
              ELSE [pen EXCEPT !.out = Flip(@), !.queue = Answer(usbcall[c]),
                               !.block = IF usbcall[c].waking THEN Capacity ELSE usbcall[c].block]

\* A packet whose toggle is not the expected one is acknowledged and dropped by the
\* controller; a short one ends the transfer.
PenSends(c) ==
    LET r == usbcall[c]
        p == Head(pen.queue)
        fits == r.step = "data" \/ p # "data"
        ends == p # "data" \/ r.taken + 1 >= Packets(r)
        ok == IF r.step = "data" THEN TRUE ELSE p = "csw"
    IN  /\ r.step \in {"data", "csw"} /\ Reaches(c, 2) /\ pen.queue # << >> /\ fits
        /\ pen' = [pen EXCEPT !.in = Flip(@), !.queue = Tail(@)]
        /\ Serves(c, "wait",
             IF r.bit # pen.in THEN r
             ELSE [r EXCEPT !.bit = Flip(@), !.taken = @ + 1,
                            !.data = IF r.step = "csw" THEN @
                                     ELSE IF p = "csw" THEN "garbled" ELSE pen.block,
                            !.at = IF ~ends THEN "wait" ELSE IF ok THEN "done" ELSE "bad"])

-----------------------------------------------------------------------------
(* Calls *)

Alone(c) == \A b \in Users \ {c} : usbcall[b].at = "idle"
BeginsJob(c, r) ==
    /\ UsbAt(c, "idle")
    /\ UsbGoes(c, r)
    /\ mixed' = (mixed \/ ~Alone(c))
    /\ crossed' = (crossed \/ (c # App /\ ~Alone(c)))

Sleeps(job) == [NoTransfer EXCEPT !.job = job, !.waking = TRUE, !.at = "insert", !.step = "config"]

\* ehci_storage_read_sectors wakes the pendrive the first time; unit 2 has an address that
\* is given to nobody, and its reads are left out.
Reads(c) ==
    /\ \E b \in Blocks, k \in Counts :
         BeginsJob(c, LET r == [Sleeps("read") EXCEPT !.block = b, !.n = k]
                   IN  IF host.lazy THEN UsbCommand([r EXCEPT !.waking = FALSE]) ELSE r)
    /\ UNCHANGED <<host, pen, ring, upset, lied>>

\* SYS_EHCI, and SYS_SET_DRIVE for a unit that is not mounted: the controller is found and
\* reset, unless fat32_mudar_disco_ativo did it before.
Wants(c) ==
    /\ \E job \in {"ehci", "switch"} :
         BeginsJob(c, IF job = "switch" /\ host.woken THEN Sleeps(job)
                   ELSE [NoTransfer EXCEPT !.job = job, !.at = "core"])
    /\ UNCHANGED <<host, pen, ring, upset, lied>>

\* ehci_pci_init, ehci_core_init: HCRESET stops the schedule and resets the ports.
ResetsCore(c) ==
    /\ UsbAt(c, "core")
    /\ host' = [host EXCEPT !.engine = FALSE]
    /\ pen' = [pen EXCEPT !.addr = 0, !.set = FALSE, !.queue = << >>]
    /\ \/ UsbGoes(c, [usbcall[c] EXCEPT !.at = "list"])
       \/ Ends(c)
    /\ UNCHANGED <<ring, upset, mixed, crossed, lied>>

\* ehci_init_async_list: a new head, linked to itself.  ehci_detectar_dispositivos resets
\* the first port that has a device, before it for SYS_EHCI; without one the switch ends.
StartsList(c) ==
    /\ UsbAt(c, "list")
    /\ \/ /\ host' = [host EXCEPT !.engine = TRUE, !.list = TRUE]
          /\ ring' = [ring EXCEPT !["head"] = "head"]
          /\ UsbGoes(c, [usbcall[c] EXCEPT !.at = "ident"])
       \/ /\ host' = [host EXCEPT !.list = TRUE]                   \* the schedule does not start
          /\ ring' = [ring EXCEPT !["head"] = "head"]
          /\ Ends(c)
       \/ Ends(c) /\ UNCHANGED <<host, ring>>                      \* no block
    /\ UNCHANGED <<pen, upset, mixed, crossed, lied>>

\* ehci_ler_identificacao gives the pendrive address 1; nobody looks at its result, and
\* usb_hardware_inicializado is set.
Identifies(c) ==
    /\ UsbAt(c, "ident")
    /\ \/ pen' = [pen EXCEPT !.addr = 1] /\ UNCHANGED upset
       \/ upset' = TRUE /\ UNCHANGED pen
    /\ host' = [host EXCEPT !.woken = @ \/ usbcall[c].job = "switch"]
    /\ UsbGoes(c, Sleeps(usbcall[c].job))
    /\ UNCHANGED <<ring, mixed, crossed, lied>>

UsbNext ==
    \E c \in Users :
        \/ Reads(c) \/ Wants(c)
        \/ ResetsCore(c) \/ StartsList(c) \/ Identifies(c)
        \/ Inserts(c) \/ Succeeds(c) \/ Refuses(c) \/ TransferTimesOut(c)
        \/ PenConfigures(c) \/ PenTakesCbw(c) \/ PenSends(c)

UsbSpec == UsbInit /\ [][UsbNext]_usbvars

-----------------------------------------------------------------------------
(* Properties *)

UsbTypeOK ==
    /\ host \in [engine : BOOLEAN, list : BOOLEAN, lazy : BOOLEAN, woken : BOOLEAN,
                 pair : 1 .. 3, out : 0 .. 1, in : 0 .. 1]
    /\ ring \in [Users \cup {"head"} -> Users \cup {"head"}]
    /\ {upset, mixed, crossed, lied} \subseteq BOOLEAN

\* A read that returns 1 brings the sectors it asked for: whatever failed before it and
\* however out of step the toggles are, and also with a program's call in the middle of it,
\* unless both come together.  The signature of the CSW (ehci_bot_transfer) is what saves it.
UsbReadsTrue == crossed \/ (mixed /\ upset) \/ ~lied

\* As long as no transfer failed, none was too long and no two calls overlapped, driver and
\* pendrive agree: the toggles of both directions are the same between commands, and no answer
\* is left over (ehci_enviar_bulk flips by packets, ehci_storage_init starts over).
UsbInStep ==
    ~upset /\ ~mixed /\ pen.set /\ (\A c \in Users : usbcall[c].at = "idle")
    => /\ host.out = pen.out /\ host.in = pen.in
       /\ pen.queue = << >>
       /\ pen.ends = Pairs[host.pair]

\* Both: what is read is right, and stays in step (ehci_bot_transfer, ehci_enviar_bulk).
UsbTrue == UsbReadsTrue /\ UsbInStep
=============================================================================
