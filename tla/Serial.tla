------------------------------- MODULE Serial -------------------------------
(***************************************************************************)
(* The serial ports: the UARTs and their two interrupt lines, the driver   *)
(* (hw/serial.c, hw/pic.c), the system calls that open, read and close a   *)
(* port, and the TOSSerial objects of programs.  A system call runs with   *)
(* interrupts off, but a change of speed is two of them.                   *)
(***************************************************************************)
EXTENDS Integers, FiniteSets, Ring

CONSTANTS
    Ports,      \* COM1 to COM4, by number
    FifoDepth,  \* how many bytes the UART keeps (16)
    Apps        \* programs with a TOSSerial object

ASSUME SerialAssumption ==
    /\ Ports \subseteq 1 .. 4 /\ 1 \in Ports
    /\ FifoDepth \in Nat \ {0}

Line(p) == IF p \in {1, 3} THEN 4 ELSE 3
Gates == {4}                       \* the lines set_idt_gate has a handler for
Bytes(p) == IF p = 1 THEN {1, 2} ELSE {1}   \* what the other ports hear is never read
NoHandle == 0 - 1                  \* Handle = -1, and what a failed open leaves

VARIABLES
    port,      \* system_serial_ports and the registers of each UART
    unmasked,  \* the lines the PIC lets through
    request,   \* the lines with a request pending
    object,    \* the TOSSerial object of each program
    machine,   \* "runs", or "lost" in an interrupt that never ends or has no gate
    said,      \* history: what each port heard since it was opened and nobody read yet
    orphaned,  \* history: ports whose program ended without closing them
    cut        \* history: open ports whose line the close of another port masked

serialvars == <<port, unmasked, request, object, machine, said, orphaned, cut>>

NewObject(p) == [port |-> p, active |-> FALSE, handle |-> NoHandle, reopening |-> FALSE]

\* init_idt lets line 4 through from the start.
SerialInit ==
    /\ port = [p \in Ports |-> [in_use |-> FALSE, known |-> FALSE, ier |-> FALSE,
                                fifo |-> << >>, rx |-> EmptyRing]]
    /\ unmasked = {4}
    /\ request = {}
    /\ object \in [Apps -> {NewObject(p) : p \in Ports}]
    /\ machine = "runs"
    /\ said = [p \in Ports |-> << >>]
    /\ orphaned = {}
    /\ cut = {}

-----------------------------------------------------------------------------
(* Hardware and interrupts *)

\* The line is edge triggered: a byte behind another one makes no new request, nor may one
\* that arrives while another port holds the line.
ByteArrives(p, c) ==
    /\ machine = "runs" /\ Len(port[p].fifo) < FifoDepth
    /\ port' = [port EXCEPT ![p].fifo = Append(@, c)]
    /\ LET held == \E q \in Ports \ {p} : Line(q) = Line(p) /\ port[q].ier /\ port[q].fifo # << >>
       IN  \/ request' = IF port[p].ier /\ port[p].fifo = << >> THEN request \cup {Line(p)}
                                                                ELSE request
           \/ held /\ UNCHANGED request
    /\ UNCHANGED <<unmasked, object, machine, said, orphaned, cut>>

\* driver_serial_handle_interrupt empties the UART into the ring, open or not: what comes
\* first has the room that is left.
Drained(r, bytes) ==
    LET room   == RingSize - 1 - RingCount(r)
        n      == IF Len(bytes) < room THEN Len(bytes) ELSE room
        nth(i) == (i + RingSize - r.head) % RingSize
    IN  [r EXCEPT !.cell = [i \in 0 .. RingSize - 1 |->
                              IF nth(i) < n THEN bytes[nth(i) + 1] ELSE r.cell[i]],
                  !.head = (@ + n) % RingSize]

Heard(s, bytes) == SubSeq(s \o bytes, 1, IF Len(s \o bytes) < RingSize - 1
                                         THEN Len(s \o bytes) ELSE RingSize - 1)

\* serial_irq_handler asks COM1 whoever interrupted.  Before COM1 is first opened its
\* base is 0, and the loop reads a register of another device: it ends or it does not.
Interrupt(l) ==
    /\ machine = "runs" /\ l \in request \cap unmasked
    /\ request' = request \ {l}
    /\ IF l \notin Gates
       THEN machine' = "lost" /\ UNCHANGED <<port, said>>
       ELSE IF port[1].known
       THEN /\ port' = [port EXCEPT ![1].rx = Drained(@, port[1].fifo), ![1].fifo = << >>]
            /\ said' = [said EXCEPT ![1] = Heard(@, port[1].fifo)]
            /\ UNCHANGED machine
       ELSE machine' \in {"runs", "lost"} /\ UNCHANGED <<port, said>>
    /\ UNCHANGED <<unmasked, object, orphaned, cut>>

-----------------------------------------------------------------------------
(* SYS_SERIAL_OPEN and SYS_SERIAL_CLOSE *)

\* driver_serial_init sets the registers and empties both buffers.
OpenPort(p) ==
    /\ port' = [port EXCEPT ![p] = [in_use |-> TRUE, known |-> TRUE, ier |-> TRUE,
                                    fifo |-> << >>, rx |-> EmptyRing]]
    /\ unmasked' = unmasked \cup {Line(p)}
    /\ said' = [said EXCEPT ![p] = << >>]
    /\ cut' = {q \in cut : Line(q) # Line(p)}

ClosePort(p) ==
    /\ port' = [port EXCEPT ![p].in_use = FALSE, ![p].ier = FALSE,
                            ![p].rx = EmptyRing]
    /\ unmasked' = unmasked \ {Line(p)}
    /\ said' = [said EXCEPT ![p] = << >>]
    /\ cut' = (cut \ {p}) \cup {q \in Ports \ {p} : Line(q) = Line(p) /\ port[q].in_use}

KeepPorts == UNCHANGED <<port, unmasked, said, cut>>

-----------------------------------------------------------------------------
(* TOSSerial *)

Speaks(a) == machine = "runs" /\ ~object[a].reopening

\* Mutant: nobody asks whether the port is in use.
BadTriesOpen(a, o) ==
    OpenPort(o.port) /\ object' = [object EXCEPT ![a] = [o EXCEPT !.handle = o.port, !.active = TRUE]]

TriesOpen(a, o) ==
    LET p == o.port
    IN  IF port[p].in_use
        THEN KeepPorts /\ object' = [object EXCEPT ![a] = [o EXCEPT !.handle = 0 - 2]]
        ELSE OpenPort(p) /\ object' = [object EXCEPT ![a] = [o EXCEPT !.handle = p, !.active = TRUE]]

SerialOpen(a) ==
    /\ Speaks(a) /\ ~object[a].active
    /\ TriesOpen(a, object[a])
    /\ UNCHANGED <<request, machine, orphaned>>

SerialClose(a) ==
    /\ Speaks(a) /\ object[a].active /\ object[a].handle > 0
    /\ ClosePort(object[a].handle)
    /\ object' = [object EXCEPT ![a].active = FALSE, ![a].handle = NoHandle]
    /\ UNCHANGED <<request, machine, orphaned>>

\* OS_Serial_SetBaud closes and opens again; Active stays as it was, whatever open answers.
SetBaudCloses(a) ==
    /\ Speaks(a) /\ object[a].active /\ object[a].handle > 0
    /\ ClosePort(object[a].handle)
    /\ object' = [object EXCEPT ![a].reopening = TRUE]
    /\ UNCHANGED <<request, machine, orphaned>>

SetBaudOpens(a) ==
    /\ machine = "runs" /\ object[a].reopening
    /\ TriesOpen(a, [object[a] EXCEPT !.reopening = FALSE])
    /\ UNCHANGED <<request, machine, orphaned>>

SerialRead(a) ==
    /\ Speaks(a) /\ object[a].active /\ object[a].handle > 0
    /\ LET p == object[a].handle
       IN  /\ port[p].in_use /\ ~RingIsEmpty(port[p].rx)
           /\ port' = [port EXCEPT ![p].rx = RingPop(@)]
           /\ said' = [said EXCEPT ![p] = Tail(@)]
    /\ UNCHANGED <<unmasked, request, object, machine, orphaned, cut>>

\* A program is killed, which calls no OS_Serial_Close, and is started again: kill_process
\* knows of no port.
ProgramEnds(a) ==
    /\ machine = "runs"
    /\ orphaned' = orphaned \cup
         {p \in Ports : object[a].active /\ ~object[a].reopening /\ object[a].handle = p}
    /\ \E p \in Ports : object' = [object EXCEPT ![a] = NewObject(p)]
    /\ KeepPorts
    /\ UNCHANGED <<request, machine>>

SerialNext ==
    \/ \E p \in Ports : \E c \in Bytes(p) : ByteArrives(p, c)
    \/ \E l \in {3, 4} : Interrupt(l)
    \/ \E a \in Apps : \/ SerialOpen(a) \/ SerialClose(a) \/ SerialRead(a)
                       \/ SetBaudCloses(a) \/ SetBaudOpens(a) \/ ProgramEnds(a)

SerialSpec == SerialInit /\ [][SerialNext]_serialvars

-----------------------------------------------------------------------------
(* Properties *)

SerialTypeOK ==
    /\ unmasked \subseteq {3, 4} /\ request \subseteq {3, 4}
    /\ machine \in {"runs", "lost"}
    /\ orphaned \subseteq Ports /\ cut \subseteq Ports
    /\ \A p \in Ports : {port[p].rx.head, port[p].rx.tail} \subseteq 0 .. RingSize - 1

\* A port in use is held by exactly one live object, or was left behind by a program that
\* ended; no object believes it holds a port another one has, also when a change of speed
\* lets another program in between its two calls (SYS_SERIAL_OPEN, OS_Serial_SetBaud).
Holders(p) == {a \in Apps : object[a].active /\ object[a].handle = p /\ ~object[a].reopening}
PortsOwned ==
    \A p \in Ports :
        Cardinality(Holders(p)) + (IF p \in orphaned THEN 1 ELSE 0) =
            IF port[p].in_use THEN 1 ELSE 0

\* An open port interrupts when it hears something, unless the close of the port it shares
\* the line with masked the line after it was opened (pic_mask, pic_unmask).
HearsUnlessCut ==
    \A p \in Ports : port[p].in_use => port[p].ier /\ (Line(p) \in unmasked \/ p \in cut)

\* A reader gets what the port heard since it was opened, in order and without gaps, but
\* for what came when the ring was full.
SerialInOrder == \A p \in Ports : RingSeq(port[p].rx) = said[p]

\* All three: a port has one owner, who hears it, in order (drivers/serial.c, TOSSerial.c).
SerialTrue == PortsOwned /\ HearsUnlessCut /\ SerialInOrder
=============================================================================
