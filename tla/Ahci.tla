-------------------------------- MODULE Ahci --------------------------------
(***************************************************************************)
(* The SATA disk: storage.c, hw/ahci_hal.c and hw/ahci_cmd.c.  Every call  *)
(* uses slot 0 of port 0, its command table and one bounce buffer, and     *)
(* polls until the port clears the bit of the slot in CI.  The shell and   *)
(* the loader are kernel threads, preempted anywhere; the system call of a *)
(* program runs with interrupts off.                                       *)
(***************************************************************************)
EXTENDS Naturals, FiniteSets

CONSTANTS
    Sectors,
    Contents   \* what a sector may hold

ASSUME SectorsAssumption == "none" \notin Sectors

Callers == {"shell", "loader", "program"}
NoCommand == [write |-> FALSE, sector |-> "none"]
NoCall == [at |-> "idle", write |-> FALSE, sector |-> "none", data |-> "none"]

VARIABLES
    sector,   \* what is on the disk
    bounce,   \* the bounce buffer
    table,    \* the command in the table
    slot,     \* the command the port works on; CI is set while there is one
    stopped,  \* an error stopped the port, and nobody restarts it
    call,     \* what each caller is doing
    meant,    \* history: what each sector may hold, by what callers wrote
    wrong,    \* history: somebody was given what the sector does not hold
    shared,   \* history: two calls were under way at once
    overtime  \* history: a call gave up waiting

ahcivars == <<sector, bounce, table, slot, stopped, call, meant, wrong, shared, overtime>>

AhciInit ==
    /\ sector \in [Sectors -> Contents]
    /\ bounce \in Contents
    /\ table = NoCommand
    /\ slot = NoCommand
    /\ stopped = FALSE
    /\ call = [c \in Callers |-> NoCall]
    /\ meant = [s \in Sectors |-> {sector[s]}]
    /\ wrong = FALSE
    /\ shared = FALSE
    /\ overtime = FALSE

Doing(c, where) ==
    /\ c = "program" \/ call["program"].at = "idle"
    /\ call[c].at = where
Proceeds(c, where) == call' = [call EXCEPT ![c].at = where]

-----------------------------------------------------------------------------
(* ahci_hal_ler and ahci_hal_escrever *)

\* Mutant: a write does not copy the caller's sectors.
BadBeginsCall(c, w, s, d) ==
    /\ Doing(c, "idle")
    /\ call' = [call EXCEPT ![c] = [at |-> "prepare", write |-> w, sector |-> s, data |-> d]]
    /\ meant' = IF w THEN [meant EXCEPT ![s] = @ \cup {d}] ELSE meant
    /\ shared' = (shared \/ \E b \in Callers \ {c} : call[b].at # "idle")
    /\ UNCHANGED <<sector, bounce, table, slot, stopped, wrong, overtime>>

\* A write fills the bounce buffer first.
BeginsCall(c, w, s, d) ==
    /\ Doing(c, "idle")
    /\ call' = [call EXCEPT ![c] = [at |-> "prepare", write |-> w, sector |-> s, data |-> d]]
    /\ bounce' = IF w THEN d ELSE bounce
    /\ meant' = IF w THEN [meant EXCEPT ![s] = @ \cup {d}] ELSE meant
    /\ shared' = (shared \/ \E b \in Callers \ {c} : call[b].at # "idle")
    /\ UNCHANGED <<sector, table, slot, stopped, wrong, overtime>>

\* ahci_cmd_ler_setores and ahci_cmd_escrever_setores fill the table.
Prepares(c) ==
    /\ Doing(c, "prepare")
    /\ table' = [write |-> call[c].write, sector |-> call[c].sector]
    /\ Proceeds(c, "start")
    /\ UNCHANGED <<sector, bounce, slot, stopped, meant, wrong, shared, overtime>>

\* A bit of CI that is set already starts nothing.
StartsCommand(c) ==
    /\ Doing(c, "start")
    /\ slot' = IF slot = NoCommand THEN table ELSE slot
    /\ Proceeds(c, "poll")
    /\ UNCHANGED <<sector, bounce, table, stopped, meant, wrong, shared, overtime>>

LeavesCall(c, ok) ==
    LET r == call[c]
    IN  /\ call' = [call EXCEPT ![c] = NoCall]
        /\ meant' = IF r.write /\ ok THEN [meant EXCEPT ![r.sector] = {r.data}] ELSE meant
        /\ wrong' = (wrong \/ (ok /\ ~r.write /\ bounce # sector[r.sector]))

\* The bit is clear: a write is done, a read copies the bounce buffer.
SeesDone(c) ==
    /\ Doing(c, "poll") /\ slot = NoCommand
    /\ IF call[c].write THEN LeavesCall(c, TRUE)
                        ELSE Proceeds(c, "copy") /\ UNCHANGED <<meant, wrong>>
    /\ UNCHANGED <<sector, bounce, table, slot, stopped, shared, overtime>>

\* The bit is clear at the last look: the counter is 0 and the work done is called a failure.
SeesDoneLast(c) ==
    /\ Doing(c, "poll") /\ slot = NoCommand
    /\ LeavesCall(c, FALSE)
    /\ UNCHANGED <<sector, bounce, table, slot, stopped, shared, overtime>>

Copies(c) ==
    /\ Doing(c, "copy")
    /\ LeavesCall(c, TRUE)
    /\ UNCHANGED <<sector, bounce, table, slot, stopped, shared, overtime>>

SeesError(c) ==
    /\ Doing(c, "poll") /\ slot # NoCommand /\ stopped
    /\ LeavesCall(c, FALSE)
    /\ UNCHANGED <<sector, bounce, table, slot, stopped, shared, overtime>>

\* The counter is tested after it went below 0, and a timeout is taken for success.
TimesOut(c) ==
    /\ Doing(c, "poll") /\ slot # NoCommand /\ ~stopped
    /\ overtime' = TRUE
    /\ IF call[c].write THEN LeavesCall(c, TRUE)
                        ELSE Proceeds(c, "copy") /\ UNCHANGED <<meant, wrong>>
    /\ UNCHANGED <<sector, bounce, table, slot, stopped, shared>>

-----------------------------------------------------------------------------
(* The port *)

PortWorks ==
    /\ slot # NoCommand /\ ~stopped
    /\ IF slot.write THEN sector' = [sector EXCEPT ![slot.sector] = bounce] /\ UNCHANGED bounce
                     ELSE bounce' = sector[slot.sector] /\ UNCHANGED sector
    /\ slot' = NoCommand
    /\ UNCHANGED <<table, stopped, call, meant, wrong, shared, overtime>>

PortFails ==
    /\ slot # NoCommand /\ ~stopped
    /\ stopped' = TRUE
    /\ UNCHANGED <<sector, bounce, table, slot, call, meant, wrong, shared, overtime>>

AhciNext ==
    \/ \E c \in Callers :
          \/ \E s \in Sectors : \/ BeginsCall(c, FALSE, s, "none")
                                \/ \E d \in Contents : BeginsCall(c, TRUE, s, d)
          \/ Prepares(c) \/ StartsCommand(c) \/ SeesDone(c) \/ SeesDoneLast(c) \/ Copies(c)
          \/ SeesError(c) \/ TimesOut(c)
    \/ PortWorks \/ PortFails

AhciSpec == AhciInit /\ [][AhciNext]_ahcivars

-----------------------------------------------------------------------------
(* Properties *)

AhciTypeOK ==
    /\ sector \in [Sectors -> Contents] /\ bounce \in Contents
    /\ {stopped, wrong, shared, overtime} \subseteq BOOLEAN
    /\ \A s \in Sectors : meant[s] \subseteq Contents

\* A sector holds what its last writer wrote, or what one still under way or failed may have
\* written, and a reader gets what the sector holds (storage_read_sectors, storage_write_sectors).
SectorsTrue == ~wrong /\ \A s \in Sectors : sector[s] \in meant[s]

\* That is so as long as no two calls overlap and none is given up: the bounce buffer, the
\* table and the slot are shared, and a timeout is reported as success.
SectorsTrueAlone == shared \/ overtime \/ SectorsTrue
=============================================================================
