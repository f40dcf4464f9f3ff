--------------------------- MODULE Drives_proofs ----------------------------
(***************************************************************************)
(* Theorems about the drives, for any disks: the SATA port with what its   *)
(* callers read and write, the geometry and the directories of the volumes *)
(* mounted in turn, and what is read from a USB pendrive.                  *)
(***************************************************************************)
EXTENDS MCStorage, Fat32_proofs

-----------------------------------------------------------------------------
(***************************************************************************)
(* The SATA disk, for any sectors and contents: types, and that a caller   *)
(* gets what the disk holds and the disk what callers wrote, as long as no *)
(* two calls overlap and none is given up.                                 *)
(***************************************************************************)

Steps == {"prepare", "start", "poll", "copy"}

Calls == [at : {"idle"} \cup Steps, write : BOOLEAN,
          sector : Sectors \cup {"none"}, data : Contents \cup {"none"}]

Commands == [write : BOOLEAN, sector : Sectors]

\* Whoever is in a call has a sector, and a writer has its contents; what is in the table
\* and in the slot came from a call.
AhciTypeInv ==
    /\ AhciTypeOK
    /\ table \in Commands \cup {NoCommand} /\ slot \in Commands \cup {NoCommand}
    /\ \A c \in Callers : call[c].at = "start" => table \in Commands
    /\ DOMAIN meant = Sectors /\ meant = [s \in Sectors |-> meant[s]]
    /\ call \in [Callers -> Calls]
    /\ \A c \in Callers : call[c].at # "idle" =>
         /\ call[c].sector \in Sectors
         /\ call[c].write => call[c].data \in Contents

Issued(c) == [write |-> call[c].write, sector |-> call[c].sector]

\* What the bounce buffer, the table, the slot and the disk hold while c is in its call.
Consistent(c) ==
    LET r == call[c]
    IN  /\ r.write => r.data \in meant[r.sector]
        /\ r.at \in {"prepare", "start"} /\ r.write => bounce = r.data
        /\ r.at = "start" => table = Issued(c)
        /\ r.at = "poll" /\ slot # NoCommand /\ ~stopped =>
             slot = Issued(c) /\ (r.write => bounce = r.data)
        /\ r.at = "poll" /\ slot = NoCommand =>
             IF r.write THEN sector[r.sector] = r.data ELSE bounce = sector[r.sector]
        /\ r.at = "copy" => ~r.write /\ bounce = sector[r.sector]

\* One call at a time, each with the port to itself: a command in the slot is that of the
\* caller who polls, unless the port has stopped for good.
PortAlone ==
    /\ \A b, c \in Callers : call[b].at # "idle" /\ call[c].at # "idle" => b = c
    /\ stopped => slot # NoCommand
    /\ slot # NoCommand /\ ~stopped => \E c \in Callers : call[c].at = "poll"
    /\ \A c \in Callers : call[c].at # "idle" => Consistent(c)
    /\ SectorsTrue

AloneInv == shared \/ overtime \/ PortAlone

-----------------------------------------------------------------------------
(***************************************************************************)
(* Types.                                                                  *)
(***************************************************************************)

LEMMA TypeInit == AhciInit => AhciTypeInv
<1> SUFFICES ASSUME AhciInit PROVE AhciTypeInv
  OBVIOUS
<1>1. NoCall \in Calls /\ NoCall.at = "idle"
  BY DEF NoCall, Calls
<1>2. call = [c \in Callers |-> NoCall]
  BY DEF AhciInit
<1>3. AhciTypeOK
  BY DEF AhciInit, AhciTypeOK
<1> QED BY <1>1, <1>2, <1>3 DEF AhciInit, AhciTypeInv

\* The ways a call goes on or ends keep its record one.
LEMMA ProceedsTyped ==
    ASSUME AhciTypeInv, NEW c \in Callers, NEW w \in Steps, call[c].at # "idle", Proceeds(c, w)
    PROVE  /\ call' \in [Callers -> Calls]
           /\ \A b \in Callers : call'[b].at # "idle" =>
                /\ call'[b].sector \in Sectors
                /\ call'[b].write => call'[b].data \in Contents
           /\ call'[c].at = w /\ \A b \in Callers \ {c} : call'[b] = call[b]
<1>1. call' = [call EXCEPT ![c] = [call[c] EXCEPT !.at = w]]
  BY DEF Proceeds, AhciTypeInv
<1>2. [call[c] EXCEPT !.at = w] \in Calls
  BY DEF AhciTypeInv, Calls
<1>4. [call[c] EXCEPT !.at = w].at = w
  BY DEF AhciTypeInv, Calls
<1>3. [call[c] EXCEPT !.at = w].sector = call[c].sector
      /\ [call[c] EXCEPT !.at = w].write = call[c].write
      /\ [call[c] EXCEPT !.at = w].data = call[c].data
  BY DEF AhciTypeInv, Calls
<1> QED BY <1>1, <1>2, <1>3, <1>4 DEF AhciTypeInv

LEMMA LeavesTyped ==
    ASSUME AhciTypeInv, NEW c \in Callers, NEW ok \in BOOLEAN, call[c].at # "idle", LeavesCall(c, ok)
    PROVE  /\ call' \in [Callers -> Calls]
           /\ \A b \in Callers : call'[b].at # "idle" => b # c /\ call'[b] = call[b]
           /\ meant' = [s \in Sectors |-> meant'[s]]
           /\ DOMAIN meant' = Sectors
           /\ \A s \in Sectors : meant'[s] \subseteq Contents
           /\ wrong' \in BOOLEAN
<1>1. NoCall \in Calls /\ NoCall.at = "idle"
  BY DEF NoCall, Calls
<1>2. call' = [call EXCEPT ![c] = NoCall]
  BY DEF LeavesCall
<1>3. wrong' \in BOOLEAN
  BY DEF LeavesCall, AhciTypeInv, AhciTypeOK
<1>4. CASE meant' = meant
  BY <1>1, <1>2, <1>3, <1>4 DEF AhciTypeInv, AhciTypeOK
<1>5. CASE call[c].write /\ meant' = [meant EXCEPT ![call[c].sector] = {call[c].data}]
  BY <1>1, <1>2, <1>3, <1>5 DEF AhciTypeInv, AhciTypeOK
<1> QED BY <1>4, <1>5 DEF LeavesCall

LEMMA TypeStep == AhciTypeInv /\ [AhciNext]_ahcivars => AhciTypeInv'
<1> SUFFICES ASSUME AhciTypeInv, [AhciNext]_ahcivars PROVE AhciTypeInv'
  OBVIOUS
<1>0. CASE UNCHANGED ahcivars
  BY <1>0 DEF AhciTypeInv, AhciTypeOK, ahcivars
<1>1. ASSUME NEW c \in Callers, NEW s \in Sectors, NEW w \in BOOLEAN, NEW d,
             BeginsCall(c, w, s, d), w => d \in Contents, d \in Contents \cup {"none"}
      PROVE  AhciTypeInv'
  <2>1. call' = [call EXCEPT ![c] = [at |-> "prepare", write |-> w, sector |-> s, data |-> d]]
    BY <1>1 DEF BeginsCall
  <2>2. [at |-> "prepare", write |-> w, sector |-> s, data |-> d] \in Calls
    BY <1>1 DEF Calls, Steps
  <2>3. /\ call' \in [Callers -> Calls]
        /\ \A b \in Callers : call'[b].at # "idle" =>
             /\ call'[b].sector \in Sectors
             /\ call'[b].write => call'[b].data \in Contents
    BY <1>1, <2>1, <2>2 DEF AhciTypeInv
  <2>4. /\ DOMAIN meant' = Sectors /\ meant' = [t \in Sectors |-> meant'[t]]
        /\ \A t \in Sectors : meant'[t] \subseteq Contents
    BY <1>1 DEF BeginsCall, AhciTypeInv, AhciTypeOK
  <2>5. bounce' \in Contents
    BY <1>1 DEF BeginsCall, AhciTypeInv, AhciTypeOK
  <2>6. shared' \in BOOLEAN /\ UNCHANGED <<sector, stopped, wrong, overtime>>
    BY <1>1 DEF BeginsCall, AhciTypeInv, AhciTypeOK
  <2>7. UNCHANGED <<table, slot>> /\ \A b \in Callers : call'[b].at = "start" => call[b].at = "start"
    BY <1>1, <2>1 DEF BeginsCall, AhciTypeInv
  <2> QED BY <2>3, <2>4, <2>5, <2>6, <2>7 DEF AhciTypeInv, AhciTypeOK
<1>2. ASSUME NEW c \in Callers, Prepares(c) PROVE AhciTypeInv'
  <2>1. Proceeds(c, "start") /\ call[c].at # "idle"
    BY <1>2 DEF Prepares, Doing
  <2>2. table' \in Commands
    BY <1>2, <2>1 DEF Prepares, AhciTypeInv, Commands, Calls
  <2>3. UNCHANGED <<sector, bounce, slot, stopped, meant, wrong, shared, overtime>>
    BY <1>2 DEF Prepares
  <2> QED BY <2>1, <2>2, <2>3, ProceedsTyped DEF Steps, AhciTypeInv, AhciTypeOK
<1>6. ASSUME NEW c \in Callers, StartsCommand(c) PROVE AhciTypeInv'
  <2>1. Proceeds(c, "poll") /\ call[c].at = "start"
    BY <1>6 DEF StartsCommand, Doing
  <2>2. slot' \in Commands \cup {NoCommand}
    BY <1>6, <2>1 DEF StartsCommand, AhciTypeInv
  <2>3. UNCHANGED <<sector, bounce, table, stopped, meant, wrong, shared, overtime>>
    BY <1>6 DEF StartsCommand
  <2> QED BY <2>1, <2>2, <2>3, ProceedsTyped DEF Steps, AhciTypeInv, AhciTypeOK
<1>3. ASSUME NEW c \in Callers,
             SeesDone(c) \/ SeesDoneLast(c) \/ Copies(c) \/ SeesError(c) \/ TimesOut(c)
      PROVE  AhciTypeInv'
  <2>1. call[c].at # "idle" /\ UNCHANGED <<sector, bounce, table, slot, stopped, shared>> /\ overtime' \in BOOLEAN
    BY <1>3 DEF SeesDone, SeesDoneLast, Copies, SeesError, TimesOut, Doing, AhciTypeInv, AhciTypeOK
  <2>2. CASE Proceeds(c, "copy") /\ UNCHANGED <<meant, wrong>>
    BY <2>1, <2>2, ProceedsTyped DEF Steps, AhciTypeInv, AhciTypeOK
  <2>3. CASE \E ok \in BOOLEAN : LeavesCall(c, ok)
    BY <2>1, <2>3, LeavesTyped DEF AhciTypeInv, AhciTypeOK
  <2> QED BY <1>3, <2>2, <2>3 DEF SeesDone, SeesDoneLast, Copies, SeesError, TimesOut
<1>4. CASE PortWorks
  <2>1. slot \in Commands
    BY <1>4 DEF PortWorks, AhciTypeInv
  <2>2. sector' \in [Sectors -> Contents] /\ bounce' \in Contents
    BY <1>4, <2>1 DEF PortWorks, AhciTypeInv, AhciTypeOK, Commands
  <2> QED BY <1>4, <2>2 DEF PortWorks, AhciTypeInv, AhciTypeOK
<1>5. CASE PortFails
  BY <1>5 DEF PortFails, AhciTypeInv, AhciTypeOK
<1> QED BY <1>0, <1>1, <1>2, <1>3, <1>4, <1>5, <1>6 DEF AhciNext

\* The disk, the bounce buffer and the histories have their types whatever overlaps
\* (ahci_hal.c, ahci_cmd.c).
THEOREM AhciTypes == AhciSpec => []AhciTypeOK
<1>1. AhciTypeInv => AhciTypeOK
  BY DEF AhciTypeInv
<1> QED BY TypeInit, TypeStep, <1>1, PTL DEF AhciSpec

-----------------------------------------------------------------------------
(***************************************************************************)
(* What a call reads and writes when it is alone.                          *)
(***************************************************************************)

LEMMA AloneInit == AhciInit => AloneInv
BY DEF AhciInit, AloneInv, PortAlone, NoCall, SectorsTrue

\* What a caller puts in the table is never taken for an empty slot.
LEMMA CommandIsReal ==
    ASSUME AhciTypeInv, NEW c \in Callers, call[c].at # "idle"
    PROVE  Issued(c) # NoCommand /\ Issued(c) \in Commands
BY SectorsAssumption DEF AhciTypeInv, Issued, Commands, NoCommand, Calls

\* A call may only end where the disk and the buffer agree with it.
LEMMA LeavesAlone ==
    ASSUME AhciTypeInv, PortAlone, NEW c \in Callers, NEW ok \in BOOLEAN, call[c].at # "idle",
           LeavesCall(c, ok),
           UNCHANGED <<sector, bounce, table, slot, stopped>>,
           slot = NoCommand \/ stopped,
           ok /\ call[c].write => sector[call[c].sector] = call[c].data,
           ok /\ ~call[c].write => bounce = sector[call[c].sector]
    PROVE  PortAlone'
<1>1. call' = [call EXCEPT ![c] = NoCall] /\ NoCall.at = "idle"
  BY DEF LeavesCall, NoCall
<1>2. \A b \in Callers : call'[b].at = "idle"
  BY <1>1 DEF AhciTypeInv, PortAlone
<1>3. wrong' = FALSE
  BY DEF LeavesCall, PortAlone, SectorsTrue
<1>4. \A s \in Sectors : sector'[s] \in meant'[s]
  <2>1. CASE meant' = meant
    BY <2>1 DEF PortAlone, SectorsTrue
  <2>2. CASE call[c].write /\ ok /\ meant' = [meant EXCEPT ![call[c].sector] = {call[c].data}]
    BY <2>2 DEF PortAlone, SectorsTrue, AhciTypeInv
  <2> QED BY <2>1, <2>2 DEF LeavesCall
<1> QED BY <1>2, <1>3, <1>4 DEF PortAlone, SectorsTrue

LEMMA BeginsAlone ==
    ASSUME AhciTypeInv, PortAlone, NEW c \in Callers, NEW s \in Sectors, NEW w \in BOOLEAN, NEW d,
           BeginsCall(c, w, s, d), ~shared'
    PROVE  PortAlone'
<1> DEFINE r == [at |-> "prepare", write |-> w, sector |-> s, data |-> d]
<1>1. call' = [call EXCEPT ![c] = r] /\ UNCHANGED <<sector, table, slot, stopped, wrong>>
  BY DEF BeginsCall
<1>2. \A b \in Callers : call[b].at = "idle"
  BY DEF BeginsCall, Doing
<1>3. slot = NoCommand \/ stopped
  BY <1>2 DEF PortAlone
<1>4. \A b \in Callers : call'[b].at # "idle" => b = c
  BY <1>1, <1>2 DEF AhciTypeInv
<1>5. call'[c] = r
  BY <1>1 DEF AhciTypeInv
<1>6. meant' = (IF w THEN [meant EXCEPT ![s] = @ \cup {d}] ELSE meant) /\ (w => bounce' = d)
  BY DEF BeginsCall
<1>7. w => d \in meant'[s]
  BY <1>6 DEF AhciTypeInv
<1>8. \A t \in Sectors : sector'[t] \in meant'[t]
  BY <1>1, <1>6 DEF PortAlone, SectorsTrue, AhciTypeInv
<1>9. Consistent(c)'
  BY <1>5, <1>6, <1>7 DEF Consistent
<1> QED BY <1>1, <1>3, <1>4, <1>8, <1>9 DEF PortAlone, SectorsTrue

LEMMA AloneStep == AhciTypeInv /\ AhciTypeInv' /\ AloneInv /\ [AhciNext]_ahcivars => AloneInv'
<1> SUFFICES ASSUME AhciTypeInv, AhciTypeInv', AloneInv, [AhciNext]_ahcivars, ~shared', ~overtime'
             PROVE  PortAlone'
  BY DEF AloneInv
<1>0. CASE UNCHANGED ahcivars
  BY <1>0 DEF AloneInv, PortAlone, Consistent, Issued, SectorsTrue, ahcivars
<1>1. ASSUME NEW c \in Callers, NEW s \in Sectors, NEW w \in BOOLEAN, NEW d, BeginsCall(c, w, s, d)
      PROVE  PortAlone'
  <2>1. PortAlone
    BY <1>1 DEF BeginsCall, AloneInv, AhciTypeInv, AhciTypeOK
  <2> QED BY <1>1, <2>1, BeginsAlone
<1>2. ASSUME NEW c \in Callers, Prepares(c) PROVE PortAlone'
  <2>1. PortAlone /\ call[c].at = "prepare" /\ table' = Issued(c)
        /\ UNCHANGED <<sector, bounce, slot, stopped, meant, wrong>>
    BY <1>2 DEF Prepares, Doing, AloneInv, Issued
  <2>2. call' = [call EXCEPT ![c] = [call[c] EXCEPT !.at = "start"]]
    BY <1>2 DEF Prepares, Proceeds, AhciTypeInv
  <2>3. \A b \in Callers : call[b].at # "idle" <=> b = c
    BY <2>1 DEF PortAlone
  <2>4. \A b \in Callers : call'[b].at # "idle" <=> b = c
    BY <2>2, <2>3 DEF AhciTypeInv, Calls
  <2>5. /\ call'[c].at = "start" /\ call'[c].write = call[c].write
        /\ call'[c].sector = call[c].sector /\ call'[c].data = call[c].data
    BY <2>2 DEF AhciTypeInv, Calls
  <2>6. Consistent(c)'
    BY <2>1, <2>5 DEF PortAlone, Consistent, Issued
  <2>7. slot = NoCommand \/ stopped
    BY <2>1, <2>3 DEF PortAlone
  <2> QED BY <2>1, <2>4, <2>6, <2>7 DEF PortAlone, SectorsTrue
<1>3. ASSUME NEW c \in Callers, StartsCommand(c) PROVE PortAlone'
  <2>1. PortAlone /\ call[c].at = "start" /\ slot' = (IF slot = NoCommand THEN table ELSE slot)
        /\ UNCHANGED <<sector, bounce, table, stopped, meant, wrong>>
    BY <1>3 DEF StartsCommand, Doing, AloneInv
  <2>2. call' = [call EXCEPT ![c] = [call[c] EXCEPT !.at = "poll"]]
    BY <1>3 DEF StartsCommand, Proceeds, AhciTypeInv
  <2>3. \A b \in Callers : call[b].at # "idle" <=> b = c
    BY <2>1 DEF PortAlone
  <2>4. \A b \in Callers : call'[b].at # "idle" <=> b = c
    BY <2>2, <2>3 DEF AhciTypeInv, Calls
  <2>5. /\ call'[c].at = "poll" /\ call'[c].write = call[c].write
        /\ call'[c].sector = call[c].sector /\ call'[c].data = call[c].data
    BY <2>2 DEF AhciTypeInv, Calls
  <2>6. slot = NoCommand \/ stopped
    BY <2>1, <2>3 DEF PortAlone
  <2>7. table = Issued(c) /\ Issued(c) # NoCommand
    BY <2>1, CommandIsReal DEF PortAlone, Consistent
  <2>8. slot' # NoCommand /\ (stopped \/ slot' = Issued(c)')
    BY <2>1, <2>5, <2>6, <2>7 DEF Issued
  <2>9. Consistent(c)'
    BY <2>1, <2>5, <2>8 DEF PortAlone, Consistent
  <2> QED BY <2>1, <2>4, <2>5, <2>8, <2>9 DEF PortAlone, SectorsTrue
<1>4. ASSUME NEW c \in Callers, SeesDone(c) PROVE PortAlone'
  <2>1. PortAlone /\ call[c].at = "poll" /\ slot = NoCommand
        /\ UNCHANGED <<sector, bounce, table, slot, stopped>>
    BY <1>4 DEF SeesDone, Doing, AloneInv
  <2>2. IF call[c].write THEN sector[call[c].sector] = call[c].data
                         ELSE bounce = sector[call[c].sector]
    BY <2>1 DEF PortAlone, Consistent
  <2>3. CASE call[c].write
    BY <1>4, <2>1, <2>2, <2>3, LeavesAlone DEF SeesDone
  <2>4. CASE ~call[c].write
    <3>1. call' = [call EXCEPT ![c] = [call[c] EXCEPT !.at = "copy"]] /\ UNCHANGED <<meant, wrong>>
      BY <1>4, <2>4 DEF SeesDone, Proceeds, AhciTypeInv
    <3>2. \A b \in Callers : call'[b].at # "idle" <=> b = c
      BY <2>1, <3>1 DEF PortAlone, AhciTypeInv, Calls
    <3>3. /\ call'[c].at = "copy" /\ call'[c].write = call[c].write
          /\ call'[c].sector = call[c].sector
      BY <3>1 DEF AhciTypeInv, Calls
    <3>4. Consistent(c)'
      BY <2>1, <2>2, <2>4, <3>3 DEF Consistent
    <3> QED BY <2>1, <3>1, <3>2, <3>4 DEF PortAlone, SectorsTrue
  <2> QED BY <2>3, <2>4
<1>5. ASSUME NEW c \in Callers, SeesDoneLast(c) PROVE PortAlone'
  BY <1>5, LeavesAlone DEF SeesDoneLast, Doing, AloneInv
<1>6. ASSUME NEW c \in Callers, Copies(c) PROVE PortAlone'
  <2>1. PortAlone /\ call[c].at = "copy" /\ UNCHANGED <<sector, bounce, table, slot, stopped>>
    BY <1>6 DEF Copies, Doing, AloneInv
  <2>2. ~call[c].write /\ bounce = sector[call[c].sector]
    BY <2>1 DEF PortAlone, Consistent
  <2>3. slot = NoCommand \/ stopped
    BY <2>1 DEF PortAlone
  <2> QED BY <1>6, <2>1, <2>2, <2>3, LeavesAlone DEF Copies
<1>7. ASSUME NEW c \in Callers, SeesError(c) PROVE PortAlone'
  BY <1>7, LeavesAlone DEF SeesError, Doing, AloneInv
<1>8. ASSUME NEW c \in Callers, TimesOut(c) PROVE FALSE
  BY <1>8 DEF TimesOut
<1>9. CASE PortWorks
  <2>1. PortAlone /\ slot # NoCommand /\ ~stopped /\ slot' = NoCommand
        /\ UNCHANGED <<table, stopped, call, meant, wrong>>
    BY <1>9 DEF PortWorks, AloneInv
  <2>2. PICK c \in Callers : call[c].at = "poll"
    BY <2>1 DEF PortAlone
  <2>3. slot = Issued(c) /\ (call[c].write => bounce = call[c].data /\ call[c].data \in meant[call[c].sector])
    BY <2>1, <2>2 DEF PortAlone, Consistent
  <2>4. call[c].sector \in Sectors
    BY <2>2 DEF AhciTypeInv
  <2>5. CASE call[c].write
    <3>1. sector' = [sector EXCEPT ![call[c].sector] = bounce] /\ bounce' = bounce
      BY <1>9, <2>3, <2>5 DEF PortWorks, Issued
    <3>2. sector'[call[c].sector] = call[c].data /\ \A s \in Sectors : sector'[s] \in meant[s]
      BY <2>1, <2>3, <2>4, <2>5, <3>1 DEF PortAlone, SectorsTrue, AhciTypeInv, AhciTypeOK
    <3>3. Consistent(c)'
      BY <2>1, <2>2, <2>3, <2>5, <3>2 DEF Consistent
    <3> QED BY <2>1, <2>2, <3>2, <3>3 DEF PortAlone, SectorsTrue
  <2>6. CASE ~call[c].write
    <3>1. bounce' = sector[call[c].sector] /\ sector' = sector
      BY <1>9, <2>3, <2>6 DEF PortWorks, Issued
    <3>2. Consistent(c)'
      BY <2>1, <2>2, <2>6, <3>1 DEF Consistent
    <3> QED BY <2>1, <2>2, <3>1, <3>2 DEF PortAlone, SectorsTrue
  <2> QED BY <2>5, <2>6
<1>10. CASE PortFails
  <2>1. PortAlone /\ slot # NoCommand /\ stopped' /\ UNCHANGED <<sector, bounce, table, slot, call, meant, wrong>>
    BY <1>10 DEF PortFails, AloneInv
  <2>2. \A c \in Callers : call[c].at # "idle" => Consistent(c)'
    BY <2>1 DEF PortAlone, Consistent, Issued
  <2> QED BY <2>1, <2>2 DEF PortAlone, SectorsTrue
<1> QED BY <1>0, <1>1, <1>2, <1>3, <1>4, <1>5, <1>6, <1>7, <1>8, <1>9, <1>10 DEF AhciNext

\* A reader gets what the sector holds and a sector what its writers wrote, as long as no
\* call overlaps another and none is given up (storage_read_sectors, storage_write_sectors).
THEOREM SectorsAreTrue == AhciSpec => []SectorsTrueAlone
<1>1. AloneInv => SectorsTrueAlone
  BY DEF AloneInv, PortAlone, SectorsTrueAlone
<1> QED BY TypeInit, TypeStep, AloneInit, AloneStep, <1>1, PTL DEF AhciSpec

-----------------------------------------------------------------------------
(***************************************************************************)
(* The drives, for any directories: as long as no switch or mount overlaps *)
(* somebody else's call, C: is written with its own geometry only, and     *)
(* whoever comes back to a drive finds the directory they left.            *)
(***************************************************************************)

(***************************************************************************)
(* The inductive invariant.  The geometry is assigned in pieces, so what   *)
(* it is worth depends on where the one actor inside is: between calls it  *)
(* belongs to fat32_current_dev_id unless a mount failed, and even then C: *)
(* is never current with a geometry that is not its own, because only a    *)
(* switch that went to its end makes C: current again.                     *)
(***************************************************************************)

Stages == {"idle", "mount", "mount_read", "mount_geo", "mount_save", "switch",
           "restore_bpb", "restore_rest", "work"}

Geos == [bpb : Disks, off : Disks, fat : Disks, dir : [disk : Disks, dir : Dirs \cup {RootDir}]]

\* Types of the variables, those of the actors and of the saved contexts included.
VolTypes ==
    /\ dev \in Disks
    /\ geo \in Geos
    /\ units \in [Disks -> [ready : BOOLEAN, geo : Geos]]
    /\ hand \in [Hands -> [at : Stages, to : Disks, from : 0 .. 3, part : {0}, switch : BOOLEAN]]
    /\ was \in [Disks -> Dirs \cup {RootDir}]
    /\ forgotten \subseteq Disks
    /\ failed \in BOOLEAN /\ overlap \in BOOLEAN /\ strayed \in BOOLEAN

OneHand == \A g, h \in Hands : Busy(g) /\ Busy(h) => g = h

Own(g, d) == g.bpb = d /\ g.off = d /\ g.fat = d

\* A switch has made its drive current and has not yet restored its geometry.
Restoring == \E h \in Hands : hand[h].at \in {"restore_bpb", "restore_rest"}
\* A mount has made its drive current and has not yet set its geometry.
Mounting == \E h \in Hands : hand[h].at \in {"mount_read", "mount_geo"}

\* What each actor can rely on where it is.
OnCourse(h) ==
    LET at == hand[h].at
        to == hand[h].to
    IN  /\ at \in {"mount", "mount_read", "mount_geo", "mount_save"} => to # 0
        /\ at \in {"mount_read", "mount_geo", "mount_save", "restore_bpb", "restore_rest"} => dev = to
        /\ at = "mount_geo" => geo.bpb = to /\ geo.off = to
        /\ at = "mount_save" => Own(geo, to)
        /\ at \in {"switch", "restore_bpb", "restore_rest"} => units[to].ready
        /\ at = "restore_rest" => geo.bpb = to
        /\ at = "work" => hand[h].from = Source

\* C: is current with its own geometry only, and contexts are saved under their own drive.
HomeInv ==
    /\ ~strayed
    /\ units[0].ready
    /\ \A d \in Disks : units[d].ready => Own(units[d].geo, d)
    /\ \A h \in Hands : OnCourse(h)
    /\ dev = 0 /\ ~Restoring => Own(geo, 0)

\* Until a mount fails, the geometry and the directory are those of the current drive, and
\* the directories saved are those the user was in, but for the drives left by a mount.
DirInv ==
    /\ ~Restoring /\ ~Mounting =>
         /\ Own(geo, dev) /\ geo.dir.disk = dev
         /\ dev \in forgotten \/ geo.dir.dir = was[dev]
    /\ \A d \in Disks : units[d].ready => units[d].geo.dir.disk = d
    /\ \A d \in Disks : units[d].ready /\ (d # dev \/ Restoring) =>
         d \in forgotten \/ units[d].geo.dir.dir = was[d]

VolInv == VolTypes /\ (overlap \/ (OneHand /\ HomeInv /\ (failed \/ DirInv)))

-----------------------------------------------------------------------------

LEMMA DiskSet == /\ 0 \in Disks /\ 1 \in Disks /\ 2 \in Disks
                 /\ \A d \in Disks : d \in 0 .. 3 /\ (d = 0 \/ d = 1 \/ d = 2)
BY DEF Disks

LEMMA Others ==
  ASSUME NEW h \in Hands
  PROVE  /\ Other(h) \in Hands /\ Other(h) # h
         /\ \A g \in Hands : g = h \/ g = Other(h)
<1>1. \E g \in Hands : g # h
  BY DEF Hands
<1>2. Other(h) \in Hands /\ Other(h) # h
  BY <1>1 DEF Other
<1> QED BY <1>2 DEF Hands

LEMMA InitHolds == VolInit => VolInv
<1> SUFFICES ASSUME VolInit PROVE VolInv
  OBVIOUS
<1>0. NoHand \in [at : Stages, to : Disks, from : 0 .. 3, part : {0}, switch : BOOLEAN]
  BY DiskSet DEF NoHand, Stages
<1>1. geo \in Geos /\ Own(geo, 0) /\ geo.dir = Place(0, RootDir)
  BY DiskSet DEF VolInit, Geos, GeoOf, Place, Own
<1>2. VolTypes
  BY <1>0, <1>1, DiskSet DEF VolInit, VolTypes
<1>3. \A h \in Hands : hand[h].at = "idle"
  BY DEF VolInit, NoHand
<1>4. OneHand
  BY <1>3 DEF OneHand, Busy
<1>5. ~Restoring /\ ~Mounting
  BY <1>3 DEF Restoring, Mounting
<1>6. \A d \in Disks : units[d].ready => d = 0 /\ units[d].geo = geo
  BY DEF VolInit
<1>7. units[0].ready
  BY DiskSet DEF VolInit
<1>8. HomeInv
  BY <1>1, <1>3, <1>6, <1>7 DEF VolInit, HomeInv, OnCourse
<1>9. DirInv
  BY <1>1, <1>5, <1>6, DiskSet DEF VolInit, DirInv, Place
<1> QED BY <1>2, <1>4, <1>8, <1>9 DEF VolInv

\* What an actor that is alone decides for both.
LEMMA Lone ==
  ASSUME NEW h \in Hands, hand[Other(h)].at = "idle"
  PROVE  /\ Restoring <=> hand[h].at \in {"restore_bpb", "restore_rest"}
         /\ Mounting <=> hand[h].at \in {"mount_read", "mount_geo"}
BY Others DEF Restoring, Mounting

LEMMA LoneAfter ==
  ASSUME NEW h \in Hands, hand'[Other(h)].at = "idle", OnCourse(h)'
  PROVE  /\ Restoring' <=> hand'[h].at \in {"restore_bpb", "restore_rest"}
         /\ Mounting' <=> hand'[h].at \in {"mount_read", "mount_geo"}
         /\ OneHand'
         /\ \A g \in Hands : OnCourse(g)'
<1>1. /\ Restoring' <=> hand'[h].at \in {"restore_bpb", "restore_rest"}
      /\ Mounting' <=> hand'[h].at \in {"mount_read", "mount_geo"}
  BY Others DEF Restoring, Mounting
<1>2. OneHand'
  BY Others DEF OneHand, Busy
<1>3. OnCourse(Other(h))'
  BY DEF OnCourse
<1>4. \A g \in Hands : g = h \/ g = Other(h)
  BY Others
<1>5. ASSUME NEW g \in Hands PROVE OnCourse(g)'
  <2>1. CASE g = h
    BY <2>1
  <2>2. CASE g = Other(h)
    BY <1>3, <2>2
  <2> QED BY <1>4, <2>1, <2>2
<1> QED BY <1>1, <1>2, <1>5

\* An actor goes on to its next stage.
LEMMA Moved ==
  ASSUME VolTypes, NEW h \in Hands, NEW w \in Stages, HandMoves(h, w)
  PROVE  /\ hand' \in [Hands -> [at : Stages, to : Disks, from : 0 .. 3, part : {0}, switch : BOOLEAN]]
         /\ hand'[h].at = w /\ hand'[h].to = hand[h].to
         /\ hand'[Other(h)] = hand[Other(h)]
BY Others DEF VolTypes, HandMoves, HandGoes

\* An actor has finished its call.
LEMMA Dropped ==
  ASSUME VolTypes, NEW h \in Hands, HandGoes(h, NoHand)
  PROVE  /\ hand' \in [Hands -> [at : Stages, to : Disks, from : 0 .. 3, part : {0}, switch : BOOLEAN]]
         /\ hand'[h].at = "idle"
         /\ hand'[Other(h)] = hand[Other(h)]
<1>1. NoHand \in [at : Stages, to : Disks, from : 0 .. 3, part : {0}, switch : BOOLEAN]
  BY DiskSet DEF NoHand, Stages
<1> QED BY <1>1, Others DEF VolTypes, HandGoes, NoHand

\* The actor inside a call is alone.
LEMMA AloneInside ==
  ASSUME OneHand, NEW h \in Hands, Busy(h)
  PROVE  hand[Other(h)].at = "idle"
BY Others DEF OneHand, Busy

\* What is left to prove of a step, once its actor is known to be alone.
Good == OneHand /\ HomeInv /\ (failed \/ DirInv)

LEMMA MountsStep ==
  ASSUME VolInv, NEW h \in Hands, Mounts(h)
  PROVE  VolInv'
<1>0. VolTypes /\ hand[h].at = "mount" /\ hand[h].to \in Disks
  BY DEF VolInv, VolTypes, Mounts, HandAt
<1>1. /\ hand' \in [Hands -> [at : Stages, to : Disks, from : 0 .. 3, part : {0}, switch : BOOLEAN]]
      /\ hand'[h].at = "mount_read" /\ hand'[h].to = hand[h].to
      /\ hand'[Other(h)] = hand[Other(h)]
  BY <1>0, Moved DEF Mounts, Stages
<1>2. /\ dev' = hand[h].to
      /\ forgotten' = IF dev = hand[h].to THEN forgotten ELSE forgotten \cup {dev}
      /\ UNCHANGED <<geo, units, was, failed, overlap, strayed>>
  BY DEF Mounts
<1>3. VolTypes'
  BY <1>0, <1>1, <1>2 DEF VolTypes
<1>4. ASSUME Good PROVE Good'
  <2>1. hand[Other(h)].at = "idle"
    BY <1>0, <1>4, AloneInside DEF Good, Busy
  <2>2. hand[h].to # 0
    BY <1>0, <1>4 DEF Good, HomeInv, OnCourse
  <2>3. OnCourse(h)'
    BY <1>1, <1>2, <2>2 DEF OnCourse
  <2>4. /\ ~Restoring' /\ Mounting' /\ OneHand' /\ \A g \in Hands : OnCourse(g)'
    BY <1>1, <2>1, <2>3, LoneAfter
  <2>5. HomeInv'
    BY <1>2, <1>4, <2>2, <2>4 DEF Good, HomeInv
  <2>6. ~Restoring
    BY <1>0, <2>1, Lone
  <2>7. ASSUME DirInv PROVE DirInv'
    BY <1>0, <1>2, <2>4, <2>6, <2>7 DEF DirInv, VolTypes
  <2> QED BY <1>2, <1>4, <2>4, <2>5, <2>7 DEF Good
<1> QED BY <1>2, <1>3, <1>4 DEF VolInv, Good

LEMMA MountFailsStep ==
  ASSUME VolInv, NEW h \in Hands, MountFails(h)
  PROVE  VolInv'
<1>0. VolTypes /\ hand[h].at = "mount_read" /\ hand[h].to \in Disks
  BY DEF VolInv, VolTypes, MountFails, HandAt
<1>1. /\ hand' \in [Hands -> [at : Stages, to : Disks, from : 0 .. 3, part : {0}, switch : BOOLEAN]]
      /\ hand'[h].at = "idle" /\ hand'[Other(h)] = hand[Other(h)]
  BY <1>0, Dropped DEF MountFails
<1>2. /\ failed' = TRUE /\ UNCHANGED <<dev, units, was, forgotten, overlap, strayed>>
      /\ \/ UNCHANGED geo
         \/ geo' = [geo EXCEPT !.off = hand[h].to]
         \/ geo' = [geo EXCEPT !.off = hand[h].to, !.bpb = hand[h].to]
  BY DEF MountFails
<1>3. VolTypes'
  BY <1>0, <1>1, <1>2 DEF VolTypes, Geos
<1>4. ASSUME Good PROVE Good'
  <2>1. hand[Other(h)].at = "idle"
    BY <1>0, <1>4, AloneInside DEF Good, Busy
  <2>2. hand[h].to # 0 /\ dev = hand[h].to
    BY <1>0, <1>4 DEF Good, HomeInv, OnCourse
  <2>3. OnCourse(h)'
    BY <1>1 DEF OnCourse
  <2>4. OneHand' /\ \A g \in Hands : OnCourse(g)'
    BY <1>1, <2>1, <2>3, LoneAfter
  <2>5. HomeInv'
    BY <1>2, <1>4, <2>2, <2>4 DEF Good, HomeInv
  <2> QED BY <1>2, <2>4, <2>5 DEF Good
<1> QED BY <1>2, <1>3, <1>4 DEF VolInv, Good

LEMMA MountReadsStep ==
  ASSUME VolInv, NEW h \in Hands, MountReads(h)
  PROVE  VolInv'
<1>0. VolTypes /\ hand[h].at = "mount_read" /\ hand[h].to \in Disks
  BY DEF VolInv, VolTypes, MountReads, HandAt
<1>1. /\ hand' \in [Hands -> [at : Stages, to : Disks, from : 0 .. 3, part : {0}, switch : BOOLEAN]]
      /\ hand'[h].at = "mount_geo" /\ hand'[h].to = hand[h].to
      /\ hand'[Other(h)] = hand[Other(h)]
  BY <1>0, Moved DEF MountReads, Stages
<1>2. /\ geo' = [geo EXCEPT !.off = hand[h].to, !.bpb = hand[h].to]
      /\ UNCHANGED <<dev, units, was, forgotten, failed, overlap, strayed>>
  BY DEF MountReads
<1>3. VolTypes'
  BY <1>0, <1>1, <1>2 DEF VolTypes, Geos
<1>4. ASSUME Good PROVE Good'
  <2>1. hand[Other(h)].at = "idle"
    BY <1>0, <1>4, AloneInside DEF Good, Busy
  <2>2. hand[h].to # 0 /\ dev = hand[h].to
    BY <1>0, <1>4 DEF Good, HomeInv, OnCourse
  <2>3. geo'.bpb = hand[h].to /\ geo'.off = hand[h].to
    BY <1>0, <1>2 DEF VolTypes, Geos
  <2>4. OnCourse(h)'
    BY <1>1, <1>2, <2>2, <2>3 DEF OnCourse
  <2>5. /\ ~Restoring' /\ Mounting' /\ OneHand' /\ \A g \in Hands : OnCourse(g)'
    BY <1>1, <2>1, <2>4, LoneAfter
  <2>6. HomeInv'
    BY <1>2, <1>4, <2>2, <2>5 DEF Good, HomeInv
  <2>7. ~Restoring
    BY <1>0, <2>1, Lone
  <2>8. ASSUME DirInv PROVE DirInv'
    BY <1>2, <2>5, <2>7, <2>8 DEF DirInv
  <2> QED BY <1>2, <1>4, <2>5, <2>6, <2>8 DEF Good
<1> QED BY <1>2, <1>3, <1>4 DEF VolInv, Good

LEMMA MountSetsStep ==
  ASSUME VolInv, NEW h \in Hands, MountSets(h)
  PROVE  VolInv'
<1>0. VolTypes /\ hand[h].at = "mount_geo" /\ hand[h].to \in Disks
  BY DEF VolInv, VolTypes, MountSets, HandAt
<1>1. /\ hand' \in [Hands -> [at : Stages, to : Disks, from : 0 .. 3, part : {0}, switch : BOOLEAN]]
      /\ hand'[h].at = "mount_save" /\ hand'[h].to = hand[h].to
      /\ hand'[Other(h)] = hand[Other(h)]
  BY <1>0, Moved DEF MountSets, Stages
<1>2. /\ geo' = [geo EXCEPT !.fat = hand[h].to, !.dir = Place(hand[h].to, RootDir)]
      /\ was' = [was EXCEPT ![hand[h].to] = RootDir]
      /\ UNCHANGED <<dev, units, forgotten, failed, overlap, strayed>>
  BY DEF MountSets
<1>3. VolTypes'
  BY <1>0, <1>1, <1>2 DEF VolTypes, Geos, Place
<1>4. ASSUME Good PROVE Good'
  <2>1. hand[Other(h)].at = "idle"
    BY <1>0, <1>4, AloneInside DEF Good, Busy
  <2>2. /\ hand[h].to # 0 /\ dev = hand[h].to
        /\ geo.bpb = hand[h].to /\ geo.off = hand[h].to
    BY <1>0, <1>4 DEF Good, HomeInv, OnCourse
  <2>3. Own(geo', hand[h].to) /\ geo'.dir.disk = hand[h].to /\ geo'.dir.dir = RootDir
    BY <1>0, <1>2, <2>2 DEF VolTypes, Geos, Own, Place
  <2>4. OnCourse(h)'
    BY <1>1, <1>2, <2>2, <2>3 DEF OnCourse
  <2>5. /\ ~Restoring' /\ OneHand' /\ \A g \in Hands : OnCourse(g)'
    BY <1>1, <2>1, <2>4, LoneAfter
  <2>6. HomeInv'
    BY <1>2, <1>4, <2>2, <2>5 DEF Good, HomeInv
  <2>7. ~Restoring
    BY <1>0, <2>1, Lone
  <2>8. was'[dev] = RootDir /\ \A d \in Disks : d # dev => was'[d] = was[d]
    BY <1>0, <1>2, <2>2 DEF VolTypes
  <2>9. ASSUME DirInv PROVE DirInv'
    BY <1>2, <2>2, <2>3, <2>5, <2>7, <2>8, <2>9 DEF DirInv
  <2> QED BY <1>2, <1>4, <2>5, <2>6, <2>9 DEF Good
<1> QED BY <1>2, <1>3, <1>4 DEF VolInv, Good

LEMMA MountSavesStep ==
  ASSUME VolInv, NEW h \in Hands, MountSaves(h)
  PROVE  VolInv'
<1>0. VolTypes /\ hand[h].at = "mount_save" /\ hand[h].to \in Disks
  BY DEF VolInv, VolTypes, MountSaves, HandAt
<1>1. /\ hand' \in [Hands -> [at : Stages, to : Disks, from : 0 .. 3, part : {0}, switch : BOOLEAN]]
      /\ hand'[h].at \in {"switch", "idle"}
      /\ hand'[h].at = "switch" => hand'[h].to = hand[h].to
      /\ hand'[Other(h)] = hand[Other(h)]
  BY <1>0, Moved, Dropped DEF MountSaves, Stages
<1> DEFINE d == hand[h].to
           dir == IF units[d].ready THEN geo.dir ELSE Place(geo.bpb, RootDir)
<1>2. /\ units' = [units EXCEPT ![d] = [ready |-> TRUE, geo |-> [geo EXCEPT !.dir = dir]]]
      /\ UNCHANGED <<dev, geo, was, forgotten, failed, overlap, strayed>>
  BY DEF MountSaves
<1>3. dir \in [disk : Disks, dir : Dirs \cup {RootDir}]
  BY <1>0 DEF VolTypes, Geos, Place
<1>4. /\ [geo EXCEPT !.dir = dir] \in Geos
      /\ \A e \in Disks : e # d => units'[e] = units[e]
      /\ units'[d].ready /\ units'[d].geo = [geo EXCEPT !.dir = dir]
  BY <1>0, <1>2, <1>3 DEF VolTypes, Geos
<1>5. /\ units'[d].geo.bpb = geo.bpb /\ units'[d].geo.off = geo.off
      /\ units'[d].geo.fat = geo.fat /\ units'[d].geo.dir = dir
  BY <1>0, <1>4 DEF VolTypes, Geos
<1>6. VolTypes'
  BY <1>0, <1>1, <1>2, <1>4 DEF VolTypes
<1>7. ASSUME Good PROVE Good'
  <2>1. hand[Other(h)].at = "idle"
    BY <1>0, <1>7, AloneInside DEF Good, Busy
  <2>2. d # 0 /\ dev = d /\ Own(geo, d)
    BY <1>0, <1>7 DEF Good, HomeInv, OnCourse
  <2>3. OnCourse(h)'
    BY <1>1, <1>4, <2>2 DEF OnCourse
  <2>4. /\ ~Restoring' /\ ~Mounting' /\ OneHand' /\ \A g \in Hands : OnCourse(g)'
    BY <1>1, <2>1, <2>3, LoneAfter
  <2>5. \A e \in Disks : units'[e].ready => Own(units'[e].geo, e)
    BY <1>4, <1>5, <1>7, <2>2 DEF Good, HomeInv, Own
  <2>6. HomeInv'
    BY <1>2, <1>4, <1>7, <2>2, <2>4, <2>5, DiskSet DEF Good, HomeInv
  <2>7. ~Restoring /\ ~Mounting
    BY <1>0, <2>1, Lone
  <2>8. ASSUME DirInv PROVE DirInv'
    <3>1. dir.disk = d
      BY <2>2, <2>7, <2>8 DEF DirInv, Place, Own
    <3> HIDE DEF dir, d
    <3> QED BY <1>2, <1>4, <1>5, <2>2, <2>4, <2>7, <2>8, <3>1 DEF DirInv
  <2> QED BY <1>2, <1>7, <2>4, <2>6, <2>8 DEF Good
<1> QED BY <1>2, <1>6, <1>7 DEF VolInv, Good

LEMMA SwitchSavesStep ==
  ASSUME VolInv, NEW h \in Hands, SwitchSaves(h)
  PROVE  VolInv'
<1>0. VolTypes /\ hand[h].at = "switch" /\ hand[h].to \in Disks /\ dev \in Disks
  BY DEF VolInv, VolTypes, SwitchSaves, HandAt
<1>1. /\ hand' \in [Hands -> [at : Stages, to : Disks, from : 0 .. 3, part : {0}, switch : BOOLEAN]]
      /\ hand'[h].at = "restore_bpb" /\ hand'[h].to = hand[h].to
      /\ hand'[Other(h)] = hand[Other(h)]
  BY <1>0, Moved DEF SwitchSaves, Stages
<1>2. /\ units' = [units EXCEPT ![dev].geo.dir = geo.dir]
      /\ dev' = hand[h].to
      /\ UNCHANGED <<geo, was, forgotten, failed, overlap, strayed>>
  BY DEF SwitchSaves
<1>3. /\ units' \in [Disks -> [ready : BOOLEAN, geo : Geos]]
      /\ \A d \in Disks : d # dev => units'[d] = units[d]
      /\ units'[dev].ready = units[dev].ready
      /\ units'[dev].geo.dir = geo.dir
      /\ units'[dev].geo.bpb = units[dev].geo.bpb /\ units'[dev].geo.off = units[dev].geo.off
      /\ units'[dev].geo.fat = units[dev].geo.fat
  BY <1>0, <1>2 DEF VolTypes, Geos
<1>4. VolTypes'
  BY <1>0, <1>1, <1>2, <1>3 DEF VolTypes
<1>5. ASSUME Good PROVE Good'
  <2>1. hand[Other(h)].at = "idle"
    BY <1>0, <1>5, AloneInside DEF Good, Busy
  <2>2. units[hand[h].to].ready
    BY <1>0, <1>5 DEF Good, HomeInv, OnCourse
  <2>3. \A d \in Disks : units'[d].ready = units[d].ready
    BY <1>3
  <2>4. OnCourse(h)'
    BY <1>0, <1>1, <1>2, <2>2, <2>3 DEF OnCourse
  <2>5. /\ Restoring' /\ OneHand' /\ \A g \in Hands : OnCourse(g)'
    BY <1>1, <2>1, <2>4, LoneAfter
  <2>6. \A d \in Disks : units'[d].ready => Own(units'[d].geo, d)
    BY <1>3, <1>5, <2>3 DEF Good, HomeInv, Own
  <2>7. HomeInv'
    BY <1>2, <1>5, <2>3, <2>5, <2>6, DiskSet DEF Good, HomeInv
  <2>8. ~Restoring /\ ~Mounting
    BY <1>0, <2>1, Lone
  <2>9. ASSUME DirInv PROVE DirInv'
    <3>1. geo.dir.disk = dev /\ (dev \in forgotten \/ geo.dir.dir = was[dev])
      BY <2>8, <2>9 DEF DirInv
    <3>2. ASSUME NEW d \in Disks, units'[d].ready
          PROVE  units'[d].geo.dir.disk = d /\ (d \in forgotten \/ units'[d].geo.dir.dir = was[d])
      <4>1. CASE d = dev
        BY <1>3, <3>1, <4>1
      <4>2. CASE d # dev
        BY <1>3, <2>3, <2>9, <3>2, <4>2 DEF DirInv
      <4> QED BY <4>1, <4>2
    <3> QED BY <1>2, <2>5, <3>2 DEF DirInv
  <2> QED BY <1>2, <1>5, <2>5, <2>7, <2>9 DEF Good
<1> QED BY <1>2, <1>4, <1>5 DEF VolInv, Good

LEMMA RestoresBpbStep ==
  ASSUME VolInv, NEW h \in Hands, RestoresBpb(h)
  PROVE  VolInv'
<1>0. VolTypes /\ hand[h].at = "restore_bpb" /\ hand[h].to \in Disks
  BY DEF VolInv, VolTypes, RestoresBpb, HandAt
<1>1. /\ hand' \in [Hands -> [at : Stages, to : Disks, from : 0 .. 3, part : {0}, switch : BOOLEAN]]
      /\ hand'[h].at = "restore_rest" /\ hand'[h].to = hand[h].to
      /\ hand'[Other(h)] = hand[Other(h)]
  BY <1>0, Moved DEF RestoresBpb, Stages
<1>2. /\ geo' = [geo EXCEPT !.bpb = units[hand[h].to].geo.bpb]
      /\ UNCHANGED <<dev, units, was, forgotten, failed, overlap, strayed>>
  BY DEF RestoresBpb
<1>3. geo' \in Geos /\ geo'.bpb = units[hand[h].to].geo.bpb
  BY <1>0, <1>2 DEF VolTypes, Geos
<1>4. VolTypes'
  BY <1>0, <1>1, <1>2, <1>3 DEF VolTypes
<1>5. ASSUME Good PROVE Good'
  <2>1. hand[Other(h)].at = "idle"
    BY <1>0, <1>5, AloneInside DEF Good, Busy
  <2>2. units[hand[h].to].ready /\ dev = hand[h].to
    BY <1>0, <1>5 DEF Good, HomeInv, OnCourse
  <2>3. geo'.bpb = hand[h].to
    BY <1>0, <1>3, <1>5, <2>2 DEF Good, HomeInv, Own
  <2>4. OnCourse(h)'
    BY <1>1, <1>2, <2>2, <2>3 DEF OnCourse
  <2>5. /\ Restoring' /\ OneHand' /\ \A g \in Hands : OnCourse(g)'
    BY <1>1, <2>1, <2>4, LoneAfter
  <2>6. HomeInv'
    BY <1>2, <1>5, <2>5 DEF Good, HomeInv
  <2>7. Restoring
    BY <1>0, <2>1, Lone
  <2>8. ASSUME DirInv PROVE DirInv'
    BY <1>2, <2>5, <2>7, <2>8 DEF DirInv
  <2> QED BY <1>2, <1>5, <2>5, <2>6, <2>8 DEF Good
<1> QED BY <1>2, <1>4, <1>5 DEF VolInv, Good

LEMMA RestoresRestStep ==
  ASSUME VolInv, NEW h \in Hands, RestoresRest(h)
  PROVE  VolInv'
<1> DEFINE d == hand[h].to
           saved == units[d].geo
<1>0. VolTypes /\ hand[h].at = "restore_rest" /\ d \in Disks /\ saved \in Geos
  BY DEF VolInv, VolTypes, RestoresRest, HandAt
<1>1. /\ hand' \in [Hands -> [at : Stages, to : Disks, from : 0 .. 3, part : {0}, switch : BOOLEAN]]
      /\ hand'[h].at = "idle" /\ hand'[Other(h)] = hand[Other(h)]
  BY <1>0, Dropped DEF RestoresRest
<1>2. /\ geo' = [saved EXCEPT !.bpb = geo.bpb]
      /\ was' = IF d \in forgotten THEN [was EXCEPT ![d] = saved.dir.dir] ELSE was
      /\ forgotten' = forgotten \ {d}
      /\ UNCHANGED <<dev, units, failed, overlap, strayed>>
  BY DEF RestoresRest
<1>3. /\ geo' \in Geos /\ geo'.bpb = geo.bpb /\ geo'.off = saved.off /\ geo'.fat = saved.fat
      /\ geo'.dir = saved.dir /\ saved.dir.dir \in Dirs \cup {RootDir}
  BY <1>0, <1>2 DEF VolTypes, Geos
<1>4. /\ was' \in [Disks -> Dirs \cup {RootDir}]
      /\ was'[d] = IF d \in forgotten THEN saved.dir.dir ELSE was[d]
      /\ \A e \in Disks : e # d => was'[e] = was[e]
  BY <1>0, <1>2, <1>3 DEF VolTypes
<1>5. VolTypes'
  BY <1>0, <1>1, <1>2, <1>3, <1>4 DEF VolTypes
<1>6. ASSUME Good PROVE Good'
  <2>1. hand[Other(h)].at = "idle"
    BY <1>0, <1>6, AloneInside DEF Good, Busy
  <2>2. units[d].ready /\ dev = d /\ geo.bpb = d
    BY <1>0, <1>6 DEF Good, HomeInv, OnCourse
  <2>3. Own(geo', d)
    BY <1>0, <1>3, <1>6, <2>2 DEF Good, HomeInv, Own
  <2>4. OnCourse(h)'
    BY <1>1 DEF OnCourse
  <2>5. /\ ~Restoring' /\ OneHand' /\ \A g \in Hands : OnCourse(g)'
    BY <1>1, <2>1, <2>4, LoneAfter
  <2>6. HomeInv'
    BY <1>2, <1>6, <2>2, <2>3, <2>5 DEF Good, HomeInv
  <2>7. Restoring
    BY <1>0, <2>1, Lone
  <2>8. ASSUME DirInv PROVE DirInv'
    <3>1. saved.dir.disk = d /\ (d \in forgotten \/ saved.dir.dir = was[d])
      BY <1>0, <2>2, <2>7, <2>8 DEF DirInv
    <3>2. geo'.dir.disk = d /\ geo'.dir.dir = was'[d]
      BY <1>3, <1>4, <3>1
    <3> HIDE DEF saved, d
    <3>3. \A e \in Disks : units[e].ready /\ e # d => e \in forgotten' \/ units[e].geo.dir.dir = was'[e]
      BY <1>2, <1>4, <2>7, <2>8 DEF DirInv
    <3> QED BY <1>2, <2>2, <2>3, <2>5, <2>8, <3>2, <3>3 DEF DirInv
  <2> QED BY <1>2, <1>6, <2>5, <2>6, <2>8 DEF Good
<1> QED BY <1>2, <1>5, <1>6 DEF VolInv, Good

\* A call begins: it overlaps another's, or its actor is alone.
LEMMA AsksStep ==
  ASSUME VolInv, NEW h \in Hands, NEW d \in Disks, NEW switch \in BOOLEAN,
         switch \/ d # 0, Asks(h, d, switch)
  PROVE  VolInv'
<1>0. VolTypes /\ hand[h].at = "idle"
  BY DEF VolInv, Asks, HandAt
<1> DEFINE w == IF switch /\ units[d].ready THEN "switch" ELSE "mount"
<1>1. /\ [NoHand EXCEPT !.to = d, !.switch = switch, !.at = w]
           \in [at : Stages, to : Disks, from : 0 .. 3, part : {0}, switch : BOOLEAN]
      /\ [NoHand EXCEPT !.to = d, !.switch = switch, !.at = w].at = w
      /\ [NoHand EXCEPT !.to = d, !.switch = switch, !.at = w].to = d
  BY DiskSet DEF NoHand, Stages
<1>2. /\ hand' \in [Hands -> [at : Stages, to : Disks, from : 0 .. 3, part : {0}, switch : BOOLEAN]]
      /\ hand'[h].at = w /\ hand'[h].to = d
      /\ hand'[Other(h)] = hand[Other(h)]
  BY <1>0, <1>1, Others DEF Asks, HandGoes, VolTypes
<1>3. /\ overlap' = (overlap \/ Busy(Other(h)))
      /\ UNCHANGED <<dev, geo, units, was, forgotten, failed, strayed>>
  BY DEF Asks
<1>4. VolTypes'
  BY <1>0, <1>2, <1>3 DEF VolTypes
<1>5. ASSUME Good, ~overlap' PROVE Good'
  <2>1. hand[Other(h)].at = "idle"
    BY <1>3, <1>5 DEF Busy
  <2>2. w = "mount" => d # 0
    BY <1>5 DEF Good, HomeInv
  <2>3. OnCourse(h)'
    BY <1>2, <1>3, <2>2 DEF OnCourse
  <2>4. /\ ~Restoring' /\ ~Mounting' /\ OneHand' /\ \A g \in Hands : OnCourse(g)'
    BY <1>2, <2>1, <2>3, LoneAfter
  <2>5. ~Restoring /\ ~Mounting
    BY <1>0, <2>1, Lone
  <2>6. HomeInv'
    BY <1>3, <1>5, <2>4, <2>5 DEF Good, HomeInv
  <2>7. ASSUME DirInv PROVE DirInv'
    BY <1>3, <2>4, <2>5, <2>7 DEF DirInv
  <2> QED BY <1>3, <1>5, <2>4, <2>6, <2>7 DEF Good
<1> QED BY <1>3, <1>4, <1>5 DEF VolInv, Good

LEMMA OpensStep ==
  ASSUME VolInv, NEW h \in Hands, Opens(h)
  PROVE  VolInv'
<1>0. VolTypes /\ hand[h].at = "idle"
  BY DEF VolInv, Opens, HandAt
<1>1. Source \in 0 .. 3
  BY <1>0, DiskSet DEF Source, VolTypes
<1>2. /\ [NoHand EXCEPT !.at = "work", !.from = Source]
           \in [at : Stages, to : Disks, from : 0 .. 3, part : {0}, switch : BOOLEAN]
      /\ [NoHand EXCEPT !.at = "work", !.from = Source].at = "work"
      /\ [NoHand EXCEPT !.at = "work", !.from = Source].from = Source
  BY <1>1, DiskSet DEF NoHand, Stages
<1>3. /\ hand' \in [Hands -> [at : Stages, to : Disks, from : 0 .. 3, part : {0}, switch : BOOLEAN]]
      /\ hand'[h].at = "work" /\ hand'[h].from = Source
      /\ hand'[Other(h)] = hand[Other(h)]
  BY <1>0, <1>2, Others DEF Opens, HandGoes, VolTypes
<1>4. /\ overlap' = (overlap \/ Busy(Other(h)))
      /\ UNCHANGED <<dev, geo, units, was, forgotten, failed, strayed>>
  BY DEF Opens
<1>5. VolTypes'
  BY <1>0, <1>3, <1>4 DEF VolTypes
<1>6. ASSUME Good, ~overlap' PROVE Good'
  <2>1. hand[Other(h)].at = "idle"
    BY <1>4, <1>6 DEF Busy
  <2>2. OnCourse(h)'
    BY <1>3, <1>4 DEF OnCourse, Source
  <2>3. /\ ~Restoring' /\ ~Mounting' /\ OneHand' /\ \A g \in Hands : OnCourse(g)'
    BY <1>3, <2>1, <2>2, LoneAfter
  <2>4. ~Restoring /\ ~Mounting
    BY <1>0, <2>1, Lone
  <2>5. HomeInv'
    BY <1>4, <1>6, <2>3, <2>4 DEF Good, HomeInv
  <2>6. ASSUME DirInv PROVE DirInv'
    BY <1>4, <2>3, <2>4, <2>6 DEF DirInv
  <2> QED BY <1>4, <1>6, <2>3, <2>5, <2>6 DEF Good
<1> QED BY <1>4, <1>5, <1>6 DEF VolInv, Good

\* A sector of C: is written at an address the geometry of C: gives.
LEMMA WritesSectorStep ==
  ASSUME VolInv, NEW h \in Hands, WritesSector(h)
  PROVE  VolInv'
<1>0. VolTypes /\ hand[h].at = "work"
  BY DEF VolInv, WritesSector, HandAt
<1>1. /\ strayed' = (strayed \/ (dev = 0 /\ (Source # 0 \/ hand[h].from # 0)))
      /\ UNCHANGED <<dev, geo, units, hand, was, forgotten, failed, overlap>>
  BY DEF WritesSector
<1>2. VolTypes'
  BY <1>0, <1>1 DEF VolTypes
<1>3. ASSUME Good PROVE Good'
  <2>1. hand[Other(h)].at = "idle"
    BY <1>0, <1>3, AloneInside DEF Good, Busy
  <2>2. ~Restoring
    BY <1>0, <2>1, Lone
  <2>3. dev = 0 => Source = 0
    BY <1>3, <2>2 DEF Good, HomeInv, Own, Source
  <2>4. hand[h].from = Source
    BY <1>0, <1>3 DEF Good, HomeInv, OnCourse
  <2>5. ~strayed'
    BY <1>1, <1>3, <2>3, <2>4 DEF Good, HomeInv
  <2>6. OneHand'
    BY <1>1, <1>3 DEF Good, OneHand, Busy
  <2>7. HomeInv'
    BY <1>1, <1>3, <2>5 DEF Good, HomeInv, OnCourse, Restoring, Source
  <2>8. ASSUME DirInv PROVE DirInv'
    BY <1>1, <2>8 DEF DirInv, Restoring, Mounting
  <2> QED BY <1>1, <1>3, <2>6, <2>7, <2>8 DEF Good
<1> QED BY <1>1, <1>2, <1>3 DEF VolInv, Good

LEMMA ClosesStep ==
  ASSUME VolInv, NEW h \in Hands, Closes(h)
  PROVE  VolInv'
<1>0. VolTypes /\ hand[h].at = "work"
  BY DEF VolInv, Closes, HandAt
<1>1. /\ hand' \in [Hands -> [at : Stages, to : Disks, from : 0 .. 3, part : {0}, switch : BOOLEAN]]
      /\ hand'[h].at = "idle" /\ hand'[Other(h)] = hand[Other(h)]
  BY <1>0, Dropped DEF Closes
<1>2. UNCHANGED <<dev, geo, units, was, forgotten, failed, overlap, strayed>>
  BY DEF Closes
<1>3. VolTypes'
  BY <1>0, <1>1, <1>2 DEF VolTypes
<1>4. ASSUME Good PROVE Good'
  <2>1. hand[Other(h)].at = "idle"
    BY <1>0, <1>4, AloneInside DEF Good, Busy
  <2>2. OnCourse(h)'
    BY <1>1 DEF OnCourse
  <2>3. /\ ~Restoring' /\ ~Mounting' /\ OneHand' /\ \A g \in Hands : OnCourse(g)'
    BY <1>1, <2>1, <2>2, LoneAfter
  <2>4. ~Restoring /\ ~Mounting
    BY <1>0, <2>1, Lone
  <2>5. HomeInv'
    BY <1>2, <1>4, <2>3, <2>4 DEF Good, HomeInv
  <2>6. ASSUME DirInv PROVE DirInv'
    BY <1>2, <2>3, <2>4, <2>6 DEF DirInv
  <2> QED BY <1>2, <1>4, <2>3, <2>5, <2>6 DEF Good
<1> QED BY <1>2, <1>3, <1>4 DEF VolInv, Good

LEMMA ChangesDirStep ==
  ASSUME VolInv, NEW h \in Hands, ChangesDir(h)
  PROVE  VolInv'
<1>0. VolTypes /\ hand[h].at = "work" /\ hand[h].from \in Disks
  BY DEF VolInv, ChangesDir, HandAt
<1>1. /\ hand' \in [Hands -> [at : Stages, to : Disks, from : 0 .. 3, part : {0}, switch : BOOLEAN]]
      /\ hand'[h].at = "idle" /\ hand'[Other(h)] = hand[Other(h)]
  BY <1>0, Dropped DEF ChangesDir
<1>2. UNCHANGED <<dev, units, forgotten, failed, overlap, strayed>>
  BY DEF ChangesDir
<1>3. PICK c \in Dirs \cup {RootDir} :
        /\ geo' = [geo EXCEPT !.dir = Place(hand[h].from, c)]
        /\ was' = [was EXCEPT ![hand[h].from] = c]
  BY DEF ChangesDir
<1>4. /\ geo' \in Geos /\ geo'.bpb = geo.bpb /\ geo'.off = geo.off /\ geo'.fat = geo.fat
      /\ geo'.dir.disk = hand[h].from /\ geo'.dir.dir = c
      /\ was' \in [Disks -> Dirs \cup {RootDir}]
      /\ was'[hand[h].from] = c /\ \A d \in Disks : d # hand[h].from => was'[d] = was[d]
  BY <1>0, <1>3 DEF VolTypes, Geos, Place
<1>5. VolTypes'
  BY <1>0, <1>1, <1>2, <1>4 DEF VolTypes
<1>6. ASSUME Good PROVE Good'
  <2>1. hand[Other(h)].at = "idle"
    BY <1>0, <1>6, AloneInside DEF Good, Busy
  <2>2. OnCourse(h)'
    BY <1>1 DEF OnCourse
  <2>3. /\ ~Restoring' /\ ~Mounting' /\ OneHand' /\ \A g \in Hands : OnCourse(g)'
    BY <1>1, <2>1, <2>2, LoneAfter
  <2>4. ~Restoring /\ ~Mounting
    BY <1>0, <2>1, Lone
  <2>5. HomeInv'
    BY <1>2, <1>4, <1>6, <2>3, <2>4 DEF Good, HomeInv, Own
  <2>6. hand[h].from = dev
    <3>1. hand[h].from = Source
      BY <1>0, <1>6 DEF Good, HomeInv, OnCourse
    <3>2. Source # 3
      BY <1>0, <3>1, DiskSet
    <3> QED BY <3>1, <3>2 DEF Source
  <2>7. ASSUME DirInv PROVE DirInv'
    BY <1>2, <1>4, <2>3, <2>4, <2>6, <2>7 DEF DirInv, Own
  <2> QED BY <1>2, <1>6, <2>3, <2>5, <2>7 DEF Good
<1> QED BY <1>2, <1>5, <1>6 DEF VolInv, Good

LEMMA StepHolds == VolInv /\ [VolNext]_volvars => VolInv'
<1> SUFFICES ASSUME VolInv, [VolNext]_volvars PROVE VolInv'
  OBVIOUS
<1>1. CASE UNCHANGED volvars
  BY <1>1 DEF volvars, VolInv, VolTypes, OneHand, Busy, HomeInv, OnCourse, Own, Source,
              Restoring, DirInv, Mounting
<1>2. ASSUME NEW h \in Hands, NEW d \in Disks, d # 0 \/ units[0].ready, Asks(h, d, TRUE)
      PROVE  VolInv'
  BY <1>2, AsksStep
<1>3. ASSUME NEW h \in Hands, Asks(h, 1, FALSE)
      PROVE  VolInv'
  <2>1. FALSE \in BOOLEAN /\ 1 \in Disks /\ (FALSE \/ 1 # 0)
    BY DiskSet
  <2> QED BY ONLY VolInv, h \in Hands, <1>3, <2>1, AsksStep, Zenon
<1> QED BY <1>1, <1>2, <1>3, MountsStep, MountFailsStep, MountReadsStep, MountSetsStep,
           MountSavesStep, SwitchSavesStep, RestoresBpbStep, RestoresRestStep, OpensStep,
           WritesSectorStep, ClosesStep, ChangesDirStep DEF VolNext

-----------------------------------------------------------------------------

\* Every reachable state satisfies the inductive invariant.
THEOREM VolumesInvariant == VolSpec => []VolInv
<1>1. VolInit => VolInv
  BY InitHolds
<1>2. VolInv /\ [VolNext]_volvars => VolInv'
  BY StepHolds
<1> QED BY <1>1, <1>2, PTL DEF VolSpec

\* fat32_mudar_disco_ativo and fat32_mount: without an overlap C: is written with its own
\* geometry only, after any sequence of switches, mounts and failed mounts, and until a mount
\* fails whoever comes back to a drive is in the directory they left, but for the drive a
\* mount made them leave.
THEOREM DrivesAreKept == VolSpec => []VolumesKept
<1>1. VolInv => VolumesKept
  <2> SUFFICES ASSUME VolInv PROVE VolumesKept
    OBVIOUS
  <2>1. WritesHome
    BY DEF VolInv, HomeInv, WritesHome
  <2>2. DirKept
    <3> SUFFICES ASSUME ~overlap, ~failed, \A h \in Hands : ~Busy(h)
                 PROVE  /\ \A p \in {"bpb", "off", "fat"} : geo[p] = dev
                        /\ geo.dir.disk = dev
                        /\ dev \in forgotten \/ geo.dir.dir = was[dev]
      BY DEF DirKept
    <3>1. ~Restoring /\ ~Mounting
      BY DEF Busy, Restoring, Mounting
    <3> QED BY <3>1 DEF VolInv, DirInv, Own
  <2> QED BY <2>1, <2>2 DEF VolumesKept
<1> QED BY <1>1, VolumesInvariant, PTL

-----------------------------------------------------------------------------
(***************************************************************************)
(* The pendrive, for any threads, sectors, lengths and numbers of tries.   *)
(*                                                                         *)
(* A read's answer is its own, or there is nothing it could take for it    *)
(* (Reading).  While the program's call is in the middle of a command,     *)
(* either all it needs is there and in step (Clean), or something of it is *)
(* missing for good (Short) and the pendrive refuses the command a thread  *)
(* was offering when the program came (Refused); between the program's     *)
(* commands the thread's offer keeps the toggle it was made with (Ready).  *)
(* Alone and without a failure, driver and pendrive agree at every point   *)
(* of a call (Rest).                                                       *)
(*                                                                         *)
(* r is what a caller is doing, h the driver's globals, p the pendrive; a  *)
(* is what the program's call is doing.  A step is classified by what it   *)
(* does to r, h and p (Driver, Controller, Retries), the lemmas about the  *)
(* parts of the invariant are about those classes, and every action of     *)
(* the model is shown to be of one (Moves).                                *)
(***************************************************************************)

Kernel == Users \ {App}
Sent(r) == IF r.waking THEN 1 ELSE r.n
Item(r) == IF r.waking THEN Capacity ELSE "data"

\* The answer to a CBW, or what is left of it: its packets and the status.
Shaped(item, q) ==
  /\ Len(q) > 0 /\ q[Len(q)] = "csw"
  /\ \A i \in 1 .. Len(q) - 1 : q[i] = item

Left(q) == Len(q)

\* Where a caller waits for an answer, or has part of one.
Asked(r) == (r.step = "cbw" /\ r.at = "done") \/ (r.step = "data" /\ r.at \in {"insert", "wait"})
Given(r) == (r.step = "data" /\ r.at = "done") \/ (r.step = "csw" /\ r.at \in {"insert", "wait"})
Mid(r) == (r.step = "cbw" /\ r.at = "done") \/ r.step = "data" \/ (r.step = "csw" /\ r.at # "done")
Offers(r) == r.step = "cbw" /\ r.at = "wait"

\* What a read has is its own, or there is nothing it could take for the rest.
Reading(r, q, b) ==
  ~r.waking =>
    /\ Asked(r) => Left(q) = 0 \/ (b = r.block /\ Shaped(Item(r), q))
    /\ Given(r) => Left(q) = 0 \/ r.data = r.block
    /\ r.step = "csw" /\ r.at = "done" => r.data = r.block

InStep(h, p) == h.out = p.out /\ h.in = p.in
OutStep(r, h, p) == p.out = (IF r.step = "cbw" THEN 1 - h.out ELSE h.out)

\* The command will succeed if nobody takes one of its packets.
Clean(r, h, p) ==
  /\ Shaped(Item(r), p.queue)
  /\ \/ /\ (r.step = "cbw" /\ r.at = "done") \/ (r.step = "data" /\ r.at = "insert")
        /\ p.in = h.in /\ Left(p.queue) = Sent(r) + 1
     \/ /\ r.step = "data" /\ r.at = "wait"
        /\ p.in = r.bit /\ r.bit = (h.in + r.taken) % 2
        /\ r.taken < Sent(r) /\ r.taken + Left(p.queue) = Sent(r) + 1
     \/ /\ r.step = "data" /\ r.at = "done"
        /\ p.in = (h.in + Sent(r)) % 2 /\ Left(p.queue) = 1
     \/ /\ r.step = "csw" /\ r.at = "insert" /\ p.in = h.in /\ Left(p.queue) = 1
     \/ /\ r.step = "csw" /\ r.at = "wait" /\ p.in = h.in /\ r.bit = h.in /\ Left(p.queue) = 1

\* It will not: something is missing, or will be thrown away.
Short(r, h, p) ==
  /\ r.at \in {"insert", "wait", "done"}
  /\ \/ Left(p.queue) = 0
     \/ /\ Shaped(Item(r), p.queue)
        /\ \/ /\ (r.step = "cbw" /\ r.at = "done") \/ (r.step = "data" /\ r.at = "insert")
              /\ Left(p.queue) <= Sent(r) \/ (Left(p.queue) = Sent(r) + 1 /\ p.in # h.in)
           \/ /\ r.step = "data" /\ r.at = "wait"
              /\ \/ r.taken + Left(p.queue) <= Sent(r)
                 \/ /\ r.taken + Left(p.queue) = Sent(r) + 1 /\ p.in # r.bit
                    /\ r.taken < Sent(r) /\ r.bit = (h.in + r.taken) % 2
           \/ /\ r.step = "data" /\ r.at = "done" /\ Left(p.queue) = 1
              /\ p.in # (h.in + Sent(r)) % 2
           \/ /\ r.step = "csw" /\ r.at = "insert" /\ Left(p.queue) = 1 /\ p.in # h.in
           \/ /\ r.step = "csw" /\ r.at = "wait" /\ Left(p.queue) = 1
              /\ p.in # r.bit /\ r.bit = h.in

Refused(r, p) == Offers(r) => r.bit # p.out

\* A kernel thread's CBW offered while a program's call is at a.
Ready(r, a, h, p) ==
  Offers(r) =>
    IF a.step = "config" /\ a.at = "done" THEN p.out = 0 /\ p.in = 0
    ELSE IF a.step = "csw" THEN p.out = h.out /\ p.in = 1 - h.in
    ELSE r.bit = h.out \/ InStep(h, p)

Beside(r, a, h, p) ==
  /\ Offers(a) => a.bit = h.out
  /\ Mid(a) => \/ /\ Clean(a, h, p) /\ Reading(r, << >>, p.block)
                  /\ Offers(r) => OutStep(a, h, p)
               \/ Short(a, h, p) /\ Refused(r, p)
  /\ ~Mid(a) => Reading(r, p.queue, p.block) /\ Ready(r, a, h, p)

\* One caller, no failure.
Rest(r, h, p) ==
  IF r.step = "config" /\ r.at = "done" THEN Left(p.queue) = 0 /\ p.out = 0 /\ p.in = 0
  ELSE IF r.step = "cbw" /\ r.at # "done"
  THEN /\ Left(p.queue) = 0 /\ (Offers(r) => r.bit = h.out)
       /\ p.set => InStep(h, p) /\ (p.ends = Pairs[h.pair] \/ (r.waking /\ h.pair = 1))
  ELSE IF (r.step = "cbw" /\ r.at = "done") \/ (r.step = "data" /\ r.at # "done")
  THEN /\ Clean(r, h, p) /\ OutStep(r, h, p) /\ p.set
       /\ p.ends = Pairs[h.pair] \/ (r.waking /\ h.pair = 1 /\ p.ends[1] = 1)
  ELSE IF r.step = "csw" /\ r.at = "done"
  THEN p.set /\ Left(p.queue) = 0 /\ p.out = h.out /\ p.in = 1 - h.in /\ p.ends = Pairs[h.pair]
  ELSE IF r.step \in {"data", "csw"}
  THEN Clean(r, h, p) /\ OutStep(r, h, p) /\ p.set /\ p.ends = Pairs[h.pair]
  ELSE Left(p.queue) = 0 /\ (p.set => InStep(h, p) /\ p.ends = Pairs[h.pair])



UsbTruth == crossed \/ (mixed /\ upset) \/ ~lied
UsbSolo  == ~mixed => \A c \in Users : Reading(usbcall[c], pen.queue, pen.block)
UsbBeside ==
  ~upset /\ ~crossed =>
    /\ Reading(usbcall[App], pen.queue, pen.block)
    /\ \A k \in Kernel : Beside(usbcall[k], usbcall[App], host, pen)
UsbCalm == ~mixed /\ ~upset => \A c \in Users : Alone(c) => Rest(usbcall[c], host, pen)
Listed(r) == r.at \in {"wait", "done", "bad"} \/ r.step \in {"cbw", "data", "csw"}
UsbListed ==
  /\ host.lazy => host.list
  /\ \A c \in Users : Listed(usbcall[c]) => host.list
UsbFew ==
  /\ ~mixed => \A c, d \in Users : usbcall[c].at # "idle" /\ usbcall[d].at # "idle" => c = d
  /\ ~crossed => \A c, d \in Kernel : usbcall[c].at # "idle" /\ usbcall[d].at # "idle" => c = d

Transfers ==
  [at : {"idle", "core", "list", "ident", "insert", "wait", "done", "bad"},
   job : {"none", "read", "ehci", "switch"}, waking : BOOLEAN, tries : 0 .. Tries,
   step : {"none", "config", "cbw", "data", "csw"}, block : Blocks \cup {"none"}, n : Nat,
   data : Blocks \cup {"none", "garbled", Capacity}, bit : 0 .. 1, taken : Nat]

Placed(r) ==
  /\ r.at \in {"idle", "core", "list", "ident"} <=> r.step = "none"
  /\ r.step = "config" => r.waking /\ r.at # "bad" /\ r.tries = 0
  /\ r.step = "none" => ~r.waking
  /\ r.at = "bad" => r.step = "csw"
  /\ r.at \in {"core", "list", "ident"} => r.job \in {"ehci", "switch"}
  /\ r.job = "read" => r.n > 0
  /\ r.step \in {"cbw", "data", "csw"} /\ ~r.waking => r.job = "read"

Hosts == [engine : BOOLEAN, list : BOOLEAN, lazy : BOOLEAN, woken : BOOLEAN,
          pair : 1 .. 3, out : 0 .. 1, in : 0 .. 1]
Pens == [addr : 0 .. 1, set : BOOLEAN, ends : {Pairs[i] : i \in 1 .. 3}, out : 0 .. 1, in : 0 .. 1,
         queue : Seq({"data", "csw", Capacity}), block : Blocks \cup {"none", Capacity}]

UsbTypes ==
  /\ host \in Hosts /\ pen \in Pens
  /\ ring \in [Users \cup {"head"} -> Users \cup {"head"}]
  /\ usbcall \in [Users -> Transfers]
  /\ \A c \in Users : Placed(usbcall[c])
  /\ upset \in BOOLEAN /\ mixed \in BOOLEAN /\ crossed \in BOOLEAN /\ lied \in BOOLEAN

UsbInv ==
  /\ UsbTypes /\ UsbFew /\ UsbListed
  /\ UsbTruth /\ UsbSolo /\ UsbBeside /\ UsbCalm

-----------------------------------------------------------------------------
(* What a step does to r, h and p, as far as the invariant sees it. *)

SameHost(h, h2) == h2.pair = h.pair /\ h2.out = h.out /\ h2.in = h.in
SamePen(p, p2) ==
  /\ p2.out = p.out /\ p2.in = p.in /\ p2.queue = p.queue /\ p2.block = p.block /\ p2.ends = p.ends
  /\ p2.set <=> p.set
Kin(r, r2) ==
  /\ r2.block = r.block /\ Sent(r2) = Sent(r) /\ Item(r2) = Item(r)
  /\ r2.waking <=> r.waking

Idles(r, h, p, r2, h2, p2) ==
  /\ r.step = "none" /\ SameHost(h, h2) /\ SamePen(p, p2)
  /\ \/ r2.step = "none"
     \/ r2.step = "config" /\ r2.at = "insert"
     \/ r2.step = "cbw" /\ r2.at = "insert" /\ ~r2.waking

Resets(r, h, p, r2, h2, p2) ==
  /\ r.step = "none" /\ r2.step = "none" /\ SameHost(h, h2)
  /\ Left(p2.queue) = 0 /\ ~p2.set
  /\ p2.out = p.out /\ p2.in = p.in /\ p2.block = p.block /\ p2.ends = p.ends

Quits(r, h, p, r2, h2, p2) ==
  /\ r.step = "config" /\ r.at = "insert" /\ r2.step = "none"
  /\ SameHost(h, h2) /\ SamePen(p, p2)

Retries(r, h, p, r2, h2, p2) ==
  /\ r2.step = "none" \/ (r2.step = "cbw" /\ r2.at = "insert")
  /\ SamePen(p, p2)

Links(r, h, p, r2, h2, p2) ==
  /\ r.at = "insert" /\ r2.at = "wait" /\ r2.step = r.step /\ Kin(r, r2) /\ r2.data = r.data
  /\ r2.bit = (IF r.step \in {"data", "csw"} THEN h.in ELSE h.out) /\ r2.taken = 0
  /\ SameHost(h, h2) /\ SamePen(p, p2)

Wakens(r, h, p, r2, h2, p2) ==
  /\ r.step = "config" /\ r.at = "done" /\ r2.step = "cbw" /\ r2.at = "insert" /\ r2.waking
  /\ h2.pair = 1 /\ h2.out = 0 /\ h2.in = 0 /\ SamePen(p, p2)

EndsCbw(r, h, p, r2, h2, p2) ==
  /\ r.step = "cbw" /\ r.at = "done" /\ r2.step = "data" /\ r2.at = "insert" /\ Kin(r, r2)
  /\ h2.pair = h.pair /\ h2.out = 1 - h.out /\ h2.in = h.in /\ SamePen(p, p2)

EndsData(r, h, p, r2, h2, p2) ==
  /\ r.step = "data" /\ r.at = "done" /\ r2.step = "csw" /\ r2.at = "insert" /\ Kin(r, r2)
  /\ r2.data = r.data
  /\ h2.pair = h.pair /\ h2.out = h.out /\ h2.in = (h.in + Sent(r)) % 2 /\ SamePen(p, p2)

EndsCsw(r, h, p, r2, h2, p2) ==
  /\ r.step = "csw" /\ r.at = "done"
  /\ r2.step = "none" \/ (r2.step = "cbw" /\ r2.at = "insert" /\ ~r2.waking)
  /\ h2.pair = h.pair /\ h2.out = h.out /\ h2.in = 1 - h.in /\ SamePen(p, p2)

Configures(r, h, p, r2, h2, p2) ==
  /\ r.step = "config" /\ r.at = "wait" /\ r2.step = "config" /\ r2.at = "done"
  /\ p2.set /\ p2.out = 0 /\ p2.in = 0 /\ (p2.queue = p.queue \/ Left(p2.queue) = 0)
  /\ p2.block = p.block /\ p2.ends = p.ends /\ SameHost(h, h2)

Reached(h, p, end) == p.set /\ p.ends[end] = Pairs[h.pair][end]

Drops(r, h, p, r2, h2, p2) ==
  /\ r.step = "cbw" /\ r.at = "wait" /\ r2.step = "cbw" /\ r2.at = "done" /\ Kin(r, r2)
  /\ Reached(h, p, 1) /\ Left(p.queue) = 0 /\ r.bit # p.out
  /\ SameHost(h, h2) /\ SamePen(p, p2)

Takes(r, h, p, r2, h2, p2) ==
  /\ r.step = "cbw" /\ r.at = "wait" /\ r2.step = "cbw" /\ r2.at = "done" /\ Kin(r, r2)
  /\ Reached(h, p, 1) /\ Left(p.queue) = 0 /\ r.bit = p.out
  /\ p2.out = 1 - p.out /\ p2.in = p.in /\ Shaped(Item(r), p2.queue) /\ Left(p2.queue) = Sent(r) + 1
  /\ ~r.waking => p2.block = r.block
  /\ p2.set /\ p2.ends = p.ends /\ SameHost(h, h2)

\* A packet leaves the queue.
Pops(h, p, h2, p2) ==
  /\ Reached(h, p, 2) /\ Left(p.queue) > 0
  /\ p2.queue = Tail(p.queue) /\ p2.in = 1 - p.in
  /\ p2.out = p.out /\ p2.block = p.block /\ p2.set /\ p2.ends = p.ends /\ SameHost(h, h2)

Loses(r, h, p, r2, h2, p2) ==
  /\ r.step \in {"data", "csw"} /\ r.at = "wait" /\ r2 = r /\ r.bit # p.in
  /\ Pops(h, p, h2, p2)

Gets(r, h, p, r2, h2, p2) ==
  /\ r.step \in {"data", "csw"} /\ r.at = "wait" /\ r2.step = r.step /\ Kin(r, r2) /\ r.bit = p.in
  /\ r2.bit = 1 - r.bit /\ r2.taken = r.taken + 1
  /\ r.step = "data" =>
       /\ Head(p.queue) # "csw" => r2.data = p.block
       /\ r2.at = (IF Head(p.queue) = "data" /\ r.taken + 1 < Sent(r) THEN "wait" ELSE "done")
  /\ r.step = "csw" =>
       r2.data = r.data /\ r2.at = (IF Head(p.queue) = "csw" THEN "done" ELSE "bad")
  /\ Pops(h, p, h2, p2)

Driver(r, h, p, r2, h2, p2) ==
  \/ Idles(r, h, p, r2, h2, p2) \/ Resets(r, h, p, r2, h2, p2) \/ Quits(r, h, p, r2, h2, p2)
  \/ Links(r, h, p, r2, h2, p2) \/ Wakens(r, h, p, r2, h2, p2)
  \/ EndsCbw(r, h, p, r2, h2, p2) \/ EndsData(r, h, p, r2, h2, p2) \/ EndsCsw(r, h, p, r2, h2, p2)

Controller(r, h, p, r2, h2, p2) ==
  \/ Configures(r, h, p, r2, h2, p2) \/ Drops(r, h, p, r2, h2, p2) \/ Takes(r, h, p, r2, h2, p2)
  \/ Loses(r, h, p, r2, h2, p2) \/ Gets(r, h, p, r2, h2, p2)

\* The ranges the arithmetic needs.
Ranged(r, h, p) ==
  /\ h.out \in 0 .. 1 /\ h.in \in 0 .. 1 /\ p.out \in 0 .. 1 /\ p.in \in 0 .. 1
  /\ r.bit \in 0 .. 1 /\ r.taken \in Nat
  /\ r.step \in {"cbw", "data", "csw"} => Sent(r) \in Nat /\ Sent(r) > 0
  /\ Item(r) \in {"data", Capacity}
  /\ Item(r) # "data" => Sent(r) = 1
  /\ p.queue \in Seq({"data", "csw", Capacity}) /\ Left(p.queue) \in Nat

-----------------------------------------------------------------------------
LEMMA Parity ==
  ASSUME NEW x \in Nat, NEW y \in Nat
  PROVE  1 - ((x + y) % 2) = (x + (y + 1)) % 2
<1>1. (x + y) \in Nat /\ x + (y + 1) = (x + y) + 1
  OBVIOUS
<1> QED BY <1>1, Z3

\* Of naturals: the packets taken, left and sent.
LEMMA OneTaken ==
  ASSUME NEW t \in Nat, NEW l \in Nat, NEW n \in Nat, t < n, t + l = n + 1
  PROVE  l > 1 /\ (t + 1) + (l - 1) = n + 1 /\ t + 1 <= n /\ (t + 1 = n => l - 1 = 1)
OBVIOUS

LEMMA OneLess ==
  ASSUME NEW m, NEW n \in Nat, n > 0, m = n - 1
  PROVE  n # 0 /\ (m = 0 \/ n > 1)
OBVIOUS

LEMMA Popped ==
  ASSUME NEW q \in Seq({"data", "csw", Capacity}), Left(q) > 0, NEW item
  PROVE  /\ Tail(q) \in Seq({"data", "csw", Capacity}) /\ Left(Tail(q)) = Left(q) - 1
         /\ Shaped(item, q) /\ Left(q) = 1 => Head(q) = "csw"
         /\ Shaped(item, q) /\ Left(q) > 1 => Head(q) = item /\ Shaped(item, Tail(q))
<1>1. q # << >> /\ Tail(q) \in Seq({"data", "csw", Capacity}) /\ Len(Tail(q)) = Len(q) - 1
      /\ Head(q) = q[1] /\ Len(q) \in Nat
  BY DEF Left
<1>2. \A i \in 1 .. Len(q) - 1 : Tail(q)[i] = q[i + 1]
  BY <1>1
<1>3. Shaped(item, q) /\ Len(q) = 1 => Head(q) = "csw"
  BY <1>1 DEF Shaped
<1>4. Shaped(item, q) /\ Len(q) > 1 => Head(q) = item /\ Shaped(item, Tail(q))
  BY <1>1, <1>2 DEF Shaped
<1> QED BY <1>1, <1>3, <1>4 DEF Left

\* Own reading.
LEMMA OwnDriver ==
  ASSUME NEW r, NEW h, NEW p, NEW r2, NEW h2, NEW p2,
         Driver(r, h, p, r2, h2, p2), Reading(r, p.queue, p.block)
  PROVE  Reading(r2, p2.queue, p2.block)
<1>1. CASE Idles(r, h, p, r2, h2, p2) \/ Resets(r, h, p, r2, h2, p2) \/ Quits(r, h, p, r2, h2, p2)
           \/ Wakens(r, h, p, r2, h2, p2) \/ EndsCsw(r, h, p, r2, h2, p2)
  BY <1>1 DEF Idles, Resets, Quits, Wakens, EndsCsw, Reading, Asked, Given
<1>2. CASE Links(r, h, p, r2, h2, p2)
  BY <1>2 DEF Links, Kin, SamePen, Reading, Asked, Given
<1>3. CASE EndsCbw(r, h, p, r2, h2, p2) \/ EndsData(r, h, p, r2, h2, p2)
  BY <1>3 DEF EndsCbw, EndsData, Kin, SamePen, Reading, Asked, Given
<1> QED BY <1>1, <1>2, <1>3 DEF Driver

LEMMA OwnRetry ==
  ASSUME NEW r, NEW h, NEW p, NEW r2, NEW h2, NEW p2, Retries(r, h, p, r2, h2, p2)
  PROVE  \A q, b : Reading(r2, q, b)
BY DEF Retries, Reading, Asked, Given

LEMMA OwnController ==
  ASSUME NEW r, NEW h, NEW p, NEW r2, NEW h2, NEW p2, Ranged(r, h, p),
         Controller(r, h, p, r2, h2, p2), Reading(r, p.queue, p.block)
  PROVE  Reading(r2, p2.queue, p2.block)
<1>0. Left(p.queue) \in Nat BY DEF Ranged
<1>1. CASE Configures(r, h, p, r2, h2, p2)
  BY <1>1 DEF Configures, Reading, Asked, Given
<1>2. CASE Drops(r, h, p, r2, h2, p2) \/ Takes(r, h, p, r2, h2, p2)
  BY <1>2 DEF Drops, Takes, Kin, SamePen, Reading, Asked, Given
<1>3. CASE Loses(r, h, p, r2, h2, p2)
  <2>1. p.queue \in Seq({"data", "csw", Capacity}) /\ Left(p.queue) > 0 /\ p2.queue = Tail(p.queue)
        /\ p2.block = p.block /\ r2 = r /\ r.at = "wait"
    BY <1>3 DEF Loses, Pops, Ranged
  <2>2. Left(p2.queue) = Left(p.queue) - 1
        /\ (Shaped(Item(r), p.queue) /\ Left(p.queue) > 1 => Shaped(Item(r), p2.queue))
    BY <2>1, Popped
  <2>3. Left(p.queue) # 0 /\ (Left(p2.queue) = 0 \/ Left(p.queue) > 1)
    <3>1. Left(p.queue) > 0 BY <2>1
    <3>2. Left(p2.queue) = Left(p.queue) - 1 BY <2>2
    <3> QED BY <3>1, <3>2, <1>0, OneLess
  <2>4. Shaped(Item(r), p.queue) => Left(p2.queue) = 0 \/ Shaped(Item(r), p2.queue)
    BY <2>2, <2>3
  <2>5. Reading(r, p2.queue, p2.block)
    <3> HIDE DEF Shaped, Item, Asked, Given
    <3> QED BY <2>1, <2>3, <2>4, Zenon DEF Reading
  <2> QED BY <2>1, <2>5
<1>4. CASE Gets(r, h, p, r2, h2, p2)
  <2>1. p.queue \in Seq({"data", "csw", Capacity}) /\ Left(p.queue) > 0 /\ p2.queue = Tail(p.queue)
        /\ p2.block = p.block
    BY <1>4 DEF Gets, Pops, Ranged
  <2>2. Left(p2.queue) = Left(p.queue) - 1
        /\ (Shaped(Item(r), p.queue) /\ Left(p.queue) = 1 => Head(p.queue) = "csw")
        /\ (Shaped(Item(r), p.queue) /\ Left(p.queue) > 1 =>
              Head(p.queue) = Item(r) /\ Shaped(Item(r), p2.queue))
    BY <2>1, Popped
  <2>3. Item(r) # "csw"
    BY DEF Ranged, Capacity
  <2>4. CASE r.step = "data"
    <3>1. Left(p.queue) # 0 /\ (Left(p2.queue) = 0 \/ Left(p.queue) > 1)
      <4>1. Left(p.queue) > 0 BY <2>1
      <4>2. Left(p2.queue) = Left(p.queue) - 1 BY <2>2
      <4> QED BY <4>1, <4>2, <1>0, OneLess
    <3>2. Shaped(Item(r), p.queue) =>
            Left(p2.queue) = 0 \/ (Head(p.queue) # "csw" /\ Shaped(Item(r), p2.queue))
      BY <2>2, <2>3, <3>1
    <3>3. /\ r2.block = r.block /\ Item(r2) = Item(r) /\ r2.step = "data" /\ r2.at \in {"wait", "done"}
          /\ Head(p.queue) # "csw" => r2.data = p.block
      BY <1>4, <2>4 DEF Gets, Kin
    <3>4. r2.waking <=> r.waking
      BY <1>4 DEF Gets, Kin
    <3>5. Asked(r) /\ r.at = "wait"
      BY <1>4, <2>4 DEF Gets, Asked
    <3>6. ~r.waking => Left(p2.queue) = 0 \/
              (p.block = r.block /\ Shaped(Item(r), p2.queue) /\ r2.data = r.block)
      BY <3>1, <3>2, <3>3, <3>5, Zenon DEF Reading
    <3> QED BY <2>1, <3>3, <3>4, <3>6 DEF Reading, Asked, Given
  <2>5. CASE r.step = "csw"
    BY <1>0, <1>4, <2>1, <2>2, <2>3, <2>5 DEF Gets, Kin, Reading, Asked, Given
  <2> QED BY <1>4, <2>4, <2>5 DEF Gets
<1> QED BY <1>1, <1>2, <1>3, <1>4 DEF Controller

\* Somebody else's step: s reads on.
LEMMA OthersRead ==
  ASSUME NEW r, NEW h, NEW p, NEW r2, NEW h2, NEW p2, NEW s, Ranged(r, h, p),
         Driver(r, h, p, r2, h2, p2) \/ Retries(r, h, p, r2, h2, p2)
           \/ Controller(r, h, p, r2, h2, p2),
         Takes(r, h, p, r2, h2, p2) => ~Mid(s),
         Reading(s, p.queue, p.block)
  PROVE  Reading(s, p2.queue, p2.block)
<1>0. Left(p.queue) \in Nat BY DEF Ranged
<1>1. CASE SamePen(p, p2)
  BY <1>1 DEF SamePen
<1>2. CASE Resets(r, h, p, r2, h2, p2) \/ Configures(r, h, p, r2, h2, p2)
  BY <1>2 DEF Resets, Configures, Reading
<1>3. CASE Takes(r, h, p, r2, h2, p2)
  BY <1>3 DEF Reading, Asked, Given, Mid
<1>4. CASE Pops(h, p, h2, p2)
  <2>1. p.queue \in Seq({"data", "csw", Capacity}) /\ Left(p.queue) > 0 /\ p2.queue = Tail(p.queue)
        /\ p2.block = p.block
    BY <1>4 DEF Pops, Ranged
  <2>2. Left(p2.queue) = Left(p.queue) - 1
        /\ (Shaped(Item(s), p.queue) /\ Left(p.queue) > 1 => Shaped(Item(s), p2.queue))
    BY <2>1, Popped
  <2>3. Left(p.queue) # 0 /\ (Left(p2.queue) = 0 \/ Left(p.queue) > 1)
    <3>1. Left(p.queue) > 0 BY <2>1
    <3>2. Left(p2.queue) = Left(p.queue) - 1 BY <2>2
    <3> QED BY <3>1, <3>2, <1>0, OneLess
  <2>4. Shaped(Item(s), p.queue) => Left(p2.queue) = 0 \/ Shaped(Item(s), p2.queue)
    BY <2>2, <2>3
  <2> QED BY <2>1, <2>3, <2>4, Zenon DEF Reading
<1> QED
  BY <1>1, <1>2, <1>3, <1>4 DEF Driver, Retries, Controller, Idles, Quits, Links, Wakens,
     EndsCbw, EndsData, EndsCsw, Drops, Loses, Gets


-----------------------------------------------------------------------------
(* The command of one caller, and who disturbs it. *)

LEMMA CleanDriver ==
  ASSUME NEW r, NEW h, NEW p, NEW r2, NEW h2, NEW p2, Ranged(r, h, p), Clean(r, h, p)
  PROVE  /\ Links(r, h, p, r2, h2, p2) => Clean(r2, h2, p2)
         /\ EndsCbw(r, h, p, r2, h2, p2) => Clean(r2, h2, p2)
         /\ EndsData(r, h, p, r2, h2, p2) => Clean(r2, h2, p2)
<1> USE DEF Ranged, SameHost, SamePen, Kin
<1>1. ASSUME Links(r, h, p, r2, h2, p2) PROVE Clean(r2, h2, p2)
  BY <1>1 DEF Links, Clean
<1>2. ASSUME EndsCbw(r, h, p, r2, h2, p2) PROVE Clean(r2, h2, p2)
  BY <1>2 DEF EndsCbw, Clean
<1>3. ASSUME EndsData(r, h, p, r2, h2, p2) PROVE Clean(r2, h2, p2)
  BY <1>3 DEF EndsData, Clean
<1> QED BY <1>1, <1>2, <1>3

LEMMA ShortDriver ==
  ASSUME NEW r, NEW h, NEW p, NEW r2, NEW h2, NEW p2, Ranged(r, h, p), Short(r, h, p)
  PROVE  /\ Links(r, h, p, r2, h2, p2) => Short(r2, h2, p2)
         /\ EndsCbw(r, h, p, r2, h2, p2) => Short(r2, h2, p2)
         /\ EndsData(r, h, p, r2, h2, p2) => Short(r2, h2, p2)
<1> USE DEF Ranged, SameHost, SamePen, Kin
<1>1. ASSUME Links(r, h, p, r2, h2, p2) PROVE Short(r2, h2, p2)
  BY <1>1 DEF Links, Short
<1>2. ASSUME EndsCbw(r, h, p, r2, h2, p2) PROVE Short(r2, h2, p2)
  BY <1>2 DEF EndsCbw, Short
<1>3. ASSUME EndsData(r, h, p, r2, h2, p2) PROVE Short(r2, h2, p2)
  BY <1>3 DEF EndsData, Short
<1> QED BY <1>1, <1>2, <1>3

\* The packet that comes, and what is left.
LEMMA PopFacts ==
  ASSUME NEW r, NEW h, NEW p, NEW h2, NEW p2, Ranged(r, h, p), Pops(h, p, h2, p2)
  PROVE  /\ Left(p2.queue) = Left(p.queue) - 1 /\ Left(p.queue) > 0
         /\ Shaped(Item(r), p.queue) /\ Left(p.queue) = 1 => Head(p.queue) = "csw"
         /\ Shaped(Item(r), p.queue) /\ Left(p.queue) > 1
            => Head(p.queue) = Item(r) /\ Shaped(Item(r), p2.queue)
         /\ p2.in = 1 - p.in /\ p2.out = p.out /\ p2.block = p.block
         /\ SameHost(h, h2)
<1>1. p.queue \in Seq({"data", "csw", Capacity}) /\ Left(p.queue) > 0 /\ p2.queue = Tail(p.queue)
  BY DEF Pops, Ranged
<1> QED BY <1>1, Popped DEF Pops

LEMMA CleanGets ==
  ASSUME NEW r, NEW h, NEW p, NEW r2, NEW h2, NEW p2, Ranged(r, h, p), Clean(r, h, p),
         Gets(r, h, p, r2, h2, p2)
  PROVE  \/ r.step = "data" /\ r2.step = "data" /\ Clean(r2, h2, p2)
         \/ /\ r.step = "csw" /\ r2.step = "csw" /\ r2.at = "done"
            /\ Left(p2.queue) = 0 /\ p2.in = 1 - h.in
<1>1. Pops(h, p, h2, p2) BY DEF Gets
<1>2. /\ Left(p2.queue) = Left(p.queue) - 1 /\ Left(p.queue) > 0
      /\ Shaped(Item(r), p.queue) /\ Left(p.queue) = 1 => Head(p.queue) = "csw"
      /\ Shaped(Item(r), p.queue) /\ Left(p.queue) > 1
         => Head(p.queue) = Item(r) /\ Shaped(Item(r), p2.queue)
      /\ p2.in = 1 - p.in
      /\ h2.in = h.in
  BY <1>1, PopFacts DEF SameHost
<1>3. CASE r.step = "data"
  <2>1. /\ r.at = "wait" /\ p.in = r.bit /\ r.bit = (h.in + r.taken) % 2
        /\ r.taken < Sent(r) /\ r.taken + Left(p.queue) = Sent(r) + 1
        /\ Shaped(Item(r), p.queue)
    BY <1>3 DEF Clean, Gets
  <2>2. Left(p.queue) > 1
    BY <2>1, <1>3 DEF Ranged
  <2>3. Head(p.queue) = Item(r) /\ Shaped(Item(r2), p2.queue) /\ Sent(r2) = Sent(r)
    BY <2>1, <2>2, <1>2 DEF Gets, Kin
  <2>4. r2.bit = 1 - r.bit /\ r2.taken = r.taken + 1 /\ r2.step = "data"
        /\ r2.at = (IF Head(p.queue) = "data" /\ r.taken + 1 < Sent(r) THEN "wait" ELSE "done")
    BY <1>3 DEF Gets
  <2>5. p2.in = r2.bit /\ r2.bit = (h2.in + r2.taken) % 2
    <3>1. h.in \in Nat /\ r.taken \in Nat BY DEF Ranged
    <3>2. 1 - ((h.in + r.taken) % 2) = (h.in + (r.taken + 1)) % 2
      BY <3>1, Parity
    <3>3. p2.in = 1 - p.in /\ r2.bit = 1 - r.bit /\ p.in = r.bit /\ r2.bit = 1 - ((h.in + r.taken) % 2)
          /\ h2.in = h.in /\ r2.taken = r.taken + 1
      BY <1>2, <2>1, <2>4
    <3> QED BY <3>2, <3>3
  <2>6. /\ r2.taken + Left(p2.queue) = Sent(r2) + 1 /\ r2.taken <= Sent(r2)
        /\ r2.taken = Sent(r2) => Left(p2.queue) = 1
    <3>1. r.taken \in Nat /\ Left(p.queue) \in Nat /\ Sent(r) \in Nat
      BY <1>3 DEF Ranged
    <3>2. (r.taken + 1) + (Left(p.queue) - 1) = Sent(r) + 1 /\ r.taken + 1 <= Sent(r)
          /\ (r.taken + 1 = Sent(r) => Left(p.queue) - 1 = 1)
      BY <3>1, <2>1, OneTaken
    <3> QED BY <3>2, <1>2, <2>3, <2>4
  <2>7. CASE r2.at = "wait"
    BY <2>3, <2>4, <2>5, <2>6, <2>7, <1>3 DEF Clean
  <2>8. CASE r2.at = "done"
    <3>1. r2.taken = Sent(r2)
      BY <2>1, <2>3, <2>4, <2>6, <2>8, <1>3 DEF Ranged
    <3>2. Left(p2.queue) = 1
      BY <3>1, <2>6
    <3> QED BY <3>1, <3>2, <2>3, <2>4, <2>5, <2>8, <1>3 DEF Clean
  <2> QED BY <2>4, <2>7, <2>8
<1>4. CASE r.step = "csw"
  <2>1. r.at = "wait" /\ p.in = h.in /\ Left(p.queue) = 1 /\ Shaped(Item(r), p.queue)
    BY <1>4 DEF Clean, Gets
  <2>2. Head(p.queue) = "csw" /\ Left(p2.queue) = 0 /\ p2.in = 1 - h.in
    BY <2>1, <1>2
  <2> QED BY <2>2, <1>4 DEF Gets
<1> QED BY <1>3, <1>4 DEF Gets

LEMMA CleanLoses ==
  ASSUME NEW r, NEW h, NEW p, NEW r2, NEW h2, NEW p2, Clean(r, h, p), Loses(r, h, p, r2, h2, p2)
  PROVE  FALSE
BY DEF Clean, Loses

LEMMA ShortPops ==
  ASSUME NEW r, NEW h, NEW p, NEW h2, NEW p2, Ranged(r, h, p),
         Clean(r, h, p) \/ Short(r, h, p),
         Pops(h, p, h2, p2)
  PROVE  Short(r, h2, p2)
<1>1. /\ Left(p2.queue) = Left(p.queue) - 1 /\ Left(p.queue) > 0
      /\ Shaped(Item(r), p.queue) /\ Left(p.queue) > 1 => Shaped(Item(r), p2.queue)
  BY PopFacts
<1>2. Left(p2.queue) = 0 \/ Left(p.queue) > 1
  BY <1>1, OneLess DEF Ranged
<1>3. r.at \in {"insert", "wait", "done"}
  BY DEF Clean, Short
<1>4. CASE Left(p2.queue) = 0
  BY <1>3, <1>4 DEF Short
<1>5. CASE Left(p.queue) > 1
  <2>1. Shaped(Item(r), p.queue) /\ Shaped(Item(r), p2.queue)
    BY <1>1, <1>5 DEF Clean, Short
  <2>2. \/ /\ (r.step = "cbw" /\ r.at = "done") \/ (r.step = "data" /\ r.at = "insert")
           /\ Left(p.queue) <= Sent(r) + 1
        \/ r.step = "data" /\ r.at = "wait" /\ r.taken + Left(p.queue) <= Sent(r) + 1
    BY <1>5 DEF Clean, Short, Ranged
  <2>3. \/ /\ (r.step = "cbw" /\ r.at = "done") \/ (r.step = "data" /\ r.at = "insert")
           /\ Left(p2.queue) <= Sent(r)
        \/ r.step = "data" /\ r.at = "wait" /\ r.taken + Left(p2.queue) <= Sent(r)
    BY <2>2, <1>1 DEF Ranged
  <2> QED BY <1>3, <2>1, <2>3 DEF Short
<1> QED BY <1>2, <1>4, <1>5

LEMMA ShortGets ==
  ASSUME NEW r, NEW h, NEW p, NEW r2, NEW h2, NEW p2, Ranged(r, h, p), Short(r, h, p),
         Gets(r, h, p, r2, h2, p2)
  PROVE  Short(r2, h2, p2) /\ r2.step = "data"
<1>1. Pops(h, p, h2, p2) BY DEF Gets
<1>2. /\ Left(p2.queue) = Left(p.queue) - 1 /\ Left(p.queue) > 0
      /\ Shaped(Item(r), p.queue) /\ Left(p.queue) = 1 => Head(p.queue) = "csw"
      /\ Shaped(Item(r), p.queue) /\ Left(p.queue) > 1
         => Head(p.queue) = Item(r) /\ Shaped(Item(r), p2.queue)
  BY <1>1, PopFacts
<1>3. r.step = "data" /\ r.at = "wait" /\ Shaped(Item(r), p.queue) /\ r.taken + Left(p.queue) <= Sent(r)
  BY <1>2 DEF Short, Gets, Ranged
<1>4. r2.step = "data" /\ r2.taken = r.taken + 1 /\ Sent(r2) = Sent(r) /\ Item(r2) = Item(r)
      /\ r2.at = (IF Head(p.queue) = "data" /\ r.taken + 1 < Sent(r) THEN "wait" ELSE "done")
  BY <1>3 DEF Gets, Kin
<1>5. CASE Left(p.queue) = 1
  <2>1. Head(p.queue) = "csw" /\ Left(p2.queue) = 0
    BY <1>2, <1>3, <1>5
  <2> QED BY <2>1, <1>4 DEF Short
<1>6. CASE Left(p.queue) > 1
  <2>1. Head(p.queue) = Item(r) /\ Shaped(Item(r), p2.queue)
    BY <1>2, <1>3, <1>6
  <2>2. Sent(r) \in Nat /\ r.taken \in Nat /\ Left(p.queue) \in Nat /\ (Item(r) # "data" => Sent(r) = 1)
    BY <1>3 DEF Ranged
  <2>3. r.taken + 1 < Sent(r) /\ Item(r) = "data" /\ r2.taken + Left(p2.queue) <= Sent(r2)
    BY <2>2, <1>2, <1>3, <1>4, <1>6
  <2>4. r2.at = "wait"
    BY <2>1, <2>3, <1>4
  <2> QED BY <2>1, <2>3, <2>4, <1>4 DEF Short
<1> QED BY <1>2, <1>5, <1>6, OneLess DEF Ranged

LEMMA ShortLoses ==
  ASSUME NEW r, NEW h, NEW p, NEW r2, NEW h2, NEW p2, Ranged(r, h, p), Short(r, h, p),
         Loses(r, h, p, r2, h2, p2)
  PROVE  Short(r2, h2, p2) /\ r2 = r
<1>1. Mid(r) /\ r.at = "wait" /\ Pops(h, p, h2, p2) /\ r2 = r
  BY DEF Loses, Mid
<1> QED BY <1>1, ShortPops
\* An empty queue, whichever.
LEMMA EmptyReading ==
  ASSUME NEW r, NEW q, NEW b, Left(q) = 0
  PROVE  Reading(r, q, b) <=> Reading(r, << >>, b)
<1>1. Left(<< >>) = 0 BY DEF Left
<1> QED BY <1>1 DEF Reading

\* A caller outside a command reads nothing.
LEMMA IdleReading ==
  ASSUME NEW r, NEW q, NEW b, r.step \in {"none", "config"}
  PROVE  Reading(r, q, b) /\ ~Offers(r) /\ ~Mid(r)
BY DEF Reading, Asked, Given, Offers, Mid

-----------------------------------------------------------------------------
(* The thread k, at s, and the program's call, at a. *)

LEMMA BesideProgram ==
  ASSUME NEW s, NEW a, NEW h, NEW p, NEW a2, NEW h2, NEW p2,
         Ranged(a, h, p), Beside(s, a, h, p), Driver(a, h, p, a2, h2, p2)
  PROVE  Beside(s, a2, h2, p2)
<1> USE DEF Mid, Offers, SameHost, SamePen
<1>1. CASE Idles(a, h, p, a2, h2, p2)
  BY <1>1 DEF Idles, Beside, Ready, InStep
<1>2. CASE Resets(a, h, p, a2, h2, p2)
  <2>1. Reading(s, p2.queue, p2.block)
    BY <1>2, OthersRead DEF Driver, Beside, Resets, Takes
  <2> QED BY <1>2, <2>1 DEF Resets, Beside, Ready, InStep
<1>3. CASE Quits(a, h, p, a2, h2, p2)
  BY <1>3 DEF Quits, Beside, Ready, InStep
<1>4. CASE Links(a, h, p, a2, h2, p2)
  <2>1. CASE Mid(a)
    <3>1. Mid(a2) /\ ~Offers(a2)
      BY <1>4, <2>1 DEF Links
    <3>2. OutStep(a, h, p) => OutStep(a2, h2, p2)
      BY <1>4 DEF Links, OutStep
    <3>3. p2 .block = p.block /\ p2.out = p.out
      BY <1>4 DEF Links
    <3>4. CASE Clean(a, h, p) /\ Reading(s, << >>, p.block) /\ (Offers(s) => OutStep(a, h, p))
      <4>1. Clean(a2, h2, p2) BY <1>4, <3>4, CleanDriver
      <4> HIDE DEF Mid, Offers
      <4> QED BY <4>1, <3>1, <3>2, <3>3, <3>4 DEF Beside
    <3>5. CASE Short(a, h, p) /\ Refused(s, p)
      <4>1. Short(a2, h2, p2) BY <1>4, <3>5, ShortDriver
      <4> QED BY <4>1, <3>1, <3>3, <3>5 DEF Beside, Refused
    <3> QED BY <2>1, <3>4, <3>5 DEF Beside
  <2>2. CASE ~Mid(a)
    BY <1>4, <2>2 DEF Links, Beside, Ready, InStep
  <2> QED BY <2>1, <2>2
<1>5. CASE Wakens(a, h, p, a2, h2, p2)
  BY <1>5 DEF Wakens, Beside, Ready, InStep
<1>6. CASE EndsCbw(a, h, p, a2, h2, p2) \/ EndsData(a, h, p, a2, h2, p2)
  <2>1. Mid(a) /\ Mid(a2) /\ ~Offers(a2)
    BY <1>6 DEF EndsCbw, EndsData
  <2>2. OutStep(a, h, p) => OutStep(a2, h2, p2)
    BY <1>6 DEF EndsCbw, EndsData, OutStep
  <2>3. p2.block = p.block /\ p2.out = p.out
    BY <1>6 DEF EndsCbw, EndsData
  <2>4. CASE Clean(a, h, p) /\ Reading(s, << >>, p.block) /\ (Offers(s) => OutStep(a, h, p))
    <3>1. Clean(a2, h2, p2) BY <1>6, <2>4, CleanDriver
    <3> HIDE DEF Mid, Offers
    <3> QED BY <3>1, <2>1, <2>2, <2>3, <2>4 DEF Beside
  <2>5. CASE Short(a, h, p) /\ Refused(s, p)
    <3>1. Short(a2, h2, p2) BY <1>6, <2>5, ShortDriver
    <3> QED BY <3>1, <2>1, <2>3, <2>5 DEF Beside, Refused
  <2> QED BY <2>1, <2>4, <2>5 DEF Beside
<1>7. CASE EndsCsw(a, h, p, a2, h2, p2)
  BY <1>7 DEF EndsCsw, Beside, Ready, InStep
<1> QED BY <1>1, <1>2, <1>3, <1>4, <1>5, <1>6, <1>7 DEF Driver

LEMMA BesideThread ==
  ASSUME NEW s, NEW a, NEW h, NEW p, NEW s2, NEW h2, NEW p2,
         Driver(s, h, p, s2, h2, p2) \/ Retries(s, h, p, s2, h2, p2),
         a.step = "none", Beside(s, a, h, p)
  PROVE  Beside(s2, a, h2, p2)
<1>1. ~Mid(a) /\ ~Offers(a) /\ Reading(s, p.queue, p.block)
  BY IdleReading DEF Beside
<1>2. Reading(s2, p2.queue, p2.block)
  BY <1>1, OwnDriver, OwnRetry
<1>3. Offers(s2) => s2.bit = h2.out
  BY DEF Driver, Retries, Idles, Resets, Quits, Links, Wakens, EndsCbw, EndsData, EndsCsw, Offers,
     SameHost
<1>4. Ready(s2, a, h2, p2)
  BY <1>3 DEF Ready
<1> QED BY <1>1, <1>2, <1>4 DEF Beside

LEMMA BesideServed ==
  ASSUME NEW s, NEW a, NEW h, NEW p, NEW a2, NEW h2, NEW p2,
         Ranged(a, h, p), s.bit \in 0 .. 1, Beside(s, a, h, p), Controller(a, h, p, a2, h2, p2)
  PROVE  Beside(s, a2, h2, p2)
<1>1. CASE Configures(a, h, p, a2, h2, p2)
  <2>1. ~Mid(a) /\ ~Mid(a2) /\ ~Offers(a2)
    BY <1>1 DEF Configures, Mid, Offers
  <2>2. Reading(s, p2.queue, p2.block)
    BY <1>1, <2>1, OthersRead DEF Controller, Beside, Configures, Takes
  <2> QED BY <1>1, <2>1, <2>2 DEF Configures, Beside, Ready
<1>2. CASE Drops(a, h, p, a2, h2, p2)
  <2>1. ~Mid(a) /\ Offers(a) /\ Mid(a2) /\ ~Offers(a2) /\ a.bit # p.out /\ p2.out = p.out
        /\ Left(p2.queue) = 0 /\ a2.at = "done" /\ a.step = "cbw"
    BY <1>2 DEF Drops, Mid, Offers, SamePen
  <2>2. a.bit = h.out /\ Ready(s, a, h, p)
    BY <2>1 DEF Beside
  <2>3. Refused(s, p2)
    BY <2>1, <2>2 DEF Refused, Ready, InStep
  <2>4. Short(a2, h2, p2)
    BY <2>1 DEF Short
  <2> QED BY <2>1, <2>3, <2>4 DEF Beside
<1>3. CASE Takes(a, h, p, a2, h2, p2)
  <2>1. ~Mid(a) /\ Offers(a) /\ Mid(a2) /\ ~Offers(a2) /\ a2.at = "done" /\ a.step = "cbw"
        /\ a2.step = "cbw"
    BY <1>3 DEF Takes, Mid, Offers
  <2>2. a.bit = h.out /\ Ready(s, a, h, p) /\ Reading(s, p.queue, p.block)
    BY <2>1 DEF Beside
  <2>3. /\ a.bit = p.out /\ p2.out = 1 - p.out /\ p2.in = p.in /\ h2.in = h.in /\ h2.out = h.out
        /\ Sent(a2) = Sent(a) /\ Shaped(Item(a2), p2.queue) /\ Left(p2.queue) = Sent(a2) + 1
        /\ Left(p.queue) = 0
    BY <1>3 DEF Takes, Kin, SameHost
  <2>4. CASE p.in = h.in
    <3>1. Clean(a2, h2, p2)
      BY <2>1, <2>3, <2>4 DEF Clean
    <3>2. \A b : Reading(s, << >>, b)
      <4>1. Reading(s, << >>, p.block)
        BY <2>2, <2>3, EmptyReading
      <4> QED BY <4>1 DEF Reading, Left
    <3>3. OutStep(a2, h2, p2)
      BY <2>1, <2>2, <2>3 DEF OutStep
    <3> QED BY <2>1, <3>1, <3>2, <3>3 DEF Beside
  <2>5. CASE p.in # h.in
    <3>1. Short(a2, h2, p2)
      BY <2>1, <2>3, <2>5 DEF Short
    <3>2. Refused(s, p2)
      <4>1. Offers(s) => s.bit = p.out
        BY <2>1, <2>2, <2>3, <2>5 DEF Ready, InStep
      <4>2. p2.out # p.out
        BY <2>3 DEF Ranged
      <4> QED BY <4>1, <4>2 DEF Refused
    <3> QED BY <2>1, <3>1, <3>2 DEF Beside
  <2> QED BY <2>4, <2>5
<1>4. CASE Loses(a, h, p, a2, h2, p2)
  <2>1. Mid(a) /\ ~Offers(a) /\ p2.out = p.out
    BY <1>4 DEF Loses, Mid, Offers, Pops
  <2>2. Short(a, h, p) /\ Refused(s, p)
    BY <1>4, <2>1, CleanLoses DEF Beside
  <2>3. Short(a2, h2, p2) /\ a2 = a
    BY <1>4, <2>2, ShortLoses
  <2> QED BY <2>1, <2>2, <2>3 DEF Beside, Refused
<1>5. CASE Gets(a, h, p, a2, h2, p2)
  <2>1. Mid(a) /\ ~Offers(a) /\ ~Offers(a2) /\ p2.out = p.out /\ p2.block = p.block /\ a2.step = a.step
        /\ h2.out = h.out /\ h2.in = h.in
    BY <1>5 DEF Gets, Mid, Offers, Pops, SameHost
  <2>2. CASE Clean(a, h, p) /\ Reading(s, << >>, p.block) /\ (Offers(s) => OutStep(a, h, p))
    <3>1. CASE a2.step = "data" /\ Clean(a2, h2, p2)
      <4>1. Mid(a2) BY <3>1 DEF Mid
      <4>2. OutStep(a, h, p) => OutStep(a2, h2, p2)
        BY <2>1 DEF OutStep
      <4> QED BY <2>1, <2>2, <3>1, <4>1, <4>2 DEF Beside
    <3>2. CASE a2.step = "csw" /\ a2.at = "done" /\ Left(p2.queue) = 0 /\ p2.in = 1 - h.in
      <4>1. ~Mid(a2) BY <3>2 DEF Mid
      <4>2. Reading(s, p2.queue, p2.block)
        BY <2>1, <2>2, <3>2, EmptyReading
      <4>3. Offers(s) => p2.out = h2.out
        BY <2>1, <2>2, <3>2 DEF OutStep
      <4>4. Ready(s, a2, h2, p2)
        BY <4>3, <2>1, <3>2 DEF Ready
      <4> QED BY <2>1, <4>1, <4>2, <4>4 DEF Beside
    <3> QED BY <1>5, <2>2, <3>1, <3>2, CleanGets
  <2>3. CASE Short(a, h, p) /\ Refused(s, p)
    <3>1. Short(a2, h2, p2) /\ a2.step = "data"
      BY <1>5, <2>3, ShortGets
    <3>2. Mid(a2) BY <3>1 DEF Mid
    <3> QED BY <2>1, <2>3, <3>1, <3>2 DEF Beside, Refused
  <2> QED BY <2>1, <2>2, <2>3 DEF Beside
<1> QED BY <1>1, <1>2, <1>3, <1>4, <1>5 DEF Controller

\* The controller serves a thread while the program's call waits.
LEMMA ShortOrClean ==
  ASSUME NEW a, NEW h, NEW p, NEW h2, NEW p2, Ranged(a, h, p), Clean(a, h, p) \/ Short(a, h, p),
         SameHost(h, h2), p2.queue = p.queue \/ Left(p2.queue) = 0, p2.in \in 0 .. 1
  PROVE  Clean(a, h2, p2) \/ Short(a, h2, p2)
<1>1. a.at \in {"insert", "wait", "done"}
  BY DEF Clean, Short
<1>2. CASE Left(p2.queue) = 0
  BY <1>1, <1>2 DEF Short
<1>3. CASE p2.queue = p.queue /\ Left(p.queue) # 0
  <2>0. h2.in = h.in
    BY DEF SameHost
  <2>1. CASE (a.step = "cbw" /\ a.at = "done") \/ (a.step = "data" /\ a.at = "insert")
    BY <1>1, <1>3, <2>0, <2>1 DEF Clean, Short, Ranged
  <2>2. CASE a.step = "data" /\ a.at = "wait"
    BY <1>1, <1>3, <2>0, <2>2 DEF Clean, Short, Ranged
  <2>3. CASE a.step = "data" /\ a.at = "done"
    BY <1>1, <1>3, <2>0, <2>3 DEF Clean, Short, Ranged
  <2>4. CASE a.step = "csw" /\ a.at \in {"insert", "wait"}
    BY <1>1, <1>3, <2>0, <2>4 DEF Clean, Short, Ranged
  <2> QED BY <1>3, <2>1, <2>2, <2>3, <2>4 DEF Clean, Short
<1> QED BY <1>2, <1>3

LEMMA BesideOther ==
  ASSUME NEW s, NEW a, NEW h, NEW p, NEW s2, NEW h2, NEW p2,
         Ranged(a, h, p), Ranged(s, h, p), Beside(s, a, h, p), Controller(s, h, p, s2, h2, p2)
  PROVE  Beside(s2, a, h2, p2)
<1>1. Offers(a) => a.bit = h2.out
  BY DEF Beside, Controller, Configures, Drops, Takes, Loses, Gets, Pops, SameHost
<1>2. ~Offers(s2) \/ Loses(s, h, p, s2, h2, p2)
  BY DEF Controller, Configures, Drops, Takes, Gets, Offers
<1>3. ~Offers(s2)
  BY <1>2 DEF Loses, Offers
<1>4. CASE ~Mid(a)
  <2>1. Reading(s2, p2.queue, p2.block)
    BY <1>4, OwnController DEF Beside
  <2> QED BY <1>1, <1>3, <1>4, <2>1 DEF Beside, Ready
<1>5. CASE Mid(a)
  <2>0. Refused(s2, p2)
    BY <1>3 DEF Refused
  <2>1. CASE Configures(s, h, p, s2, h2, p2)
    <3>1. Clean(a, h2, p2) \/ Short(a, h2, p2)
      BY <1>5, <2>1, ShortOrClean DEF Configures, Beside
    <3>2. Reading(s2, << >>, p2.block)
      BY <2>1, IdleReading DEF Configures
    <3> QED BY <1>1, <1>3, <1>5, <2>0, <3>1, <3>2 DEF Beside
  <2>2. CASE Drops(s, h, p, s2, h2, p2)
    <3>1. Short(a, h, p)
      BY <1>5, <2>2 DEF Drops, Beside, Clean, Ranged, Mid
    <3>2. Short(a, h2, p2)
      BY <3>1, <2>2 DEF Short, Drops, SamePen
    <3> QED BY <1>1, <1>5, <2>0, <3>2 DEF Beside
  <2>3. CASE Takes(s, h, p, s2, h2, p2)
    BY <1>5, <2>3 DEF Takes, Beside, Clean, Ranged, Mid, Refused, Offers
  <2>4. CASE Pops(h, p, h2, p2)
    <3>1. Short(a, h2, p2)
      BY <1>5, <2>4, ShortPops DEF Beside
    <3> QED BY <1>1, <1>5, <2>0, <3>1 DEF Beside
  <2> QED BY <2>1, <2>2, <2>3, <2>4 DEF Controller, Loses, Gets
<1> QED BY <1>4, <1>5

\* Who is in no call bears anything another thread does.
LEMMA BesideIdle ==
  ASSUME NEW s, NEW s1, NEW a, NEW h, NEW p, Beside(s, a, h, p), s1.step = "none"
  PROVE  Beside(s1, a, h, p)
<1>1. (\A q, b : Reading(s1, q, b)) /\ ~Offers(s1)
  BY IdleReading
<1> QED BY <1>1 DEF Beside, Ready, Refused

-----------------------------------------------------------------------------
(* One caller, no failure: Rest. *)

Hardware(p) == p.ends \in {<<1, 1>>, <<2, 1>>, <<1, 2>>}

LEMMA RestDriver ==
  ASSUME NEW r, NEW h, NEW p, NEW r2, NEW h2, NEW p2, Ranged(r, h, p),
         Driver(r, h, p, r2, h2, p2), Rest(r, h, p)
  PROVE  Rest(r2, h2, p2)
<1>1. CASE Idles(r, h, p, r2, h2, p2)
  BY <1>1 DEF Idles, Rest, InStep, Offers, SameHost, SamePen
<1>2. CASE Resets(r, h, p, r2, h2, p2)
  BY <1>2 DEF Resets, Rest
<1>3. CASE Quits(r, h, p, r2, h2, p2)
  BY <1>3 DEF Quits, Rest, InStep, SameHost, SamePen
<1>4. CASE Links(r, h, p, r2, h2, p2)
  <2>1. /\ r.at = "insert" /\ r2.at = "wait" /\ r2.step = r.step
        /\ r2.waking <=> r.waking
        /\ r2.bit = (IF r.step \in {"data", "csw"} THEN h.in ELSE h.out)
        /\ h2.pair = h.pair /\ h2.out = h.out /\ h2.in = h.in
        /\ p2.out = p.out /\ p2.in = p.in /\ p2.queue = p.queue /\ p2.ends = p.ends
        /\ p2.set <=> p.set
    BY <1>4 DEF Links, Kin, SameHost, SamePen
  <2>2. Clean(r, h, p) => Clean(r2, h2, p2)
    BY <1>4, CleanDriver
  <2>3. CASE r.step \in {"data", "csw"}
    BY <2>1, <2>2, <2>3 DEF Rest, OutStep
  <2>4. CASE r.step \notin {"data", "csw"}
    BY <2>1, <2>4 DEF Rest, InStep, Offers
  <2> QED BY <2>3, <2>4
<1>5. CASE Wakens(r, h, p, r2, h2, p2)
  BY <1>5 DEF Wakens, Rest, InStep, Offers, SamePen
<1>6. CASE EndsCbw(r, h, p, r2, h2, p2)
  <2>1. Clean(r, h, p) => Clean(r2, h2, p2)
    BY <1>6, CleanDriver
  <2> QED BY <1>6, <2>1 DEF EndsCbw, Rest, OutStep, Kin, SamePen
<1>7. CASE EndsData(r, h, p, r2, h2, p2)
  <2>1. Clean(r, h, p) => Clean(r2, h2, p2)
    BY <1>7, CleanDriver
  <2> QED BY <1>7, <2>1 DEF EndsData, Rest, OutStep, SamePen
<1>8. CASE EndsCsw(r, h, p, r2, h2, p2)
  BY <1>8 DEF EndsCsw, Rest, InStep, Offers, SamePen
<1> QED BY <1>1, <1>2, <1>3, <1>4, <1>5, <1>6, <1>7, <1>8 DEF Driver

LEMMA RestController ==
  ASSUME NEW r, NEW h, NEW p, NEW r2, NEW h2, NEW p2, Ranged(r, h, p), Hardware(p),
         Controller(r, h, p, r2, h2, p2), Rest(r, h, p)
  PROVE  Rest(r2, h2, p2)
<1>1. CASE Configures(r, h, p, r2, h2, p2)
  BY <1>1 DEF Configures, Rest
<1>2. CASE Drops(r, h, p, r2, h2, p2)
  BY <1>2 DEF Drops, Rest, InStep, Offers, Reached
<1>3. CASE Takes(r, h, p, r2, h2, p2)
  <2>1. /\ p.set /\ h.out = p.out /\ h.in = p.in
        /\ p.ends = Pairs[h.pair] \/ (r.waking /\ h.pair = 1 /\ p.ends[1] = 1)
    BY <1>3 DEF Takes, Rest, InStep, Reached, Pairs
  <2>2. Clean(r2, h2, p2)
    BY <1>3, <2>1 DEF Takes, Clean, SameHost, Kin
  <2> QED BY <1>3, <2>1, <2>2 DEF Takes, Rest, OutStep, SameHost, Kin
<1>4. CASE Loses(r, h, p, r2, h2, p2)
  BY <1>4, CleanLoses DEF Loses, Rest
<1>5. CASE Gets(r, h, p, r2, h2, p2)
  <2>1. /\ Clean(r, h, p) /\ OutStep(r, h, p)
        /\ p.ends = Pairs[h.pair] \/ (r.waking /\ h.pair = 1 /\ p.ends[1] = 1)
    BY <1>5 DEF Gets, Rest
  <2>2. Reached(h, p, 2)
    BY <1>5 DEF Gets, Pops
  <2>3. p.ends = Pairs[h.pair]
    BY <2>1, <2>2 DEF Reached, Hardware, Pairs
  <2>4. /\ r2.step = r.step /\ h2.pair = h.pair /\ h2.out = h.out /\ h2.in = h.in
        /\ p2.set /\ p2.out = p.out /\ p2.ends = p.ends /\ r.step \in {"data", "csw"}
    BY <1>5 DEF Gets, Pops, SameHost
  <2>5. CASE r.step = "data" /\ r2.step = "data" /\ Clean(r2, h2, p2)
    BY <2>1, <2>3, <2>4, <2>5 DEF Rest, OutStep
  <2>6. CASE r.step = "csw" /\ r2.step = "csw" /\ r2.at = "done" /\ Left(p2.queue) = 0
             /\ p2.in = 1 - h.in
    BY <2>1, <2>3, <2>4, <2>6 DEF Rest, OutStep
  <2> QED BY <1>5, <2>1, <2>5, <2>6, CleanGets
<1> QED BY <1>1, <1>2, <1>3, <1>4, <1>5 DEF Controller

\* Two callers that are in no call are alike.
LEMMA RestIdle ==
  ASSUME NEW r, NEW s, NEW h, NEW p, r.step = "none", s.step = "none", Rest(r, h, p)
  PROVE  Rest(s, h, p)
BY DEF Rest

-----------------------------------------------------------------------------
\* What a caller's record becomes.
LEMMA NoneForm ==
  /\ NoTransfer \in Transfers /\ Placed(NoTransfer)
  /\ NoTransfer.at = "idle" /\ NoTransfer.step = "none" /\ ~NoTransfer.waking
  /\ NoTransfer.n = 0 /\ NoTransfer.block = "none" /\ NoTransfer.tries = 0
BY UsbAssumption DEF NoTransfer, Transfers, Placed

LEMMA CommandForm ==
  ASSUME NEW r \in Transfers
  PROVE  /\ UsbCommand(r) \in Transfers
         /\ UsbCommand(r).at = "insert" /\ UsbCommand(r).step = "cbw"
         /\ UsbCommand(r).job = r.job /\ UsbCommand(r).n = r.n
         /\ UsbCommand(r).waking <=> r.waking
BY DEF UsbCommand, Transfers

LEMMA SleepsForm ==
  ASSUME NEW job \in {"read", "ehci", "switch"}
  PROVE  /\ Sleeps(job) \in Transfers
         /\ Sleeps(job).job = job /\ Sleeps(job).at = "insert" /\ Sleeps(job).step = "config"
         /\ Sleeps(job).tries = 0 /\ Sleeps(job).waking
<1>1. \A r \in Transfers :
        LET s == [r EXCEPT !.job = job, !.waking = TRUE, !.at = "insert", !.step = "config"]
        IN  /\ s \in Transfers /\ s.job = job /\ s.at = "insert" /\ s.step = "config"
            /\ s.tries = r.tries /\ s.waking
  BY Zenon DEF Transfers
<1>2. Sleeps(job) = [NoTransfer EXCEPT !.job = job, !.waking = TRUE, !.at = "insert", !.step = "config"]
  BY DEF Sleeps
<1>3. NoTransfer \in Transfers /\ NoTransfer.tries = 0
  BY NoneForm
<1> HIDE DEF Transfers, NoTransfer
<1> QED BY <1>1, <1>2, <1>3, Zenon

LEMMA AwakeForm ==
  ASSUME NEW r \in Transfers
  PROVE  LET s == [r EXCEPT !.waking = FALSE]
         IN  /\ s \in Transfers /\ ~s.waking
             /\ s.job = r.job /\ s.n = r.n
BY Zenon DEF Transfers

LEMMA TriesForm ==
  ASSUME NEW r \in Transfers, NEW t \in 0 .. Tries
  PROVE  LET s == [r EXCEPT !.tries = t]
         IN  /\ s \in Transfers /\ s.job = r.job /\ s.n = r.n
             /\ s.waking <=> r.waking
BY DEF Transfers

LEMMA Turns ==
  ASSUME UsbTypes, NEW c \in Users, NEW r2 \in Transfers, Placed(r2), UsbGoes(c, r2),
         host' \in Hosts, pen' \in Pens,
         ring' \in [Users \cup {"head"} -> Users \cup {"head"}],
         upset' \in BOOLEAN, mixed' \in BOOLEAN, crossed' \in BOOLEAN, lied' \in BOOLEAN
  PROVE  UsbTypes' /\ usbcall'[c] = r2 /\ \A d \in Users \ {c} : usbcall'[d] = usbcall[d]
<1>1. usbcall \in [Users -> Transfers] /\ usbcall' = [usbcall EXCEPT ![c] = r2]
  BY DEF UsbTypes, UsbGoes
<1>2. usbcall' \in [Users -> Transfers] /\ usbcall'[c] = r2
      /\ \A d \in Users \ {c} : usbcall'[d] = usbcall[d]
  BY <1>1
<1>3. \A d \in Users : Placed(usbcall'[d])
  <2> TAKE d \in Users
  <2>1. Placed(usbcall[d]) BY DEF UsbTypes
  <2> QED BY <1>2, <2>1
<1> QED BY <1>2, <1>3 DEF UsbTypes

\* The pair of endpoints is another, and the toggles start over.
PairTo(h, s, k, o, i) == s = [h EXCEPT !.pair = k, !.out = o, !.in = i]
LEMMA PairSet ==
  ASSUME NEW h \in Hosts, NEW k \in 1 .. 3, NEW o \in 0 .. 1, NEW i \in 0 .. 1,
         NEW s, PairTo(h, s, k, o, i)
  PROVE  /\ s \in Hosts /\ s.pair = k /\ s.out = o /\ s.in = i
         /\ (s.list <=> h.list) /\ (s.lazy <=> h.lazy)
BY DEF Hosts, PairTo

LEMMA PairIs ==
  ASSUME NEW h \in Hosts, NEW k \in 1 .. 3, NEW s, PairTo(h, s, k, 0, 0)
  PROVE  /\ s \in Hosts /\ s.pair = k /\ s.out = 0 /\ s.in = 0
         /\ (s.list <=> h.list) /\ (s.lazy <=> h.lazy)
<1>1. 0 \in 0 .. 1 OBVIOUS
<1> QED BY <1>1, PairSet

LEMMA FailsForm ==
  ASSUME UsbTypes, NEW c \in Users, usbcall[c].step # "none", Fails(c)
  PROVE  /\ host' \in Hosts
         /\ (host'.list <=> host.list) /\ (host'.lazy <=> host.lazy)
         /\ usbcall[c].step = "config" => host' = host /\ UsbGoes(c, NoTransfer)
         /\ \E r2 \in Transfers :
              /\ Placed(r2) /\ UsbGoes(c, r2)
              /\ r2.step = "none" \/ (r2.step = "cbw" /\ r2.at = "insert")
<1> DEFINE r == usbcall[c]
<1>0. r \in Transfers /\ Placed(r) /\ host \in Hosts
  BY DEF UsbTypes
<1>1. CASE ~r.waking \/ r.step = "config" \/ (host.pair = 3 /\ r.tries = Tries)
  <2>1. UsbGoes(c, NoTransfer) /\ host' = host
    BY <1>1 DEF Fails, Ends
  <2> QED BY <1>0, <2>1, NoneForm
<1>2. CASE r.waking /\ r.step # "config" /\ r.tries < Tries
  <2>1. UsbGoes(c, UsbCommand([r EXCEPT !.tries = @ + 1])) /\ host' = host
    BY <1>2, UsbAssumption DEF Fails
  <2>2. r.tries + 1 \in 0 .. Tries
    BY <1>0, <1>2, UsbAssumption DEF Transfers
  <2> DEFINE s == [r EXCEPT !.tries = r.tries + 1]
  <2>3. s \in Transfers /\ s.job = r.job /\ s.n = r.n /\ (s.waking <=> r.waking)
    BY <1>0, <2>2, TriesForm
  <2> HIDE DEF s
  <2>4. UsbCommand(s) \in Transfers /\ Placed(UsbCommand(s)) /\ UsbCommand(s).at = "insert"
        /\ UsbCommand(s).step = "cbw"
    BY <1>0, <1>2, <2>3, CommandForm DEF Placed
  <2>5. UsbGoes(c, UsbCommand(s))
    BY <2>1 DEF s
  <2> QED BY <1>0, <1>2, <2>1, <2>4, <2>5
<1>3. CASE r.waking /\ r.step # "config" /\ ~(r.tries < Tries) /\ ~(host.pair = 3 /\ r.tries = Tries)
  <2>1. UsbGoes(c, UsbCommand([r EXCEPT !.tries = 1]))
        /\ host' = [host EXCEPT !.pair = @ + 1, !.out = 0, !.in = 0]
    BY <1>3, UsbAssumption DEF Fails
  <2>2. 1 \in 0 .. Tries /\ host.pair + 1 \in 1 .. 3
    BY <1>0, <1>3, UsbAssumption DEF Transfers, Hosts
  <2>3. host' \in Hosts /\ (host'.list <=> host.list) /\ (host'.lazy <=> host.lazy)
    <3>1. PairTo(host, host', host.pair + 1, 0, 0)
      BY <2>1 DEF PairTo
    <3> QED BY <1>0, <2>2, <3>1, PairIs
  <2> DEFINE s == [r EXCEPT !.tries = 1]
  <2>4. s \in Transfers /\ s.job = r.job /\ s.n = r.n /\ (s.waking <=> r.waking)
    BY <1>0, <2>2, TriesForm
  <2>5. UsbGoes(c, UsbCommand(s))
    BY <2>1
  <2> HIDE DEF s
  <2>6. UsbCommand(s) \in Transfers /\ Placed(UsbCommand(s)) /\ UsbCommand(s).at = "insert"
        /\ UsbCommand(s).step = "cbw"
    BY <1>0, <1>3, <2>4, CommandForm DEF Placed
  <2> QED BY <1>3, <2>3, <2>5, <2>6
<1> QED BY <1>1, <1>2, <1>3


-----------------------------------------------------------------------------
(* Every action is such a step of its caller, or of the controller for it. *)

UsbTurn(c) == c = App \/ usbcall[App].at = "idle"

Moves(c) ==
  /\ \A d \in Users \ {c} : usbcall'[d] = usbcall[d]
  /\ upset => upset'
  /\ \/ UsbTurn(c) /\ Driver(usbcall[c], host, pen, usbcall'[c], host', pen')
     \/ /\ UsbTurn(c) /\ (upset' \/ usbcall[c].at = "bad")
        /\ Retries(usbcall[c], host, pen, usbcall'[c], host', pen')
     \/ Controller(usbcall[c], host, pen, usbcall'[c], host', pen')
  /\ \/ usbcall[c].at # "idle" /\ (mixed' <=> mixed) /\ (crossed' <=> crossed)
     \/ (mixed' <=> mixed \/ ~Alone(c)) /\ (crossed' <=> crossed \/ (c # App /\ ~Alone(c)))
  /\ lied' => \/ lied
              \/ /\ usbcall[c].step = "csw" /\ usbcall[c].at = "done" /\ ~usbcall[c].waking
                 /\ usbcall[c].data # usbcall[c].block
  /\ host.list => host'.list
  /\ host'.lazy => host.lazy \/ host.list
  /\ Listed(usbcall'[c]) => host'.list

LEMMA Typed ==
  ASSUME UsbTypes, NEW c \in Users
  PROVE  /\ usbcall[c] \in Transfers /\ Placed(usbcall[c]) /\ host \in Hosts /\ pen \in Pens
         /\ ring \in [Users \cup {"head"} -> Users \cup {"head"}]
         /\ upset \in BOOLEAN /\ mixed \in BOOLEAN /\ crossed \in BOOLEAN /\ lied \in BOOLEAN
BY DEF UsbTypes

\* Nothing but the call itself: what the histories say.
LEMMA Same ==
  ASSUME NEW c, usbcall[c].at # "idle", UNCHANGED <<mixed, crossed>>
  PROVE  usbcall[c].at # "idle" /\ (mixed' <=> mixed) /\ (crossed' <=> crossed)
OBVIOUS

LEMMA BeginsForm ==
  ASSUME UsbTypes, NEW c \in Users, NEW r, BeginsJob(c, r)
  PROVE  /\ UsbTurn(c) /\ usbcall[c].at = "idle" /\ usbcall[c].step = "none"
         /\ UsbGoes(c, r) /\ mixed' \in BOOLEAN /\ crossed' \in BOOLEAN
         /\ (mixed' <=> mixed \/ ~Alone(c)) /\ (crossed' <=> crossed \/ (c # App /\ ~Alone(c)))
<1>1. UsbTurn(c) /\ usbcall[c].at = "idle" /\ UsbGoes(c, r)
  BY DEF BeginsJob, UsbAt, UsbTurn
<1>2. mixed' = (mixed \/ ~Alone(c)) /\ crossed' = (crossed \/ (c # App /\ ~Alone(c)))
  BY DEF BeginsJob
<1>3. mixed' \in BOOLEAN /\ crossed' \in BOOLEAN
      /\ (mixed' <=> mixed \/ ~Alone(c)) /\ (crossed' <=> crossed \/ (c # App /\ ~Alone(c)))
  BY <1>2, Zenon
<1>4. usbcall[c].step = "none"
  BY <1>1, Typed DEF Placed
<1> QED BY <1>1, <1>3, <1>4

LEMMA ReadsStep ==
  ASSUME UsbTypes, UsbListed, NEW c \in Users, Reads(c)
  PROVE  UsbTypes' /\ Moves(c)
<1>1. PICK b \in Blocks, k \in Counts :
        BeginsJob(c, LET r == [Sleeps("read") EXCEPT !.block = b, !.n = k]
                     IN  IF host.lazy THEN UsbCommand([r EXCEPT !.waking = FALSE]) ELSE r)
  BY DEF Reads
<1> DEFINE r == [Sleeps("read") EXCEPT !.block = b, !.n = k]
           r2 == IF host.lazy THEN UsbCommand([r EXCEPT !.waking = FALSE]) ELSE r
<1>2. k \in Nat /\ k > 0
  BY UsbAssumption
<1>3. Sleeps("read") \in Transfers /\ Sleeps("read").job = "read" /\ Sleeps("read").at = "insert"
      /\ Sleeps("read").step = "config" /\ Sleeps("read").tries = 0 /\ Sleeps("read").waking
  BY SleepsForm
<1>4. r \in Transfers /\ r.job = "read" /\ r.at = "insert" /\ r.step = "config" /\ r.tries = 0
      /\ r.n = k /\ r.waking
  BY <1>2, <1>3 DEF Transfers
<1> HIDE DEF r
<1>5. r2 \in Transfers /\ Placed(r2)
      /\ \/ r2.step = "config" /\ r2.at = "insert" /\ ~host.lazy
         \/ r2.step = "cbw" /\ r2.at = "insert" /\ ~r2.waking /\ host.lazy
  <2>1. CASE host.lazy
    <3> DEFINE s == [r EXCEPT !.waking = FALSE]
    <3>1. s \in Transfers /\ ~s.waking /\ s.job = "read" /\ s.n = k
      BY <1>4, AwakeForm
    <3> HIDE DEF s
    <3>2. UsbCommand(s) \in Transfers /\ UsbCommand(s).at = "insert" /\ UsbCommand(s).step = "cbw"
          /\ UsbCommand(s).job = "read" /\ UsbCommand(s).n = k /\ ~UsbCommand(s).waking
      BY <3>1, CommandForm
    <3>3. r2 = UsbCommand(s)
      BY <2>1 DEF s
    <3> HIDE DEF r2
    <3> QED BY <1>2, <2>1, <3>2, <3>3 DEF Placed
  <2>2. CASE ~host.lazy
    BY <1>2, <1>4, <2>2 DEF Placed
  <2> QED BY <2>1, <2>2
<1> HIDE DEF r2
<1>6. BeginsJob(c, r2)
  BY <1>1 DEF r2, r
<1>7. UNCHANGED <<host, pen, ring, upset, lied>>
  BY DEF Reads
<1>8. /\ UsbTurn(c) /\ usbcall[c].step = "none" /\ UsbGoes(c, r2)
      /\ mixed' \in BOOLEAN /\ crossed' \in BOOLEAN
      /\ (mixed' <=> mixed \/ ~Alone(c)) /\ (crossed' <=> crossed \/ (c # App /\ ~Alone(c)))
  BY <1>6, BeginsForm
<1>9. UsbTypes' /\ usbcall'[c] = r2 /\ \A d \in Users \ {c} : usbcall'[d] = usbcall[d]
  BY <1>5, <1>7, <1>8, Typed, Turns
<1>10. Idles(usbcall[c], host, pen, usbcall'[c], host', pen')
  BY <1>5, <1>7, <1>8, <1>9 DEF Idles, SameHost, SamePen
<1>11. Listed(r2) => host.list
  BY <1>5 DEF Listed, UsbListed
<1> QED BY <1>7, <1>8, <1>9, <1>10, <1>11 DEF Moves, Driver

LEMMA WantsStep ==
  ASSUME UsbTypes, UsbListed, NEW c \in Users, Wants(c)
  PROVE  UsbTypes' /\ Moves(c)
<1>1. PICK job \in {"ehci", "switch"} :
        BeginsJob(c, IF job = "switch" /\ host.woken THEN Sleeps(job)
                     ELSE [NoTransfer EXCEPT !.job = job, !.at = "core"])
  BY DEF Wants
<1> DEFINE s == [NoTransfer EXCEPT !.job = job, !.at = "core"]
           r2 == IF job = "switch" /\ host.woken THEN Sleeps(job) ELSE s
<1>2. s \in Transfers /\ s.job = job /\ s.at = "core" /\ s.step = "none" /\ ~s.waking
  BY NoneForm DEF Transfers
<1> HIDE DEF s
<1>3. Sleeps(job) \in Transfers /\ Sleeps(job).job = job /\ Sleeps(job).at = "insert"
      /\ Sleeps(job).step = "config" /\ Sleeps(job).tries = 0 /\ Sleeps(job).waking
  BY SleepsForm
<1>4. /\ r2 \in Transfers /\ Placed(r2) /\ ~Listed(r2)
      /\ r2.step = "none" \/ (r2.step = "config" /\ r2.at = "insert")
  BY <1>2, <1>3 DEF Placed, Listed
<1>5. BeginsJob(c, r2)
  BY <1>1 DEF s
<1> HIDE DEF r2
<1>6. UNCHANGED <<host, pen, ring, upset, lied>>
  BY DEF Wants
<1>7. /\ UsbTurn(c) /\ usbcall[c].step = "none" /\ UsbGoes(c, r2)
      /\ mixed' \in BOOLEAN /\ crossed' \in BOOLEAN
      /\ (mixed' <=> mixed \/ ~Alone(c)) /\ (crossed' <=> crossed \/ (c # App /\ ~Alone(c)))
  BY <1>5, BeginsForm
<1>8. UsbTypes' /\ usbcall'[c] = r2 /\ \A d \in Users \ {c} : usbcall'[d] = usbcall[d]
  BY <1>4, <1>6, <1>7, Typed, Turns
<1>9. Idles(usbcall[c], host, pen, usbcall'[c], host', pen')
  BY <1>4, <1>6, <1>7, <1>8 DEF Idles, SameHost, SamePen
<1> QED BY <1>4, <1>6, <1>7, <1>8, <1>9 DEF Moves, Driver

\* The steps on the way to the first transfer.
LEMMA AtForm ==
  ASSUME NEW r \in Transfers, r.at \in {"core", "list"}, Placed(r), NEW at \in {"list", "ident"}
  PROVE  LET s == [r EXCEPT !.at = at]
         IN  s \in Transfers /\ Placed(s) /\ s.step = "none" /\ ~Listed(s)
BY DEF Transfers, Placed, Listed

LEMMA ResetsCoreStep ==
  ASSUME UsbTypes, UsbListed, NEW c \in Users, ResetsCore(c)
  PROVE  UsbTypes' /\ Moves(c)
<1>1. /\ UsbTurn(c) /\ usbcall[c].at = "core" /\ usbcall[c].step = "none"
      /\ UNCHANGED <<ring, upset, mixed, crossed, lied>>
  BY Typed DEF ResetsCore, UsbAt, UsbTurn, Placed
<1>2. PICK r2 \in Transfers : Placed(r2) /\ r2.step = "none" /\ ~Listed(r2) /\ UsbGoes(c, r2)
  <2>1. UsbGoes(c, [usbcall[c] EXCEPT !.at = "list"]) \/ UsbGoes(c, NoTransfer)
    BY DEF ResetsCore, Ends
  <2>2. LET s == [usbcall[c] EXCEPT !.at = "list"]
        IN  s \in Transfers /\ Placed(s) /\ s.step = "none" /\ ~Listed(s)
    BY <1>1, Typed, AtForm, Zenon
  <2>3. ~Listed(NoTransfer)
    BY NoneForm DEF Listed
  <2> HIDE DEF Transfers, NoTransfer
  <2> QED BY <2>1, <2>2, <2>3, NoneForm, Zenon
<1>3. host' \in Hosts /\ host'.pair = host.pair /\ host'.out = host.out /\ host'.in = host.in
      /\ (host'.list <=> host.list) /\ (host'.lazy <=> host.lazy)
  BY Typed, Zenon DEF ResetsCore, Hosts
<1>4. /\ pen' \in Pens
      /\ pen'.queue = << >> /\ ~pen'.set /\ pen'.out = pen.out /\ pen'.in = pen.in
      /\ pen'.block = pen.block /\ pen'.ends = pen.ends
  <2>1. 0 \in 0 .. 1 /\ << >> \in Seq({"data", "csw", Capacity})
    OBVIOUS
  <2>2. \A e \in Seq({"data", "csw", Capacity}), n \in 0 .. 1 :
          LET p2 == [pen EXCEPT !.addr = n, !.set = FALSE, !.queue = e]
          IN  /\ p2 \in Pens /\ p2.queue = e /\ ~p2.set /\ p2.out = pen.out /\ p2.in = pen.in
              /\ p2.block = pen.block /\ p2.ends = pen.ends
    BY Typed, Zenon DEF Pens
  <2>3. pen' = [pen EXCEPT !.addr = 0, !.set = FALSE, !.queue = << >>]
    BY DEF ResetsCore
  <2> HIDE DEF Pens
  <2> QED BY <2>1, <2>2, <2>3, Zenon
<1>6. UsbTypes' /\ usbcall'[c] = r2 /\ \A d \in Users \ {c} : usbcall'[d] = usbcall[d]
  BY <1>1, <1>2, <1>3, <1>4, Typed, Turns
<1>7. Left(pen'.queue) = 0
  BY <1>4 DEF Left
<1>8. Resets(usbcall[c], host, pen, usbcall'[c], host', pen')
  BY <1>1, <1>2, <1>3, <1>4, <1>6, <1>7 DEF Resets, SameHost
<1> QED BY <1>1, <1>2, <1>3, <1>6, <1>8 DEF Moves, Driver

LEMMA StartsListStep ==
  ASSUME UsbTypes, UsbListed, NEW c \in Users, StartsList(c)
  PROVE  UsbTypes' /\ Moves(c)
<1>1. /\ UsbTurn(c) /\ usbcall[c].at = "list" /\ usbcall[c].step = "none"
      /\ UNCHANGED <<pen, upset, mixed, crossed, lied>>
  BY Typed DEF StartsList, UsbAt, UsbTurn, Placed
<1>2. PICK r2 \in Transfers : Placed(r2) /\ r2.step = "none" /\ ~Listed(r2) /\ UsbGoes(c, r2)
  <2>1. UsbGoes(c, [usbcall[c] EXCEPT !.at = "ident"]) \/ UsbGoes(c, NoTransfer)
    BY DEF StartsList, Ends
  <2>2. LET s == [usbcall[c] EXCEPT !.at = "ident"]
        IN  s \in Transfers /\ Placed(s) /\ s.step = "none" /\ ~Listed(s)
    BY <1>1, Typed, AtForm, Zenon
  <2>3. ~Listed(NoTransfer)
    BY NoneForm DEF Listed
  <2> HIDE DEF Transfers, NoTransfer
  <2> QED BY <2>1, <2>2, <2>3, NoneForm, Zenon
<1>3. host' \in Hosts /\ host'.pair = host.pair /\ host'.out = host.out /\ host'.in = host.in
      /\ (host.list => host'.list) /\ (host'.lazy <=> host.lazy)
  BY Typed, Zenon DEF StartsList, Hosts
<1>4. ring' \in [Users \cup {"head"} -> Users \cup {"head"}]
  BY Typed DEF StartsList
<1>5. UsbTypes' /\ usbcall'[c] = r2 /\ \A d \in Users \ {c} : usbcall'[d] = usbcall[d]
  BY <1>1, <1>2, <1>3, <1>4, Typed, Turns
<1>6. Idles(usbcall[c], host, pen, usbcall'[c], host', pen')
  BY <1>1, <1>2, <1>3, <1>5 DEF Idles, SameHost, SamePen
<1> QED BY <1>1, <1>2, <1>3, <1>5, <1>6 DEF Moves, Driver

LEMMA IdentifiesStep ==
  ASSUME UsbTypes, UsbListed, NEW c \in Users, Identifies(c)
  PROVE  UsbTypes' /\ Moves(c)
<1>1. /\ UsbTurn(c) /\ usbcall[c].at = "ident" /\ usbcall[c].step = "none"
      /\ UNCHANGED <<ring, mixed, crossed, lied>> /\ UsbGoes(c, Sleeps(usbcall[c].job))
  BY Typed DEF Identifies, UsbAt, UsbTurn, Placed
<1>2. upset' \in BOOLEAN /\ (upset => upset')
  <2>1. upset' = upset \/ upset' = TRUE
    BY DEF Identifies
  <2>2. upset \in BOOLEAN BY Typed
  <2>3. CASE upset' = upset
    BY <2>2, <2>3
  <2>4. CASE upset' = TRUE
    BY <2>4, Zenon
  <2> QED BY <2>1, <2>3, <2>4
<1> DEFINE r2 == Sleeps(usbcall[c].job)
<1>3. r2 \in Transfers /\ Placed(r2) /\ r2.step = "config" /\ r2.at = "insert" /\ ~Listed(r2)
  <2>1. usbcall[c].job \in {"ehci", "switch"}
    BY <1>1, Typed DEF Placed
  <2> QED BY <2>1, SleepsForm DEF Placed, Listed
<1> HIDE DEF r2
<1>4. host' \in Hosts /\ host'.pair = host.pair /\ host'.out = host.out /\ host'.in = host.in
      /\ (host'.list <=> host.list) /\ (host'.lazy <=> host.lazy)
  BY Typed, Zenon DEF Identifies, Hosts
<1>5. pen' \in Pens /\ pen'.queue = pen.queue /\ (pen'.set <=> pen.set) /\ pen'.out = pen.out
      /\ pen'.in = pen.in /\ pen'.block = pen.block /\ pen'.ends = pen.ends
  BY Typed DEF Identifies, Pens
<1>6. UsbTypes' /\ usbcall'[c] = r2 /\ \A d \in Users \ {c} : usbcall'[d] = usbcall[d]
  BY <1>1, <1>2, <1>3, <1>4, <1>5, Typed, Turns DEF r2
<1>7. Idles(usbcall[c], host, pen, usbcall'[c], host', pen')
  BY <1>1, <1>3, <1>4, <1>5, <1>6 DEF Idles, SameHost, SamePen
<1> QED BY <1>1, <1>2, <1>3, <1>4, <1>6, <1>7 DEF Moves, Driver

LEMMA KinForm ==
  ASSUME NEW r, NEW r2, r2.block = r.block, r2.n = r.n, r2.waking <=> r.waking
  PROVE  Kin(r, r2)
BY DEF Kin, Sent, Item

LEMMA InsertsStep ==
  ASSUME UsbTypes, UsbListed, NEW c \in Users, Inserts(c)
  PROVE  UsbTypes' /\ Moves(c)
<1> DEFINE r == usbcall[c]
<1>1. /\ UsbTurn(c) /\ r.at = "insert" /\ r.step # "none" /\ r.at # "idle"
      /\ UNCHANGED <<pen, mixed, crossed, lied>>
  BY Typed DEF Inserts, UsbAt, UsbTurn, Placed
<1>2. CASE ~host.list
  <2>1. Fails(c) /\ UNCHANGED <<ring, upset>>
    BY <1>2 DEF Inserts
  <2>2. r.step = "config"
    BY <1>1, <1>2, Typed DEF UsbListed, Listed, Transfers
  <2>3. host' = host /\ UsbGoes(c, NoTransfer)
    BY <1>1, <2>1, <2>2, FailsForm
  <2>4. UsbTypes' /\ usbcall'[c] = NoTransfer /\ \A d \in Users \ {c} : usbcall'[d] = usbcall[d]
    BY <1>1, <2>1, <2>3, Typed, Turns, NoneForm
  <2>5. Quits(r, host, pen, usbcall'[c], host', pen') /\ ~Listed(usbcall'[c])
    BY <1>1, <2>2, <2>3, <2>4, NoneForm DEF Quits, SameHost, SamePen, Listed
  <2> QED BY <1>1, <2>1, <2>3, <2>4, <2>5 DEF Moves, Driver
<1>3. CASE host.list /\ /\ ring' = [ring EXCEPT !["head"] = c, ![c] = ring["head"]]
                        /\ UsbGoes(c, [r EXCEPT !.at = "wait", !.bit = Toggle(r), !.taken = 0])
                        /\ UNCHANGED <<host, upset>>
  <2> DEFINE t == Toggle(r)
             r2 == [r EXCEPT !.at = "wait", !.bit = t, !.taken = 0]
  <2>1. r \in Transfers /\ Placed(r) /\ host \in Hosts
    BY Typed
  <2>2. t \in 0 .. 1 /\ t = (IF r.step \in {"data", "csw"} THEN host.in ELSE host.out)
    BY <2>1 DEF Toggle, Hosts
  <2> HIDE DEF t
  <2>3. /\ r2 \in Transfers /\ r2.at = "wait" /\ r2.bit = t /\ r2.taken = 0 /\ r2.step = r.step
        /\ r2.block = r.block /\ r2.n = r.n /\ (r2.waking <=> r.waking) /\ r2.data = r.data
        /\ r2.job = r.job /\ r2.tries = r.tries
    BY <2>1, <2>2 DEF Transfers
  <2>4. UsbGoes(c, r2)
    BY <1>3 DEF t
  <2> HIDE DEF r2
  <2>5. Placed(r2)
    BY <1>1, <2>1, <2>3 DEF Placed
  <2>6. ring' \in [Users \cup {"head"} -> Users \cup {"head"}]
    BY <1>3, Typed
  <2>7. UsbTypes' /\ usbcall'[c] = r2 /\ \A d \in Users \ {c} : usbcall'[d] = usbcall[d]
    BY <1>1, <1>3, <2>3, <2>4, <2>5, <2>6, Typed, Turns
  <2>8. Links(r, host, pen, usbcall'[c], host', pen')
    BY <1>1, <1>3, <2>2, <2>3, <2>7, KinForm DEF Links, SameHost, SamePen
  <2> HIDE DEF r
  <2> QED BY <1>1, <1>3, <2>7, <2>8 DEF Moves, Driver, r
<1>4. CASE host.list /\ upset' = TRUE /\ Fails(c) /\ UNCHANGED ring
  <2>1. /\ host' \in Hosts /\ (host'.list <=> host.list) /\ (host'.lazy <=> host.lazy)
        /\ \E r2 \in Transfers :
              /\ Placed(r2) /\ UsbGoes(c, r2)
              /\ r2.step = "none" \/ (r2.step = "cbw" /\ r2.at = "insert")
    BY <1>1, <1>4, FailsForm
  <2>2. PICK r2 \in Transfers : /\ Placed(r2) /\ UsbGoes(c, r2)
                                /\ r2.step = "none" \/ (r2.step = "cbw" /\ r2.at = "insert")
    BY <2>1
  <2>3. upset' /\ upset' \in BOOLEAN
    BY <1>4, Zenon
  <2>4. UsbTypes' /\ usbcall'[c] = r2 /\ \A d \in Users \ {c} : usbcall'[d] = usbcall[d]
    BY <1>1, <1>4, <2>1, <2>2, <2>3, Typed, Turns
  <2>5. Retries(r, host, pen, usbcall'[c], host', pen')
    BY <1>1, <2>2, <2>4 DEF Retries, SamePen
  <2> QED BY <1>1, <1>4, <2>1, <2>3, <2>4, <2>5 DEF Moves
<1> QED BY <1>2, <1>3, <1>4 DEF Inserts

LEMMA UnlinksTyped ==
  ASSUME UsbTypes, NEW c \in Users, Unlinks(c)
  PROVE  ring' \in [Users \cup {"head"} -> Users \cup {"head"}]
BY Typed DEF Unlinks

LEMMA RefusesStep ==
  ASSUME UsbTypes, UsbListed, NEW c \in Users,
         Refuses(c) \/ TransferTimesOut(c)
  PROVE  UsbTypes' /\ Moves(c)
<1> DEFINE r == usbcall[c]
<1>1. /\ UsbTurn(c) /\ r.at \in {"wait", "done", "bad"} /\ r.step # "none" /\ r.at # "idle"
      /\ UNCHANGED <<pen, mixed, crossed, lied>> /\ Unlinks(c) /\ Fails(c)
  BY Typed DEF Refuses, TransferTimesOut, UsbAt, UsbTurn, Placed
<1>2. upset' \in BOOLEAN /\ (upset => upset') /\ (upset' \/ r.at = "bad")
  <2>1. CASE Refuses(c)
    BY <2>1, Typed DEF Refuses, UsbAt
  <2>2. CASE TransferTimesOut(c)
    BY <2>2, Zenon DEF TransferTimesOut
  <2> QED BY <2>1, <2>2
<1>3. host.list
  BY <1>1 DEF UsbListed, Listed
<1>4. /\ host' \in Hosts /\ (host'.list <=> host.list) /\ (host'.lazy <=> host.lazy)
      /\ \E r2 \in Transfers :
            /\ Placed(r2) /\ UsbGoes(c, r2)
            /\ r2.step = "none" \/ (r2.step = "cbw" /\ r2.at = "insert")
  BY <1>1, FailsForm
<1>5. PICK r2 \in Transfers : /\ Placed(r2) /\ UsbGoes(c, r2)
                              /\ r2.step = "none" \/ (r2.step = "cbw" /\ r2.at = "insert")
  BY <1>4
<1>6. ring' \in [Users \cup {"head"} -> Users \cup {"head"}]
  BY <1>1, UnlinksTyped
<1>7. UsbTypes' /\ usbcall'[c] = r2 /\ \A d \in Users \ {c} : usbcall'[d] = usbcall[d]
  BY <1>1, <1>2, <1>4, <1>5, <1>6, Typed, Turns
<1>8. Retries(r, host, pen, usbcall'[c], host', pen')
  BY <1>1, <1>5, <1>7 DEF Retries, SamePen
<1> QED BY <1>1, <1>2, <1>3, <1>4, <1>7, <1>8 DEF Moves

LEMMA Odd ==
  ASSUME NEW x \in 0 .. 1, NEW n \in Nat
  PROVE  (IF n % 2 = 1 THEN 1 - x ELSE x) = (x + n) % 2
<1>1. CASE x = 0
  BY <1>1, Z3
<1>2. CASE x = 1
  BY <1>2, Z3
<1> QED BY <1>1, <1>2

FlipTo(h, s, o, i) == s = [h EXCEPT !.out = o, !.in = i]
LEMMA FlipIs ==
  ASSUME NEW h \in Hosts, NEW o \in 0 .. 1, NEW i \in 0 .. 1, NEW s, FlipTo(h, s, o, i)
  PROVE  /\ s \in Hosts /\ s.pair = h.pair /\ s.out = o /\ s.in = i
         /\ (s.list <=> h.list) /\ (s.lazy <=> h.lazy)
BY DEF Hosts, FlipTo

LazyTo(h, s) == \E l : s = [h EXCEPT !.lazy = @ \/ l]
LEMMA LazyIs ==
  ASSUME NEW h \in Hosts, NEW s, LazyTo(h, s)
  PROVE  /\ s \in Hosts /\ s.pair = h.pair /\ s.out = h.out /\ s.in = h.in
         /\ (s.list <=> h.list)
<1>0. PICK l : s = [h EXCEPT !.lazy = @ \/ l]
  BY DEF LazyTo
<1> DEFINE b == h.lazy \/ l
<1>1. b \in BOOLEAN
  BY Zenon
<1>2. s = [h EXCEPT !.lazy = b]
  BY <1>0
<1> HIDE DEF b
<1> QED BY <1>1, <1>2, Zenon DEF Hosts

LEMMA StepForm ==
  ASSUME NEW r \in Transfers, NEW step \in {"data", "csw"}
  PROVE  LET s == [r EXCEPT !.at = "insert", !.step = step]
         IN  /\ s \in Transfers /\ s.at = "insert" /\ s.step = step /\ s.job = r.job
             /\ s.block = r.block /\ s.n = r.n /\ (s.waking <=> r.waking) /\ s.data = r.data
BY DEF Transfers

LEMMA SucceedsStep ==
  ASSUME UsbTypes, UsbListed, NEW c \in Users, Succeeds(c)
  PROVE  UsbTypes' /\ Moves(c)
<1> DEFINE r == usbcall[c]
<1>0. r \in Transfers /\ Placed(r) /\ host \in Hosts
  BY Typed
<1>1. /\ UsbTurn(c) /\ r.at = "done" /\ r.step # "none" /\ r.at # "idle"
      /\ UNCHANGED <<pen, upset, mixed, crossed>> /\ Unlinks(c)
  BY <1>0 DEF Succeeds, UsbAt, UsbTurn, Placed
<1>2. host.list /\ ring' \in [Users \cup {"head"} -> Users \cup {"head"}]
  BY <1>1, UnlinksTyped DEF UsbListed, Listed
<1> DEFINE o == IF OddPackets(r) /\ r.step = "cbw" THEN Flip(host.out) ELSE host.out
           i == IF OddPackets(r) /\ r.step \in {"data", "csw"} THEN Flip(host.in) ELSE host.in
           done == [host EXCEPT !.out = o, !.in = i]
<1>3. o \in 0 .. 1 /\ i \in 0 .. 1 /\ host.out \in 0 .. 1 /\ host.in \in 0 .. 1
  BY <1>0 DEF Hosts, Flip
<1>4. /\ r.step = "cbw" => o = 1 - host.out /\ i = host.in
      /\ r.step = "data" => o = host.out /\ i = (host.in + Sent(r)) % 2
      /\ r.step = "csw" => o = host.out /\ i = 1 - host.in
  <2>1. CASE r.step = "cbw" \/ r.step = "csw"
    BY <2>1, 1 % 2 = 1 DEF OddPackets, Packets, Flip
  <2>2. CASE r.step = "data"
    <3>1. Packets(r) = Sent(r) /\ Sent(r) \in Nat
      BY <1>0, <2>2 DEF Packets, Sent, Transfers
    <3>2. (IF Sent(r) % 2 = 1 THEN 1 - host.in ELSE host.in) = (host.in + Sent(r)) % 2
      BY <1>3, <3>1, Odd
    <3>3. o = host.out /\ i = (IF Sent(r) % 2 = 1 THEN 1 - host.in ELSE host.in)
      BY <2>2, <3>1 DEF OddPackets, Flip
    <3> QED BY <2>2, <3>2, <3>3
  <2> QED BY <2>1, <2>2
<1> HIDE DEF o, i
<1>5. CASE r.step = "config"
  <2> DEFINE s == [r EXCEPT !.tries = 1]
             r2 == UsbCommand(s)
  <2>1. 1 \in 0 .. Tries
    BY UsbAssumption
  <2>2. s \in Transfers /\ s.job = r.job /\ s.n = r.n /\ (s.waking <=> r.waking)
    BY <1>0, <2>1, TriesForm
  <2>3. host' = [host EXCEPT !.pair = 1, !.out = 0, !.in = 0] /\ UNCHANGED lied /\ UsbGoes(c, r2)
    BY <1>5 DEF Succeeds
  <2> HIDE DEF s
  <2>4. r2 \in Transfers /\ Placed(r2) /\ r2.at = "insert" /\ r2.step = "cbw" /\ r2.waking
    BY <1>0, <1>5, <2>2, CommandForm DEF Placed
  <2> HIDE DEF r2
  <2>5. /\ host' \in Hosts /\ host'.pair = 1 /\ host'.out = 0 /\ host'.in = 0
        /\ (host'.list <=> host.list) /\ (host'.lazy <=> host.lazy)
    <3>1. 1 \in 1 .. 3 /\ 0 \in 0 .. 1
      OBVIOUS
    <3>2. PairTo(host, host', 1, 0, 0)
      BY <2>3 DEF PairTo
    <3> QED BY <1>0, <3>1, <3>2, PairIs
  <2>6. UsbTypes' /\ usbcall'[c] = r2 /\ \A d \in Users \ {c} : usbcall'[d] = usbcall[d]
    BY <1>1, <1>2, <2>3, <2>4, <2>5, Typed, Turns
  <2>7. Wakens(r, host, pen, usbcall'[c], host', pen')
    BY <1>1, <1>5, <2>4, <2>5, <2>6 DEF Wakens, SamePen
  <2> QED BY <1>1, <1>2, <2>3, <2>5, <2>6, <2>7 DEF Moves, Driver
<1>6. CASE r.step \in {"cbw", "data"}
  <2> DEFINE step == Next3[r.step]
             r2 == [r EXCEPT !.at = "insert", !.step = step]
  <2>1. /\ step \in {"data", "csw"}
        /\ r.step = "cbw" => step = "data"
        /\ r.step = "data" => step = "csw"
    BY <1>6 DEF Next3
  <2>2. host' = done /\ UNCHANGED lied /\ UsbGoes(c, r2)
    BY <1>6, Zenon DEF Succeeds, o, i
  <2> HIDE DEF step
  <2>3. /\ r2 \in Transfers /\ r2.at = "insert" /\ r2.step = step /\ r2.job = r.job
        /\ r2.block = r.block /\ r2.n = r.n /\ (r2.waking <=> r.waking) /\ r2.data = r.data
    BY <1>0, <2>1, StepForm
  <2> HIDE DEF r2
  <2>4. Placed(r2)
    BY <1>0, <1>6, <2>1, <2>3 DEF Placed
  <2>5. /\ host' \in Hosts /\ host'.pair = host.pair /\ host'.out = o /\ host'.in = i
        /\ (host'.list <=> host.list) /\ (host'.lazy <=> host.lazy)
    <3>1. FlipTo(host, host', o, i)
      BY <2>2 DEF FlipTo
    <3> QED BY <1>0, <1>3, <3>1, FlipIs
  <2>6. UsbTypes' /\ usbcall'[c] = r2 /\ \A d \in Users \ {c} : usbcall'[d] = usbcall[d]
    BY <1>1, <1>2, <2>2, <2>3, <2>4, <2>5, Typed, Turns
  <2>7. EndsCbw(r, host, pen, usbcall'[c], host', pen') \/ EndsData(r, host, pen, usbcall'[c], host', pen')
    BY <1>1, <1>4, <1>6, <2>1, <2>3, <2>5, <2>6, KinForm DEF EndsCbw, EndsData, SamePen
  <2> QED BY <1>1, <1>2, <2>2, <2>5, <2>6, <2>7 DEF Moves, Driver
<1>7. CASE r.step = "csw"
  <2>1. /\ host' = [done EXCEPT !.lazy = @ \/ (r.waking /\ r.job = "read")]
        /\ IF r.waking THEN Wakes(c) /\ UNCHANGED lied
           ELSE Ends(c) /\ lied' = (lied \/ r.data # r.block)
    BY <1>7, Zenon DEF Succeeds, o, i
  <2>2. /\ host' \in Hosts /\ host'.pair = host.pair /\ host'.out = o /\ host'.in = i
        /\ (host'.list <=> host.list)
    <3>1. /\ done \in Hosts /\ done.pair = host.pair /\ done.out = o /\ done.in = i
          /\ (done.list <=> host.list)
      <4>1. FlipTo(host, done, o, i)
        BY DEF FlipTo
      <4> HIDE DEF done
      <4> QED BY <1>0, <1>3, <4>1, FlipIs
    <3> HIDE DEF done
    <3>2. /\ host' \in Hosts /\ host'.pair = done.pair /\ host'.out = done.out /\ host'.in = done.in
          /\ (host'.list <=> done.list)
      <4>1. LazyTo(done, host')
        BY <2>1, Zenon DEF LazyTo, done
      <4> QED BY <3>1, <4>1, LazyIs
    <3> QED BY <3>1, <3>2
  <2>3. lied' \in BOOLEAN /\ (lied' => lied \/ (~r.waking /\ r.data # r.block))
    <3>1. CASE r.waking
      BY <2>1, <3>1, Typed
    <3>2. CASE ~r.waking
      BY <2>1, <3>2, Zenon
    <3> QED BY <3>1, <3>2
  <2>4. PICK r2 \in Transfers :
          /\ Placed(r2) /\ UsbGoes(c, r2)
          /\ r2.step = "none" \/ (r2.step = "cbw" /\ r2.at = "insert" /\ ~r2.waking)
    <3>1. CASE r.waking /\ r.job = "read"
      <4> DEFINE s == [r EXCEPT !.waking = FALSE]
      <4>1. s \in Transfers /\ ~s.waking /\ s.job = r.job /\ s.n = r.n
        BY <1>0, AwakeForm
      <4>2. UsbGoes(c, UsbCommand(s))
        BY <2>1, <3>1, <4>1 DEF Wakes
      <4> HIDE DEF s
      <4>3. UsbCommand(s) \in Transfers /\ UsbCommand(s).at = "insert" /\ UsbCommand(s).step = "cbw"
            /\ UsbCommand(s).job = s.job /\ UsbCommand(s).n = s.n /\ ~UsbCommand(s).waking
        BY <4>1, CommandForm
      <4>4. Placed(UsbCommand(s))
        BY <1>0, <3>1, <4>1, <4>3 DEF Placed
      <4> QED BY <4>2, <4>3, <4>4
    <3>2. CASE r.waking /\ r.job # "read"
      <4> DEFINE s == [r EXCEPT !.waking = FALSE]
      <4>1. s.job = r.job
        BY <1>0, AwakeForm
      <4>2. UsbGoes(c, NoTransfer)
        BY <2>1, <3>2, <4>1 DEF Wakes, Ends
      <4> QED BY <4>2, NoneForm
    <3>3. CASE ~r.waking
      BY <2>1, <3>3, NoneForm DEF Ends
    <3> QED BY <3>1, <3>2, <3>3
  <2>5. UsbTypes' /\ usbcall'[c] = r2 /\ \A d \in Users \ {c} : usbcall'[d] = usbcall[d]
    BY <1>1, <1>2, <2>2, <2>3, <2>4, Typed, Turns
  <2>6. EndsCsw(r, host, pen, usbcall'[c], host', pen')
    BY <1>1, <1>4, <1>7, <2>2, <2>4, <2>5 DEF EndsCsw, SamePen
  <2> QED BY <1>1, <1>2, <1>7, <2>2, <2>3, <2>5, <2>6 DEF Moves, Driver
<1> QED BY <1>0, <1>1, <1>5, <1>6, <1>7 DEF Transfers

-----------------------------------------------------------------------------
(* The controller's actions. *)

LEMMA ServesForm ==
  ASSUME UsbTypes, UsbListed, NEW c \in Users, NEW r2, Serves(c, "wait", r2)
  PROVE  /\ usbcall[c].at = "wait" /\ usbcall[c].at # "idle" /\ usbcall[c].step # "none"
         /\ host.list /\ UsbGoes(c, r2)
         /\ UNCHANGED <<host, ring, upset, mixed, crossed, lied>>
<1>1. usbcall[c].at = "wait" /\ UsbGoes(c, r2) /\ UNCHANGED <<host, ring, upset, mixed, crossed, lied>>
  BY DEF Serves, UsbGoes
<1>2. usbcall[c].step # "none"
  BY <1>1, Typed DEF Placed
<1>3. host.list
  BY <1>1 DEF UsbListed, Listed
<1> QED BY <1>1, <1>2, <1>3

LEMMA ServedForm ==
  ASSUME NEW r \in Transfers, r.step \in {"config", "cbw"}, Placed(r)
  PROVE  LET s == [r EXCEPT !.at = "done"]
         IN  /\ s \in Transfers /\ Placed(s) /\ s.at = "done" /\ s.step = r.step
             /\ s.block = r.block /\ s.n = r.n /\ (s.waking <=> r.waking)
BY DEF Transfers, Placed

PenTo(p, s, o, i, q) == s = [p EXCEPT !.set = TRUE, !.out = o, !.in = i, !.queue = q]
LEMMA PenIs ==
  ASSUME NEW p \in Pens, NEW s, NEW o \in 0 .. 1, NEW i \in 0 .. 1,
         NEW q \in Seq({"data", "csw", Capacity}), PenTo(p, s, o, i, q)
  PROVE  s \in Pens /\ s.set /\ s.out = o /\ s.in = i /\ s.queue = q /\ s.block = p.block
         /\ s.ends = p.ends
BY Zenon DEF Pens, PenTo

LEMMA PenConfiguresStep ==
  ASSUME UsbTypes, UsbListed, NEW c \in Users, PenConfigures(c)
  PROVE  UsbTypes' /\ Moves(c)
<1> DEFINE r == usbcall[c]
           r2 == [r EXCEPT !.at = "done"]
<1>0. r \in Transfers /\ Placed(r) /\ pen \in Pens
  BY Typed
<1>1. r.step = "config" /\ Serves(c, "wait", r2)
  BY DEF PenConfigures
<1>2. /\ r2 \in Transfers /\ Placed(r2) /\ r2.at = "done" /\ r2.step = "config"
  BY <1>0, <1>1, ServedForm
<1> HIDE DEF r2
<1>3. /\ r.at = "wait" /\ r.at # "idle" /\ host.list /\ UsbGoes(c, r2)
      /\ UNCHANGED <<host, ring, upset, mixed, crossed, lied>>
  BY <1>1, ServesForm
<1>4. PICK q \in {<< >>, pen.queue} : PenTo(pen, pen', 0, 0, q)
  BY DEF PenConfigures, PenTo
<1>5. q \in Seq({"data", "csw", Capacity}) /\ (q = pen.queue \/ Left(q) = 0)
  <2>1. pen.queue \in Seq({"data", "csw", Capacity})
    BY <1>0 DEF Pens
  <2>2. Left(<< >>) = 0
    BY DEF Left
  <2>3. << >> \in Seq({"data", "csw", Capacity})
    OBVIOUS
  <2>4. CASE q = << >>
    BY <2>2, <2>3, <2>4
  <2>5. CASE q = pen.queue
    BY <2>1, <2>5
  <2> QED BY <2>4, <2>5
<1>6. pen' \in Pens /\ pen'.set /\ pen'.out = 0 /\ pen'.in = 0 /\ pen'.queue = q
      /\ pen'.block = pen.block /\ pen'.ends = pen.ends
  <2>1. 0 \in 0 .. 1 OBVIOUS
  <2> QED BY <1>0, <1>4, <1>5, <2>1, PenIs
<1>7. UsbTypes' /\ usbcall'[c] = r2 /\ \A d \in Users \ {c} : usbcall'[d] = usbcall[d]
  BY <1>2, <1>3, <1>6, Typed, Turns
<1>8. Configures(r, host, pen, usbcall'[c], host', pen')
  BY <1>1, <1>2, <1>3, <1>5, <1>6, <1>7 DEF Configures, SameHost
<1> QED BY <1>3, <1>7, <1>8 DEF Moves, Controller

LEMMA AnswerForm ==
  ASSUME NEW r \in Transfers
  PROVE  /\ Answer(r) \in Seq({"data", "csw", Capacity})
         /\ Shaped(Item(r), Answer(r)) /\ Left(Answer(r)) = Sent(r) + 1
<1>1. CASE r.waking
  BY <1>1 DEF Answer, Shaped, Item, Left, Sent
<1>2. CASE ~r.waking
  <2> DEFINE n == r.n
             q == [i \in 1 .. n |-> "data"]
  <2>1. n \in Nat
    BY DEF Transfers
  <2> HIDE DEF n
  <2>2. q \in Seq({"data", "csw", Capacity}) /\ Len(q) = n /\ \A i \in 1 .. n : q[i] = "data"
    BY <2>1
  <2> HIDE DEF q
  <2>3. Answer(r) = q \o <<"csw">> /\ Sent(r) = n /\ Item(r) = "data"
    BY <1>2 DEF Answer, Sent, Item, q, n
  <2>4. /\ q \o <<"csw">> \in Seq({"data", "csw", Capacity}) /\ Len(q \o <<"csw">>) = n + 1
        /\ (q \o <<"csw">>)[n + 1] = "csw" /\ \A i \in 1 .. n : (q \o <<"csw">>)[i] = "data"
    BY <2>1, <2>2
  <2> QED BY <2>1, <2>3, <2>4 DEF Shaped, Left
<1> QED BY <1>1, <1>2

TakesTo(p, s, o, q, b) == s = [p EXCEPT !.out = o, !.queue = q, !.block = b]
LEMMA TakesIs ==
  ASSUME NEW p \in Pens, NEW s, NEW o \in 0 .. 1, NEW b \in Blocks \cup {"none", Capacity},
         NEW q \in Seq({"data", "csw", Capacity}), TakesTo(p, s, o, q, b)
  PROVE  s \in Pens /\ (s.set <=> p.set) /\ s.out = o /\ s.in = p.in /\ s.queue = q /\ s.block = b
         /\ s.ends = p.ends
BY DEF Pens, TakesTo

LEMMA PenTakesCbwStep ==
  ASSUME UsbTypes, UsbListed, NEW c \in Users, PenTakesCbw(c)
  PROVE  UsbTypes' /\ Moves(c)
<1> DEFINE r == usbcall[c]
           r2 == [r EXCEPT !.at = "done"]
<1>0. r \in Transfers /\ Placed(r) /\ pen \in Pens
  BY Typed
<1>1. r.step = "cbw" /\ Serves(c, "wait", r2) /\ Reached(host, pen, 1) /\ Left(pen.queue) = 0
  BY DEF PenTakesCbw, Reaches, Reached, Left
<1>2. /\ r2 \in Transfers /\ Placed(r2) /\ r2.at = "done" /\ r2.step = "cbw"
      /\ r2.block = r.block /\ r2.n = r.n /\ (r2.waking <=> r.waking)
  BY <1>0, <1>1, ServedForm
<1> HIDE DEF r2
<1>3. /\ r.at = "wait" /\ r.at # "idle" /\ host.list /\ UsbGoes(c, r2)
      /\ UNCHANGED <<host, ring, upset, mixed, crossed, lied>>
  BY <1>1, ServesForm
<1>4. CASE r.bit # pen.out
  <2>1. pen' = pen
    BY <1>4 DEF PenTakesCbw
  <2>2. UsbTypes' /\ usbcall'[c] = r2 /\ \A d \in Users \ {c} : usbcall'[d] = usbcall[d]
    BY <1>0, <1>2, <1>3, <2>1, Typed, Turns
  <2>3. Drops(r, host, pen, usbcall'[c], host', pen')
    BY <1>1, <1>2, <1>3, <1>4, <2>1, <2>2, KinForm DEF Drops, SameHost, SamePen
  <2> QED BY <1>3, <2>2, <2>3 DEF Moves, Controller
<1>5. CASE r.bit = pen.out
  <2> DEFINE b == IF r.waking THEN Capacity ELSE r.block
             o == 1 - pen.out
  <2>1. TakesTo(pen, pen', o, Answer(r), b)
    BY <1>5 DEF PenTakesCbw, TakesTo, Flip
  <2>2. o \in 0 .. 1 /\ b \in Blocks \cup {"none", Capacity} /\ (~r.waking => b = r.block)
    BY <1>0 DEF Pens, Transfers
  <2> HIDE DEF o, b
  <2>3. /\ Answer(r) \in Seq({"data", "csw", Capacity})
        /\ Shaped(Item(r), Answer(r)) /\ Left(Answer(r)) = Sent(r) + 1
    BY <1>0, AnswerForm
  <2>4. pen' \in Pens /\ (pen'.set <=> pen.set) /\ pen'.out = o /\ pen'.in = pen.in
        /\ pen'.queue = Answer(r) /\ pen'.block = b /\ pen'.ends = pen.ends
    BY <1>0, <2>1, <2>2, <2>3, TakesIs
  <2>5. UsbTypes' /\ usbcall'[c] = r2 /\ \A d \in Users \ {c} : usbcall'[d] = usbcall[d]
    BY <1>0, <1>2, <1>3, <2>4, Typed, Turns
  <2>6. Takes(r, host, pen, usbcall'[c], host', pen')
    BY <1>1, <1>2, <1>3, <1>5, <2>2, <2>3, <2>4, <2>5, KinForm DEF Takes, SameHost, Reached, o
  <2> QED BY <1>3, <2>5, <2>6 DEF Moves, Controller
<1> QED BY <1>4, <1>5

SendsTo(p, s, i, q) == s = [p EXCEPT !.in = i, !.queue = q]
LEMMA SendsIs ==
  ASSUME NEW p \in Pens, NEW s, NEW i \in 0 .. 1, NEW q \in Seq({"data", "csw", Capacity}),
         SendsTo(p, s, i, q)
  PROVE  s \in Pens /\ (s.set <=> p.set) /\ s.out = p.out /\ s.in = i /\ s.queue = q
         /\ s.block = p.block /\ s.ends = p.ends
BY DEF Pens, SendsTo

GetsTo(r, s, d, at) == s = [r EXCEPT !.bit = 1 - @, !.taken = @ + 1, !.data = d, !.at = at]
LEMMA GetsIs ==
  ASSUME NEW r \in Transfers, NEW s, NEW d \in Blocks \cup {"none", "garbled", Capacity},
         NEW at \in {"wait", "done", "bad"}, GetsTo(r, s, d, at)
  PROVE  /\ s \in Transfers /\ s.bit = 1 - r.bit /\ s.taken = r.taken + 1 /\ s.data = d /\ s.at = at
         /\ s.step = r.step /\ s.block = r.block /\ s.n = r.n /\ (s.waking <=> r.waking)
         /\ s.job = r.job /\ s.tries = r.tries
<1>1. r.bit \in 0 .. 1 /\ r.taken \in Nat
  BY DEF Transfers
<1>2. 1 - r.bit \in 0 .. 1 /\ r.taken + 1 \in Nat
  BY <1>1
<1> DEFINE b == 1 - r.bit
           t == r.taken + 1
           u == [r EXCEPT !.bit = b, !.taken = t]
<1>3. b \in 0 .. 1 /\ t \in Nat /\ s = [u EXCEPT !.data = d, !.at = at]
  BY <1>2 DEF GetsTo
<1> HIDE DEF b, t
<1>4. /\ u \in Transfers /\ u.bit = b /\ u.taken = t
      /\ u.step = r.step /\ u.block = r.block /\ u.n = r.n /\ (u.waking <=> r.waking)
      /\ u.job = r.job /\ u.tries = r.tries
  BY <1>3 DEF Transfers
<1> HIDE DEF u
<1>5. /\ s \in Transfers /\ s.bit = u.bit /\ s.taken = u.taken /\ s.data = d /\ s.at = at
      /\ s.step = u.step /\ s.block = u.block /\ s.n = u.n /\ (s.waking <=> u.waking)
      /\ s.job = u.job /\ s.tries = u.tries
  BY <1>3, <1>4 DEF Transfers
<1> QED BY <1>4, <1>5 DEF b, t

LEMMA PenSendsStep ==
  ASSUME UsbTypes, UsbListed, NEW c \in Users, PenSends(c)
  PROVE  UsbTypes' /\ Moves(c)
<1> DEFINE r == usbcall[c]
           p == Head(pen.queue)
           ends == p # "data" \/ r.taken + 1 >= Packets(r)
           ok == IF r.step = "data" THEN TRUE ELSE p = "csw"
           d == IF r.step = "csw" THEN r.data ELSE IF p = "csw" THEN "garbled" ELSE pen.block
           at == IF ~ends THEN "wait" ELSE IF ok THEN "done" ELSE "bad"
           r2 == IF r.bit # pen.in THEN r
                 ELSE [r EXCEPT !.bit = Flip(@), !.taken = @ + 1,
                            !.data = IF r.step = "csw" THEN @
                                     ELSE IF p = "csw" THEN "garbled" ELSE pen.block,
                            !.at = IF ~ends THEN "wait" ELSE IF ok THEN "done" ELSE "bad"]
<1>0. r \in Transfers /\ Placed(r) /\ pen \in Pens
  BY Typed
<1>1. /\ r.step \in {"data", "csw"} /\ Reached(host, pen, 2) /\ pen.queue # << >>
      /\ r.step = "data" \/ p # "data"
      /\ SendsTo(pen, pen', 1 - pen.in, Tail(pen.queue)) /\ Serves(c, "wait", r2)
  BY DEF PenSends, Reaches, Reached, SendsTo, Flip
<1>2. /\ pen.queue \in Seq({"data", "csw", Capacity}) /\ Left(pen.queue) > 0
      /\ Tail(pen.queue) \in Seq({"data", "csw", Capacity})
  BY <1>0, <1>1 DEF Pens, Left
<1>3. /\ pen' \in Pens /\ (pen'.set <=> pen.set) /\ pen'.out = pen.out /\ pen'.in = 1 - pen.in
      /\ pen'.queue = Tail(pen.queue) /\ pen'.block = pen.block /\ pen'.ends = pen.ends
  <2>1. 1 - pen.in \in 0 .. 1
    BY <1>0 DEF Pens
  <2> QED BY <1>0, <1>1, <1>2, <2>1, SendsIs
<1>4. /\ r.at = "wait" /\ r.at # "idle" /\ host.list /\ UsbGoes(c, r2)
      /\ UNCHANGED <<host, ring, upset, mixed, crossed, lied>>
  BY <1>1, ServesForm
<1>5. Pops(host, pen, host', pen')
  BY <1>1, <1>2, <1>3, <1>4 DEF Pops, SameHost, Reached
<1>6. CASE r.bit # pen.in
  <2>1. r2 = r
    BY <1>6
  <2>2. UsbTypes' /\ usbcall'[c] = r /\ \A e \in Users \ {c} : usbcall'[e] = usbcall[e]
    BY <1>0, <1>3, <1>4, <2>1, Typed, Turns
  <2>3. Loses(r, host, pen, usbcall'[c], host', pen')
    BY <1>1, <1>4, <1>5, <1>6, <2>2 DEF Loses
  <2> HIDE DEF r2
  <2> QED BY <1>4, <2>2, <2>3 DEF Moves, Controller
<1>7. CASE r.bit = pen.in
  <2>1. GetsTo(r, r2, d, at)
    BY <1>7 DEF GetsTo, Flip
  <2>2. d \in Blocks \cup {"none", "garbled", Capacity} /\ (r.step = "csw" => d = r.data)
        /\ (r.step = "data" /\ p # "csw" => d = pen.block)
    <3>1. pen.block \in Blocks \cup {"none", Capacity}
          /\ r.data \in Blocks \cup {"none", "garbled", Capacity}
      BY <1>0 DEF Pens, Transfers
    <3> QED BY <3>1
  <2>3. /\ at \in {"wait", "done", "bad"} /\ (at = "bad" => r.step = "csw")
        /\ r.step = "csw" => at = (IF p = "csw" THEN "done" ELSE "bad")
        /\ r.step = "data" => at = (IF p = "data" /\ r.taken + 1 < Sent(r) THEN "wait" ELSE "done")
    <3>1. CASE r.step = "csw"
      BY <1>1, <3>1
    <3>2. CASE r.step = "data"
      <4>1. Packets(r) = Sent(r) /\ Sent(r) \in Nat /\ r.taken \in Nat
        BY <1>0, <3>2 DEF Packets, Sent, Transfers
      <4> QED BY <3>2, <4>1
    <3> QED BY <1>1, <3>1, <3>2
  <2> HIDE DEF r2, d, at
  <2>4. /\ r2 \in Transfers /\ r2.bit = 1 - r.bit /\ r2.taken = r.taken + 1 /\ r2.data = d
        /\ r2.at = at /\ r2.step = r.step /\ r2.block = r.block /\ r2.n = r.n
        /\ (r2.waking <=> r.waking) /\ r2.job = r.job /\ r2.tries = r.tries
    BY <1>0, <2>1, <2>2, <2>3, GetsIs
  <2>5. Placed(r2)
    BY <1>0, <1>1, <1>4, <2>3, <2>4 DEF Placed
  <2>6. UsbTypes' /\ usbcall'[c] = r2 /\ \A e \in Users \ {c} : usbcall'[e] = usbcall[e]
    BY <1>3, <1>4, <2>4, <2>5, Typed, Turns
  <2>7. Gets(r, host, pen, usbcall'[c], host', pen')
    BY <1>1, <1>4, <1>5, <1>7, <2>2, <2>3, <2>4, <2>6, KinForm DEF Gets
  <2> QED BY <1>4, <2>6, <2>7 DEF Moves, Controller
<1> QED BY <1>6, <1>7


-----------------------------------------------------------------------------
(* The invariant. *)

LEMMA UsbMoves ==
  ASSUME UsbTypes, UsbListed, UsbNext
  PROVE  UsbTypes' /\ \E c \in Users : Moves(c)
<1>1. PICK c \in Users :
        \/ Reads(c) \/ Wants(c)
        \/ ResetsCore(c) \/ StartsList(c) \/ Identifies(c)
        \/ Inserts(c) \/ Succeeds(c) \/ Refuses(c) \/ TransferTimesOut(c)
        \/ PenConfigures(c) \/ PenTakesCbw(c) \/ PenSends(c)
  BY DEF UsbNext
<1> QED BY <1>1, ReadsStep, WantsStep, ResetsCoreStep, StartsListStep, IdentifiesStep, InsertsStep,
           SucceedsStep, RefusesStep, PenConfiguresStep, PenTakesCbwStep, PenSendsStep

LEMMA RangedForm ==
  ASSUME UsbTypes, NEW c \in Users
  PROVE  /\ Ranged(usbcall[c], host, pen) /\ Hardware(pen) /\ usbcall[c].bit \in 0 .. 1
         /\ (usbcall[c].at = "idle" => usbcall[c].step = "none")
<1> DEFINE r == usbcall[c]
<1>1. r \in Transfers /\ Placed(r) /\ host \in Hosts /\ pen \in Pens
  BY Typed
<1>2. /\ host.out \in 0 .. 1 /\ host.in \in 0 .. 1 /\ pen.out \in 0 .. 1 /\ pen.in \in 0 .. 1
      /\ r.bit \in 0 .. 1 /\ r.taken \in Nat /\ r.n \in Nat
      /\ pen.queue \in Seq({"data", "csw", Capacity}) /\ Left(pen.queue) \in Nat
  BY <1>1 DEF Hosts, Pens, Transfers, Left
<1>3. pen.ends \in {Pairs[k] : k \in 1 .. 3}
  BY <1>1 DEF Pens
<1>4. Hardware(pen)
  BY <1>3 DEF Hardware, Pairs
<1>5. /\ r.step \in {"cbw", "data", "csw"} => Sent(r) \in Nat /\ Sent(r) > 0
      /\ Item(r) \in {"data", Capacity}
      /\ Item(r) # "data" => Sent(r) = 1
      /\ r.at = "idle" => r.step = "none"
  BY <1>1, <1>2 DEF Placed, Sent, Item
<1> QED BY <1>2, <1>4, <1>5 DEF Ranged

LEMMA ListedMoves ==
  ASSUME UsbListed, NEW c \in Users, Moves(c)
  PROVE  UsbListed'
<1>1. host'.lazy => host'.list
  BY DEF Moves, UsbListed
<1>2. ASSUME NEW d \in Users, Listed(usbcall'[d])
      PROVE  host'.list
  <2>1. CASE d = c
    BY <1>2, <2>1 DEF Moves
  <2>2. CASE d # c
    <3>1. usbcall'[d] = usbcall[d]
      BY <2>2 DEF Moves
    <3> QED BY <1>2, <3>1 DEF Moves, UsbListed
  <2> QED BY <2>1, <2>2
<1> QED BY <1>1, <1>2 DEF UsbListed

\* Who else is in a call.
LEMMA LoneMoves ==
  ASSUME UsbFew, NEW c \in Users, Moves(c)
  PROVE  /\ mixed => mixed'
         /\ crossed => crossed'
         /\ ~mixed' => Alone(c)
         /\ ~crossed' /\ c # App => \A d \in Kernel \ {c} : usbcall[d].at = "idle"
<1>1. (mixed => mixed') /\ (crossed => crossed')
  BY DEF Moves
<1>2. ASSUME ~mixed' PROVE Alone(c)
  <2>1. CASE usbcall[c].at # "idle"
    BY <1>1, <1>2, <2>1 DEF UsbFew, Alone
  <2>2. CASE usbcall[c].at = "idle"
    BY <1>2, <2>2 DEF Moves
  <2> QED BY <2>1, <2>2
<1>3. ASSUME ~crossed', c # App PROVE \A d \in Kernel \ {c} : usbcall[d].at = "idle"
  <2>1. CASE usbcall[c].at # "idle"
    BY <1>1, <1>3, <2>1 DEF UsbFew, Kernel
  <2>2. CASE usbcall[c].at = "idle"
    <3>1. Alone(c)
      BY <1>3, <2>2 DEF Moves
    <3> QED BY <3>1 DEF Alone, Kernel
  <2> QED BY <2>1, <2>2
<1> QED BY <1>1, <1>2, <1>3

LEMMA FewMoves ==
  ASSUME UsbFew, NEW c \in Users, Moves(c)
  PROVE  UsbFew'
<1>1. /\ mixed => mixed'
      /\ crossed => crossed'
      /\ ~mixed' => Alone(c)
      /\ ~crossed' /\ c # App => \A d \in Kernel \ {c} : usbcall[d].at = "idle"
  BY LoneMoves
<1>2. \A d \in Users \ {c} : usbcall'[d] = usbcall[d]
  BY DEF Moves
<1>3. ASSUME ~mixed', NEW b \in Users, NEW d \in Users, usbcall'[b].at # "idle", usbcall'[d].at # "idle"
      PROVE  b = d
  BY <1>1, <1>2, <1>3 DEF Alone
<1>4. ASSUME ~crossed', NEW b \in Kernel, NEW d \in Kernel,
             usbcall'[b].at # "idle", usbcall'[d].at # "idle"
      PROVE  b = d
  <2>1. CASE c = App
    BY <1>1, <1>2, <1>4, <2>1 DEF UsbFew, Kernel
  <2>2. CASE c # App
    BY <1>1, <1>2, <1>4, <2>2 DEF Kernel
  <2> QED BY <2>1, <2>2
<1> QED BY <1>3, <1>4 DEF UsbFew

\* What the call of c has is its own, also when the program's call is between.
LEMMA OwnTrue ==
  ASSUME UsbInv, NEW c \in Users, Moves(c), ~crossed, ~mixed \/ ~upset,
         usbcall[c].step = "csw" /\ usbcall[c].at = "done"
  PROVE  Reading(usbcall[c], pen.queue, pen.block)
<1>1. CASE ~mixed
  BY <1>1 DEF UsbInv, UsbSolo
<1>2. CASE ~upset /\ c = App
  BY <1>2 DEF UsbInv, UsbBeside
<1>3. CASE ~upset /\ c # App
  <2>1. Beside(usbcall[c], usbcall[App], host, pen)
    BY <1>3 DEF UsbInv, UsbBeside, Kernel
  <2>2. usbcall[App].at = "idle" \/ Controller(usbcall[c], host, pen, usbcall'[c], host', pen')
    BY <1>3 DEF Moves, UsbTurn
  <2>3. ~Controller(usbcall[c], host, pen, usbcall'[c], host', pen')
    BY DEF Controller, Configures, Drops, Takes, Loses, Gets
  <2>4. App \in Users
    BY DEF Users
  <2>5. usbcall[App].step = "none"
    BY <2>2, <2>3, <2>4, RangedForm DEF UsbInv
  <2>6. ~Mid(usbcall[App])
    BY <2>5, IdleReading
  <2> QED BY <2>1, <2>6 DEF Beside
<1> QED BY <1>1, <1>2, <1>3

LEMMA TruthMoves ==
  ASSUME UsbInv, NEW c \in Users, Moves(c)
  PROVE  UsbTruth'
<1>1. /\ mixed => mixed'
      /\ crossed => crossed'
      /\ upset => upset'
  BY LoneMoves DEF UsbInv, Moves
<1>2. SUFFICES ASSUME ~crossed', ~(mixed' /\ upset'), lied'
               PROVE  FALSE
  BY DEF UsbTruth
<1>3. ~crossed /\ (~mixed \/ ~upset) /\ ~lied
  BY <1>1, <1>2 DEF UsbInv, UsbTruth
<1>4. /\ usbcall[c].step = "csw" /\ usbcall[c].at = "done" /\ ~usbcall[c].waking
      /\ usbcall[c].data # usbcall[c].block
  BY <1>2, <1>3 DEF Moves
<1>5. Reading(usbcall[c], pen.queue, pen.block)
  BY <1>3, <1>4, OwnTrue
<1> QED BY <1>4, <1>5 DEF Reading

LEMMA SoloMoves ==
  ASSUME UsbInv, NEW c \in Users, Moves(c)
  PROVE  UsbSolo'
<1>1. SUFFICES ASSUME ~mixed', NEW d \in Users
               PROVE  Reading(usbcall'[d], pen'.queue, pen'.block)
  BY DEF UsbSolo
<1>2. ~mixed /\ Alone(c)
  BY <1>1, LoneMoves DEF UsbInv
<1>3. Reading(usbcall[c], pen.queue, pen.block)
  BY <1>2 DEF UsbInv, UsbSolo
<1>4. CASE d = c
  <2>1. Ranged(usbcall[c], host, pen)
    BY RangedForm DEF UsbInv
  <2> QED BY <1>3, <1>4, <2>1, OwnDriver, OwnRetry, OwnController DEF Moves
<1>5. CASE d # c
  <2>1. usbcall'[d] = usbcall[d] /\ usbcall[d].at = "idle"
    BY <1>2, <1>5 DEF Moves, Alone
  <2>2. usbcall[d].step = "none"
    BY <2>1, RangedForm DEF UsbInv
  <2> QED BY <2>1, <2>2, IdleReading
<1> QED BY <1>4, <1>5

LEMMA CalmMoves ==
  ASSUME UsbInv, UsbTypes', NEW c \in Users, Moves(c)
  PROVE  UsbCalm'
<1>1. SUFFICES ASSUME ~mixed', ~upset', NEW d \in Users, Alone(d)'
               PROVE  Rest(usbcall'[d], host', pen')
  BY DEF UsbCalm
<1>2. ~mixed /\ ~upset /\ Alone(c)
  BY <1>1, LoneMoves DEF UsbInv, Moves
<1>3. Rest(usbcall[c], host, pen)
  BY <1>2 DEF UsbInv, UsbCalm
<1>4. Ranged(usbcall[c], host, pen) /\ Hardware(pen)
  BY RangedForm DEF UsbInv
<1>5. Rest(usbcall'[c], host', pen')
  <2>1. CASE usbcall[c].at = "bad"
    <3>1. usbcall[c].step = "csw"
      BY <2>1, Typed DEF UsbInv, Placed
    <3> QED BY <1>3, <2>1, <3>1 DEF Rest, Clean
  <2>2. CASE usbcall[c].at # "bad"
    BY <1>1, <1>3, <1>4, <2>2, RestDriver, RestController DEF Moves
  <2> QED BY <2>1, <2>2
<1>6. CASE d = c
  BY <1>5, <1>6
<1>7. CASE d # c
  <2>1. usbcall'[d] = usbcall[d] /\ usbcall[d].at = "idle" /\ usbcall'[c].at = "idle"
    BY <1>1, <1>2, <1>7 DEF Moves, Alone
  <2>2. usbcall[d].step = "none"
    BY <2>1, RangedForm DEF UsbInv
  <2>3. usbcall'[c].step = "none"
    BY <2>1 DEF UsbTypes, Placed
  <2> QED BY <1>5, <2>1, <2>2, <2>3, RestIdle
<1> QED BY <1>6, <1>7

LEMMA TakesAlone ==
  ASSUME NEW s, NEW a, NEW h, NEW p, NEW s2, NEW h2, NEW p2, Ranged(a, h, p), Beside(s, a, h, p),
         Takes(s, h, p, s2, h2, p2)
  PROVE  ~Mid(a)
<1>1. SUFFICES ASSUME Mid(a) PROVE FALSE
  OBVIOUS
<1> QED BY <1>1 DEF Takes, Beside, Clean, Ranged, Refused, Offers

\* A thread moves: what holds of it beside the program's call, and of those who are in no call.
LEMMA BesideThreadMoves ==
  ASSUME UsbInv, NEW c \in Kernel, Moves(c), ~upset', ~crossed'
  PROVE  UsbBeside'
<1> DEFINE s == usbcall[c]
           a == usbcall[App]
<1>0. c \in Users /\ c # App /\ App \in Users
  BY DEF Kernel, Users
<1>1. ~upset /\ ~crossed /\ \A d \in Kernel \ {c} : usbcall[d].at = "idle"
  BY <1>0, LoneMoves DEF UsbInv, Moves
<1>2. Reading(a, pen.queue, pen.block) /\ Beside(s, a, host, pen)
  BY <1>1 DEF UsbInv, UsbBeside
<1>3. Ranged(s, host, pen) /\ Ranged(a, host, pen) /\ (a.at = "idle" => a.step = "none")
  BY <1>0, RangedForm DEF UsbInv
<1>4. usbcall'[App] = a /\ \A d \in Kernel \ {c} : usbcall'[d] = usbcall[d]
  BY <1>0 DEF Moves, Kernel
<1> DEFINE s2 == usbcall'[c]
<1>5. \/ a.at = "idle" /\ (Driver(s, host, pen, s2, host', pen') \/ Retries(s, host, pen, s2, host', pen'))
      \/ Controller(s, host, pen, s2, host', pen')
  BY <1>0 DEF Moves, UsbTurn
<1> HIDE DEF s, a, s2
<1>6. Beside(s2, a, host', pen')
  BY <1>2, <1>3, <1>5, BesideThread, BesideOther
<1>7. Reading(a, pen'.queue, pen'.block)
  <2>1. Takes(s, host, pen, s2, host', pen') => ~Mid(a)
    BY <1>2, <1>3, TakesAlone
  <2> QED BY <1>2, <1>3, <1>5, <2>1, OthersRead
<1>8. ASSUME NEW d \in Kernel, d # c
      PROVE  Beside(usbcall'[d], a, host', pen')
  <2>1. usbcall'[d] = usbcall[d] /\ usbcall[d].at = "idle" /\ d \in Users
    BY <1>1, <1>4, <1>8 DEF Kernel
  <2>2. usbcall[d].step = "none"
    BY <2>1, RangedForm DEF UsbInv
  <2>3. Beside(usbcall[d], a, host', pen')
    BY <1>6, <2>2, BesideIdle
  <2> QED BY <2>1, <2>3
<1>9. \A d \in Kernel : Beside(usbcall'[d], a, host', pen')
  BY <1>6, <1>8 DEF s2
<1> QED BY <1>4, <1>7, <1>9 DEF UsbBeside, a

LEMMA BesideProgramMoves ==
  ASSUME UsbInv, Moves(App), ~upset', ~crossed'
  PROVE  UsbBeside'
<1> DEFINE a == usbcall[App]
           a2 == usbcall'[App]
<1>0. App \in Users
  BY DEF Users
<1>1. ~upset /\ ~crossed
  BY <1>0, LoneMoves DEF UsbInv, Moves
<1>2. Reading(a, pen.queue, pen.block) /\ \A d \in Kernel : Beside(usbcall[d], a, host, pen)
  BY <1>1 DEF UsbInv, UsbBeside
<1>3. Ranged(a, host, pen)
  BY <1>0, RangedForm DEF UsbInv
<1>4. \A d \in Kernel : usbcall'[d] = usbcall[d]
  BY DEF Moves, Kernel
<1>5. \/ Driver(a, host, pen, a2, host', pen')
      \/ a.at = "bad" /\ Retries(a, host, pen, a2, host', pen')
      \/ Controller(a, host, pen, a2, host', pen')
  BY DEF Moves
<1>6. a.at = "bad" => Mid(a)
  <2>1. a.at = "bad" => a.step = "csw"
    BY <1>0, Typed DEF UsbInv, Placed
  <2> QED BY <2>1 DEF Mid
<1> HIDE DEF a, a2
<1>7. Reading(a2, pen'.queue, pen'.block)
  BY <1>2, <1>3, <1>5, OwnDriver, OwnRetry, OwnController
<1>8. ASSUME NEW d \in Kernel
      PROVE  Beside(usbcall'[d], a2, host', pen')
  <2>1. Beside(usbcall[d], a, host, pen) /\ usbcall'[d] = usbcall[d] /\ d \in Users
    BY <1>2, <1>4 DEF Kernel
  <2>2. usbcall[d].bit \in 0 .. 1
    BY <2>1, RangedForm DEF UsbInv
  <2>3. a.at # "bad"
    BY <1>6, <2>1 DEF Beside, Clean, Short
  <2>4. Beside(usbcall[d], a2, host', pen')
    BY <1>3, <1>5, <2>1, <2>2, <2>3, BesideProgram, BesideServed
  <2> QED BY <2>1, <2>4
<1> QED BY <1>7, <1>8 DEF UsbBeside, a2

LEMMA UsbInitHolds == UsbInit => UsbInv
<1> SUFFICES ASSUME UsbInit PROVE UsbInv
  OBVIOUS
<1>1. host = [engine |-> FALSE, list |-> FALSE, lazy |-> FALSE, woken |-> FALSE,
              pair |-> 2, out |-> 0, in |-> 0]
  BY DEF UsbInit
<1>2. host \in Hosts /\ host.out = 0 /\ host.in = 0 /\ ~host.lazy
  BY <1>1 DEF Hosts
<1>3. pen \in [addr : {0}, set : {FALSE}, ends : {Pairs[k] : k \in 1 .. 3}, out : {0}, in : {0},
               queue : {<< >>}, block : {"none"}]
  BY DEF UsbInit
<1>4. pen \in Pens /\ pen.queue = << >> /\ ~pen.set
  <2>1. << >> \in Seq({"data", "csw", Capacity}) /\ 0 \in 0 .. 1
    OBVIOUS
  <2> DEFINE Queues == Seq({"data", "csw", Capacity})
             Ends2 == {Pairs[k] : k \in 1 .. 3}
  <2> HIDE DEF Queues, Ends2
  <2>2. << >> \in Queues
    BY <2>1 DEF Queues
  <2>3. pen \in [addr : 0 .. 1, set : BOOLEAN, ends : Ends2, out : 0 .. 1, in : 0 .. 1,
                 queue : Queues, block : Blocks \cup {"none", Capacity}]
    BY <1>3, <2>1, <2>2 DEF Ends2
  <2>4. pen.queue = << >> /\ ~pen.set
    BY <1>3
  <2> QED BY <2>3, <2>4 DEF Pens, Queues, Ends2
<1>5. /\ \A c \in Users : usbcall[c] = NoTransfer
      /\ usbcall \in [Users -> Transfers]
      /\ ring \in [Users \cup {"head"} -> Users \cup {"head"}]
      /\ ~upset /\ ~mixed /\ ~crossed /\ ~lied
      /\ upset \in BOOLEAN /\ mixed \in BOOLEAN /\ crossed \in BOOLEAN /\ lied \in BOOLEAN
  <2>1. usbcall = [c \in Users |-> NoTransfer] /\ ring = [q \in Users \cup {"head"} |-> "head"]
    BY DEF UsbInit
  <2>2. upset = FALSE /\ mixed = FALSE /\ crossed = FALSE /\ lied = FALSE
    BY DEF UsbInit
  <2>3. ~upset /\ ~mixed /\ ~crossed /\ ~lied
        /\ upset \in BOOLEAN /\ mixed \in BOOLEAN /\ crossed \in BOOLEAN /\ lied \in BOOLEAN
    BY <2>2
  <2> QED BY <2>1, <2>3, NoneForm
<1>6. UsbTypes
  BY <1>2, <1>4, <1>5, NoneForm DEF UsbTypes
<1>7. \A c \in Users : usbcall[c].at = "idle" /\ usbcall[c].step = "none" /\ ~Listed(usbcall[c])
  BY <1>5, NoneForm DEF Listed
<1>8. \A c \in Users : Reading(usbcall[c], pen.queue, pen.block) /\ ~Offers(usbcall[c])
                        /\ ~Mid(usbcall[c])
  BY <1>7, IdleReading
<1>9. App \in Users /\ \A c \in Kernel : c \in Users
  BY DEF Users, Kernel
<1>10. UsbFew /\ UsbListed /\ UsbTruth /\ UsbSolo
  BY <1>2, <1>5, <1>7, <1>8, <1>9 DEF UsbFew, UsbListed, UsbTruth, UsbSolo
<1>11. UsbBeside
  BY <1>8, <1>9 DEF UsbBeside, Beside, Ready
<1>12. UsbCalm
  <2>1. Left(pen.queue) = 0
    BY <1>4 DEF Left
  <2> QED BY <2>1, <1>4, <1>7 DEF UsbCalm, Rest
<1> QED BY <1>6, <1>10, <1>11, <1>12 DEF UsbInv

LEMMA UsbStepHolds == UsbInv /\ [UsbNext]_usbvars => UsbInv'
<1> SUFFICES ASSUME UsbInv, [UsbNext]_usbvars PROVE UsbInv'
  OBVIOUS
<1>1. CASE UsbNext
  <2>1. UsbTypes' /\ \E c \in Users : Moves(c)
    BY <1>1, UsbMoves DEF UsbInv
  <2>2. PICK c \in Users : Moves(c)
    BY <2>1
  <2>3. UsbFew' /\ UsbListed'
    BY <2>2, FewMoves, ListedMoves DEF UsbInv
  <2>4. UsbTruth' /\ UsbSolo' /\ UsbCalm'
    BY <2>1, <2>2, TruthMoves, SoloMoves, CalmMoves
  <2>5. UsbBeside'
    <3>1. CASE upset' \/ crossed'
      BY <3>1 DEF UsbBeside
    <3>2. CASE ~upset' /\ ~crossed' /\ c = App
      BY <2>2, <3>2, BesideProgramMoves
    <3>3. CASE ~upset' /\ ~crossed' /\ c # App
      <4>1. c \in Kernel
        BY <3>3 DEF Kernel
      <4> QED BY <2>2, <3>3, <4>1, BesideThreadMoves
    <3> QED BY <3>1, <3>2, <3>3
  <2> QED BY <2>1, <2>3, <2>4, <2>5 DEF UsbInv
<1>2. CASE UNCHANGED usbvars
  <2>1. /\ host' = host /\ pen' = pen /\ ring' = ring /\ usbcall' = usbcall
        /\ upset' = upset /\ mixed' = mixed /\ crossed' = crossed /\ lied' = lied
    BY <1>2 DEF usbvars
  <2>2. UsbTypes'
    BY <2>1 DEF UsbInv, UsbTypes
  <2>3. UsbFew' /\ UsbListed' /\ UsbTruth' /\ UsbSolo'
    BY <2>1 DEF UsbInv, UsbFew, UsbListed, UsbTruth, UsbSolo
  <2>4. UsbBeside'
    BY <2>1 DEF UsbInv, UsbBeside
  <2>5. UsbCalm'
    BY <2>1 DEF UsbInv, UsbCalm, Alone
  <2> QED BY <2>2, <2>3, <2>4, <2>5 DEF UsbInv
<1> QED BY <1>1, <1>2

\* What the pendrive has and what the callers wait for fit together: ehci_bot_transfer,
\* ehci_enviar_bulk and ehci_storage_init, called by threads and by a program between them.
THEOREM UsbInvariant == UsbSpec => []UsbInv
<1> QED BY UsbInitHolds, UsbStepHolds, PTL DEF UsbSpec

LEMMA UsbInvTrue == UsbInv => UsbTrue
<1> SUFFICES ASSUME UsbInv PROVE UsbTrue
  OBVIOUS
<1>1. UsbReadsTrue
  BY DEF UsbInv, UsbTruth, UsbReadsTrue
<1>2. UsbInStep
  <2>1. SUFFICES ASSUME ~upset, ~mixed, pen.set, \A c \in Users : usbcall[c].at = "idle"
                 PROVE  /\ host.out = pen.out /\ host.in = pen.in
                        /\ pen.queue = << >> /\ pen.ends = Pairs[host.pair]
    BY DEF UsbInStep
  <2>2. App \in Users
    BY DEF Users
  <2>3. Rest(usbcall[App], host, pen) /\ usbcall[App].step = "none"
    BY <2>1, <2>2, RangedForm DEF UsbInv, UsbCalm, Alone
  <2>4. Left(pen.queue) = 0 /\ host.out = pen.out /\ host.in = pen.in /\ pen.ends = Pairs[host.pair]
    BY <2>1, <2>3 DEF Rest, InStep
  <2>5. pen.queue \in Seq({"data", "csw", Capacity})
    BY Typed, <2>2 DEF UsbInv, Pens
  <2>6. pen.queue = << >>
    BY <2>4, <2>5 DEF Left
  <2> QED BY <2>4, <2>6
<1> QED BY <1>1, <1>2 DEF UsbTrue

\* A read that returns 1 brought its sectors, and driver and pendrive stay in step as long as
\* nothing failed and no calls overlapped (ehci_storage_read_sectors, ehci_enviar_bulk).
THEOREM UsbIsTrue == UsbSpec => []UsbTrue
<1> QED BY UsbInvariant, UsbInvTrue, PTL

\* The toggles are bits, and ehci_storage_init never leaves the table of pairs.
THEOREM UsbTypesHold == UsbSpec => []UsbTypeOK
<1>1. UsbInv => UsbTypeOK
  BY DEF UsbInv, UsbTypes, UsbTypeOK, Hosts
<1> QED BY <1>1, UsbInvariant, PTL

-----------------------------------------------------------------------------
(***************************************************************************)
(* All four parts at once: each behaviour of the bench is one of each      *)
(* part, so that whatever is proved of a part holds of the bench.          *)
(***************************************************************************)

LEMMA StorageInits == Init => FatInit /\ VolInit /\ AhciInit /\ UsbInit
BY DEF Init

LEMMA StorageSteps ==
  [Next]_vars => [FatNext]_fatvars /\ [VolNext]_volvars /\ [AhciNext]_ahcivars /\ [UsbNext]_usbvars
<1> SUFFICES ASSUME [Next]_vars
             PROVE  [FatNext]_fatvars /\ [VolNext]_volvars /\ [AhciNext]_ahcivars /\ [UsbNext]_usbvars
  OBVIOUS
<1>1. CASE Only("fat", FatNext, <<volvars, ahcivars, usbvars>>)
  BY <1>1 DEF Only
<1>2. CASE Only("volumes", VolNext, <<fatvars, ahcivars, usbvars>>)
  BY <1>2 DEF Only
<1>3. CASE Only("ahci", AhciNext, <<fatvars, volvars, usbvars>>)
  BY <1>3 DEF Only
<1>4. CASE Only("usb", UsbNext, <<fatvars, volvars, ahcivars>>)
  BY <1>4 DEF Only
<1>5. CASE UNCHANGED vars
  BY <1>5 DEF vars
<1> QED BY <1>1, <1>2, <1>3, <1>4, <1>5 DEF Next

\* The file operations, the drives, the SATA port and the pendrive each keep to their own
\* specification (fat32_file.c, fat32.c, ahci_cmd.c, ehci_storage.c).
THEOREM StorageParts == Spec => FatSpec /\ VolSpec /\ AhciSpec /\ UsbSpec
<1> QED BY StorageInits, StorageSteps, PTL DEF Spec, FatSpec, VolSpec, AhciSpec, UsbSpec

LEMMA VolumesTyped == VolInv => VolTypeOK
<1> SUFFICES ASSUME VolInv PROVE VolTypeOK
  OBVIOUS
<1>1. geo \in Geos /\ dev \in Disks /\ forgotten \subseteq Disks
  BY DEF VolInv, VolTypes
<1>2. /\ geo["bpb"] \in Disks /\ geo["off"] \in Disks /\ geo["fat"] \in Disks
      /\ geo.dir \in [disk : Disks, dir : Dirs \cup {RootDir}]
  BY <1>1 DEF Geos
<1>3. {failed, overlap, strayed} \subseteq BOOLEAN
  BY DEF VolInv, VolTypes
<1> QED BY <1>1, <1>2, <1>3 DEF VolTypeOK

\* The disks, the geometry, the port and the pendrive keep their types, whatever fails
\* (fat32_file.c, fat32.c, ahci_cmd.c, ehci_storage.c).
THEOREM StorageTypes == Spec => []StorageTypeOK
<1>1. FatSpec => []FatTypeOK
  BY FatTypes
<1>2. VolSpec => []VolTypeOK
  BY VolumesInvariant, VolumesTyped, PTL
<1>3. AhciSpec => []AhciTypeOK
  BY AhciTypes
<1>4. UsbSpec => []UsbTypeOK
  BY UsbTypesHold
<1>5. FatTypeOK /\ VolTypeOK /\ AhciTypeOK /\ UsbTypeOK => StorageTypeOK
  BY DEF StorageTypeOK
<1> QED BY StorageParts, <1>1, <1>2, <1>3, <1>4, <1>5, PTL
=============================================================================
