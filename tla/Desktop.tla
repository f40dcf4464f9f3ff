------------------------------ MODULE Desktop ------------------------------
(***************************************************************************)
(* The desktop protocol of ring 3: the explorer's loop                     *)
(* (Software_Explorer/explorer.c), the programs that register a window     *)
(* (components/TOS_IPC.c) and run their event loop (tarefa.c, which the    *)
(* SDK's programs follow), and the shared page they speak through: one     *)
(* slot per window, the spin lock and the focus (gui/wm.h).                *)
(*                                                                         *)
(* Everybody runs in ring 3 and is preempted between any two accesses.     *)
(* The explorer and RegisterApp use the lock; the programs' loops, the     *)
(* task manager and the virtual keyboard write the slots without it.       *)
(*                                                                         *)
(* The keyboard mailbox of a slot is declared after the end of the slot's  *)
(* structure: its two bytes, the key and the flag that says one is there,  *)
(* are the two low bytes of the is_active of the next slot, and for the    *)
(* last slot those of the lock.                                            *)
(***************************************************************************)
EXTENDS Integers

CONSTANTS
  Last,       \* the slots are 1..Last (5 to 31 in the code)
  Apps,       \* the programs, each run once
  Keyboards,  \* those that are the virtual keyboard
  Managers,   \* those that are the task manager
  Scanned,    \* the slots the task manager looks at (its loop ends too early)
  Explorer,
  NoApp,      \* pid 0
  NoSlot      \* slot -1

Slots == 1..Last
Users == Apps \cup {Explorer}

ASSUME DesktopAssumption ==
  /\ Last \in Nat \ {0}
  /\ Keyboards \subseteq Apps
  /\ Managers \subseteq Apps
  /\ Scanned \subseteq Slots
  /\ Explorer \notin Apps
  /\ NoApp \notin Apps
  /\ NoSlot \notin Slots

VARIABLES
  word,     \* is_active of each slot and, after them, IPC_CONTROL->lock
  owner,    \* pid
  click,    \* has_click_event
  focus,    \* active_focus_slot
  z,        \* z_stack of the explorer, the top last
  drag,     \* dragging_slot
  clicked,  \* active_click_slot
  held,     \* was_clicked
  step,     \* where each user of the page is
  phase,    \* how far into the section that holds the lock
  slot,     \* my_app_slot of each program
  target    \* the slot each program is about to write, from an earlier read

mouse == <<drag, clicked, held>>
vars == <<word, owner, click, focus, z, mouse, step, phase, slot, target>>

-----------------------------------------------------------------------------
(***************************************************************************)
(* The words of the page and their two low bytes.                          *)
(***************************************************************************)

Lock == Last + 1
Mailbox(s) == s + 1

Zero == [low |-> "0", flag |-> FALSE]
One == [low |-> "1", flag |-> FALSE]
Words == [low : {"0", "1", "key"}, flag : BOOLEAN]

Shown(s) == word[s] # Zero

KeyPut(s) == [word EXCEPT ![Mailbox(s)].low = "key"]
FlagPut(s) == [word EXCEPT ![Mailbox(s)].flag = TRUE]
FlagTaken(s) == [word EXCEPT ![Mailbox(s)].flag = FALSE]

-----------------------------------------------------------------------------
(***************************************************************************)
(* The lock.  A section of a user goes through the phases "out" (wanting   *)
(* it) and "in"; RegisterApp also through "fill", the delivery of a key    *)
(* through "send" and "half".                                              *)
(***************************************************************************)

Sections == {"key", "sweep", "click", "hold", "draw", "register"}

Inside(u) == phase[u] # "out"
At(u, x, ph) == step[u] = x /\ phase[u] = ph
Goto(u, x) == step' = [step EXCEPT ![u] = x] /\ UNCHANGED phase
Enter(u, ph) == phase' = [phase EXCEPT ![u] = ph] /\ UNCHANGED step

\* Mutant: the lock is taken whatever its value.
BadLocks(u) == word' = [word EXCEPT ![Lock] = One] /\ Enter(u, "in")

\* ipc_lock: the exchange finds 0, or else leaves 1 over whatever was there.
Locks(u) ==
  /\ word' = [word EXCEPT ![Lock] = One]
  /\ IF word[Lock] = Zero THEN Enter(u, "in") ELSE UNCHANGED <<step, phase>>

Wants(u) ==
  /\ step[u] \in Sections /\ phase[u] = "out"
  /\ Locks(u)
  /\ UNCHANGED <<owner, click, focus, z, mouse, slot, target>>

\* Mutant: the lock is left taken.
BadLeaves(u, x, w) ==
  /\ word' = w
  /\ step' = [step EXCEPT ![u] = x]
  /\ phase' = [phase EXCEPT ![u] = "out"]

\* ipc_unlock at the end of a section whose body leaves the words w.  Between
\* the body's last write and the unlock others can only spin: one action.
Leaves(u, x, w) ==
  /\ word' = [w EXCEPT ![Lock] = Zero]
  /\ step' = [step EXCEPT ![u] = x]
  /\ phase' = [phase EXCEPT ![u] = "out"]

-----------------------------------------------------------------------------
(***************************************************************************)
(* The explorer's loop.                                                    *)
(***************************************************************************)

\* get_key: with a key to deliver or without.
PollsKeyboard ==
  /\ At(Explorer, "poll", "out")
  /\ \E x \in {"key", "sweep"} : Goto(Explorer, x)
  /\ UNCHANGED <<word, owner, click, focus, z, mouse, slot, target>>

\* The key goes to the mailbox of the focused window, if it is shown.
RoutesKey ==
  /\ At(Explorer, "key", "in")
  /\ IF focus # NoSlot /\ Shown(focus)
       THEN Enter(Explorer, "send") /\ UNCHANGED word
       ELSE Leaves(Explorer, "sweep", word)
  /\ UNCHANGED <<owner, click, focus, z, mouse, slot, target>>

PutsKey ==
  /\ At(Explorer, "key", "send")
  /\ word' = KeyPut(focus)
  /\ Enter(Explorer, "half")
  /\ UNCHANGED <<owner, click, focus, z, mouse, slot, target>>

PutsFlag ==
  /\ At(Explorer, "key", "half")
  /\ Leaves(Explorer, "sweep", FlagPut(focus))
  /\ UNCHANGED <<owner, click, focus, z, mouse, slot, target>>

\* Mutant: only a slot whose click has been taken is collected.
BadCollected == {s \in Slots : owner[s] # NoApp /\ ~Shown(s) /\ ~click[s]}

\* The slots Coletar_Slots_Inativos frees.
Collected == {s \in Slots : owner[s] # NoApp /\ ~Shown(s)}

\* Coletar_Slots_Inativos.
Sweeps ==
  /\ At(Explorer, "sweep", "in")
  /\ focus' = IF focus \in Collected THEN NoSlot ELSE focus
  /\ drag' = IF drag \in Collected THEN NoSlot ELSE drag
  /\ owner' = [s \in Slots |-> IF s \in Collected THEN NoApp ELSE owner[s]]
  /\ click' = [s \in Slots |-> s \notin Collected /\ click[s]]
  /\ Leaves(Explorer, "mouse", word)
  /\ UNCHANGED <<z, clicked, held, slot, target>>

\* The button goes down: on the start button or menu, or on the desktop.
Presses ==
  /\ At(Explorer, "mouse", "out") /\ ~held
  /\ held' = TRUE /\ clicked' = NoSlot
  /\ \E handled \in BOOLEAN :
       Goto(Explorer, IF ~handled /\ drag = NoSlot THEN "click" ELSE "draw")
  /\ UNCHANGED <<word, owner, click, focus, z, drag, slot, target>>

Holds ==
  /\ At(Explorer, "mouse", "out") /\ held
  /\ Goto(Explorer, "hold")
  /\ UNCHANGED <<word, owner, click, focus, z, mouse, slot, target>>

\* Mutant: the slot that took the click is remembered.
BadReleased == held' = FALSE /\ drag' = NoSlot /\ UNCHANGED clicked

\* What is forgotten when the button is up.
Released == held' = FALSE /\ drag' = NoSlot /\ clicked' = NoSlot

Releases ==
  /\ At(Explorer, "mouse", "out")
  /\ Released
  /\ Goto(Explorer, "draw")
  /\ UNCHANGED <<word, owner, click, focus, z, slot, target>>

\* The place of slot s in the stack.
Place(s) == CHOOSE i \in Slots : z[i] = s

\* Mutant: the slot goes to the bottom.
BadFront(s) ==
  [i \in Slots |-> IF i = 1 THEN s ELSE IF i <= Place(s) THEN z[i - 1] ELSE z[i]]

\* Mutant: the slot is not put back.
BadFrontLast(s) ==
  [i \in Slots |-> IF i < Place(s) \/ i = Last THEN z[i] ELSE z[i + 1]]

\* bring_to_front: those above move one place down.
Front(s) ==
  [i \in Slots |-> IF i < Place(s) THEN z[i] ELSE IF i < Last THEN z[i + 1] ELSE s]

\* The window the click falls on, of those under the pointer.
TopOf(under) == {s \in under : \A t \in under : Place(t) <= Place(s)}

\* The click falls on window s, in the region of its close button, of its title
\* bar or of its body.
ClicksOn(s, region) ==
  /\ clicked' = s
  /\ IF owner[s] \in Keyboards \/ focus = s
       THEN UNCHANGED <<focus, z>>
       ELSE focus' = s /\ z' = Front(s)
  /\ drag' = IF region = "title" THEN s ELSE drag
  /\ click' = [click EXCEPT ![s] = @ \/ region = "body"]
  /\ Leaves(Explorer, "draw", [word EXCEPT ![s] = IF region = "close" THEN Zero ELSE @])

\* Processar_Clique_Janela.
Clicks ==
  /\ At(Explorer, "click", "in")
  /\ \/ /\ Leaves(Explorer, "draw", word)
        /\ UNCHANGED <<click, focus, z, drag, clicked>>
     \/ \E under \in SUBSET {s \in Slots : Shown(s)}, region \in {"close", "title", "body"} :
          \E s \in TopOf(under) : ClicksOn(s, region)
  /\ UNCHANGED <<owner, held, slot, target>>

\* While the button is held the dragged window follows it (the coordinates are
\* left out), or else the clicked one gets the click again.
Drags ==
  /\ At(Explorer, "hold", "in")
  /\ IF drag = NoSlot /\ clicked # NoSlot /\ Shown(clicked)
       THEN click' = [click EXCEPT ![clicked] = TRUE]
       ELSE UNCHANGED click
  /\ Leaves(Explorer, "draw", word)
  /\ UNCHANGED <<owner, focus, z, mouse, slot, target>>

\* Executar_Pipeline_Composicao reads the slots and draws.
Draws ==
  /\ At(Explorer, "draw", "in")
  /\ Leaves(Explorer, "poll", word)
  /\ UNCHANGED <<owner, click, focus, z, mouse, slot, target>>

ExplorerStep ==
  \/ Wants(Explorer)
  \/ PollsKeyboard \/ RoutesKey \/ PutsKey \/ PutsFlag \/ Sweeps
  \/ Presses \/ Holds \/ Releases \/ Clicks \/ Drags \/ Draws

-----------------------------------------------------------------------------
(***************************************************************************)
(* A program: OS_IPC_RegisterApp, then its event loop.                     *)
(***************************************************************************)

Starts(p) ==
  /\ step[p] = "off"
  /\ Goto(p, "register")
  /\ UNCHANGED <<word, owner, click, focus, z, mouse, slot, target>>

\* RegisterApp takes the first slot that is not active and fills it in; without
\* one the program's main returns.
TakesSlot(p) ==
  /\ At(p, "register", "in")
  /\ LET closed == {s \in Slots : ~Shown(s)}
     IN  IF closed = {}
           THEN Leaves(p, "gone", word) /\ UNCHANGED <<owner, click, slot>>
           ELSE \E s \in closed :
             /\ \A t \in closed : s <= t
             /\ slot' = [slot EXCEPT ![p] = s]
             /\ owner' = [owner EXCEPT ![s] = p]
             /\ click' = [click EXCEPT ![s] = FALSE]
             /\ Enter(p, "fill") /\ UNCHANGED word
  /\ UNCHANGED <<focus, z, mouse, target>>

\* is_active comes last.
Activates(p) ==
  /\ At(p, "register", "fill")
  /\ Leaves(p, "run", [word EXCEPT ![slot[p]] = One])
  /\ UNCHANGED <<owner, click, focus, z, mouse, slot, target>>

\* Mutant: a window without the focus does not look.
BadStays(p) == Shown(slot[p]) \/ focus # slot[p]

\* The test at the top of the loop.
Stays(p) == Shown(slot[p])

LooksAtSlot(p) ==
  /\ step[p] = "run"
  /\ Goto(p, IF Stays(p) THEN "read" ELSE "closing")
  /\ UNCHANGED <<word, owner, click, focus, z, mouse, slot, target>>

\* Obter_Tecla_Entrada: the flag is cleared.  The virtual keyboard has none.
ReadsMailbox(p) ==
  /\ step[p] = "read"
  /\ IF p \in Keyboards THEN UNCHANGED word ELSE word' = FlagTaken(slot[p])
  /\ Goto(p, "work")
  /\ UNCHANGED <<owner, click, focus, z, mouse, slot, target>>

\* The rest of the loop: the click is taken.
Works(p) ==
  /\ step[p] = "work"
  /\ click' = [click EXCEPT ![slot[p]] = FALSE]
  /\ Goto(p, "run")
  /\ UNCHANGED <<word, owner, focus, z, mouse, slot, target>>

\* EnviarMensagemTeclado: a click on the virtual keyboard sends a key to the
\* window in focus: its slot is read, then both bytes are written.
Aims(p) ==
  /\ p \in Keyboards /\ step[p] = "work" /\ click[slot[p]]
  /\ focus \notin {NoSlot, slot[p]}
  /\ target' = [target EXCEPT ![p] = focus]
  /\ Goto(p, "aimed")
  /\ UNCHANGED <<word, owner, click, focus, z, mouse, slot>>

SendsKey(p) ==
  /\ step[p] = "aimed"
  /\ word' = KeyPut(target[p])
  /\ Goto(p, "half")
  /\ UNCHANGED <<owner, click, focus, z, mouse, slot, target>>

SendsFlag(p) ==
  /\ step[p] = "half"
  /\ word' = FlagPut(target[p])
  /\ target' = [target EXCEPT ![p] = NoSlot]
  /\ click' = [click EXCEPT ![slot[p]] = FALSE]
  /\ Goto(p, "run")
  /\ UNCHANGED <<owner, focus, z, mouse, slot>>

\* OnBtnKillClick: the task manager finds the window of a program, closes it
\* and, after a sleep, kills the process (Dies).
Finds(p) ==
  /\ p \in Managers /\ step[p] = "work" /\ click[slot[p]]
  /\ \E s \in Scanned :
       /\ owner[s] # NoApp /\ word[s] = One
       /\ target' = [target EXCEPT ![p] = s]
  /\ Goto(p, "found")
  /\ UNCHANGED <<word, owner, click, focus, z, mouse, slot>>

Ends(p) ==
  /\ step[p] = "found"
  /\ word' = [word EXCEPT ![target[p]] = Zero]
  /\ target' = [target EXCEPT ![p] = NoSlot]
  /\ click' = [click EXCEPT ![slot[p]] = FALSE]
  /\ Goto(p, "run")
  /\ UNCHANGED <<owner, focus, z, mouse, slot>>

\* Tratar_Fechamento_Software.
Closes(p) ==
  /\ step[p] = "closing"
  /\ word' = [word EXCEPT ![slot[p]] = Zero]
  /\ Goto(p, "leaving")
  /\ UNCHANGED <<owner, click, focus, z, mouse, slot, target>>

\* sys_exit.
Exits(p) ==
  /\ step[p] = "leaving"
  /\ Goto(p, "gone")
  /\ UNCHANGED <<word, owner, click, focus, z, mouse, slot, target>>

AppStep(p) ==
  \/ Wants(p) \/ TakesSlot(p) \/ Activates(p)
  \/ LooksAtSlot(p) \/ ReadsMailbox(p) \/ Works(p)
  \/ Aims(p) \/ SendsKey(p) \/ SendsFlag(p)
  \/ Finds(p) \/ Ends(p)
  \/ Closes(p) \/ Exits(p)

\* The program is killed, or faults, wherever it is.
Dies(p) ==
  /\ step[p] \notin {"off", "gone", "dead"}
  /\ Goto(p, "dead")
  /\ UNCHANGED <<word, owner, click, focus, z, mouse, slot, target>>

-----------------------------------------------------------------------------

\* Nobody initialises the shared page; it is zero when the explorer starts.
\* The focus is then slot 0, which no window uses.
Init ==
  /\ word = [w \in 1..Lock |-> Zero]
  /\ owner = [s \in Slots |-> NoApp]
  /\ click = [s \in Slots |-> FALSE]
  /\ focus = NoSlot
  /\ z = [i \in Slots |-> i]
  /\ drag = NoSlot /\ clicked = NoSlot /\ held = FALSE
  /\ step = [u \in Users |-> IF u = Explorer THEN "poll" ELSE "off"]
  /\ phase = [u \in Users |-> "out"]
  /\ slot = [p \in Apps |-> NoSlot]
  /\ target = [p \in Apps |-> NoSlot]

Next ==
  \/ ExplorerStep
  \/ \E p \in Apps : Starts(p) \/ AppStep(p) \/ Dies(p)

Spec == Init /\ [][Next]_vars

\* The kernel runs everybody in turn (NoStarvation of ProcLive), so whoever
\* has a next step for good takes it.  Finding the lock taken is not a step
\* forward.  Keys, clicks, starts and deaths are not owed to anybody.
Fairness ==
  /\ WF_vars(ExplorerStep /\ (step' # step \/ phase' # phase))
  /\ \A p \in Apps : WF_vars(AppStep(p) /\ (step' # step \/ phase' # phase))

LiveSpec == Spec /\ Fairness

-----------------------------------------------------------------------------

Steps == Sections \cup {"poll", "mouse", "off", "run", "read", "work", "aimed",
                        "half", "found", "closing", "leaving", "gone", "dead"}

\* Types of the variables; the stack of the explorer holds every slot once.
TypeOK ==
  /\ word \in [1..Lock -> Words]
  /\ owner \in [Slots -> Apps \cup {NoApp}]
  /\ click \in [Slots -> BOOLEAN]
  /\ focus \in Slots \cup {NoSlot}
  /\ z \in [Slots -> Slots] /\ \A i, j \in Slots : z[i] = z[j] => i = j
  /\ drag \in Slots \cup {NoSlot}
  /\ clicked \in Slots \cup {NoSlot}
  /\ held \in BOOLEAN
  /\ step \in [Users -> Steps]
  /\ phase \in [Users -> {"out", "in", "fill", "send", "half"}]
  /\ slot \in [Apps -> Slots \cup {NoSlot}]
  /\ target \in [Apps -> Slots \cup {NoSlot}]

\* One user at a time is inside the sections of ipc_lock, although keys typed
\* into the last window are written over the lock itself, with and without it
\* taken, and its program clears a byte of it.
LockExcludes ==
  \A u, v \in Users : Inside(u) /\ Inside(v) => u = v

\* A slot whose is_active is 1 has an owner: the collector, which takes away
\* the owner of an inactive slot, never meets a registration half way, and no
\* key typed makes a 1.
OpenHasOwner == \A s \in Slots : word[s] = One => owner[s] # NoApp

\* The window that gets the keys is the one composed above all others, through
\* clicks on it, on others and on the virtual keyboard, and through the end of
\* windows.
FocusOnTop == focus # NoSlot => z[Last] = focus

\* The explorer holds on to a window only while the button is down, and drags
\* none but the one it was pressed on.
GrabsWhileHeld ==
  /\ clicked # NoSlot => held
  /\ drag # NoSlot => drag = clicked

\* "O controle fica dinamicamente APOS as 32 janelas" (wm.h): nothing written
\* in a window's slot reaches the lock, which is taken only while somebody is
\* in a section.  The virtual keyboard writes over it.
LockHasHolder == word[Lock] # Zero => \E u \in Users : Inside(u)

\* Nobody will release the lock: its holder was killed, or nobody holds it and
\* a key was written over it.
Abandoned ==
  \/ \E p \in Apps : step[p] = "dead" /\ Inside(p)
  \/ word[Lock] \notin {Zero, One} /\ \A u \in Users : ~Inside(u)

\* The explorer goes on drawing, unless the lock is abandoned some time.
ExplorerLives == []~Abandoned => []<>At(Explorer, "draw", "in")

\* Unless the lock is abandoned, a closed window's slot is given back, or is
\* active again: taken by a program, or by a key typed into its neighbour.
ClosedIsFreed ==
  []~Abandoned =>
    \A s \in Slots : (~Shown(s) /\ owner[s] # NoApp) ~> (Shown(s) \/ owner[s] = NoApp)

\* A program whose window has been closed ends, unless the slot is active again
\* before it looks.
ClosedEnds ==
  \A p \in Apps, s \in Slots :
    (step[p] = "run" /\ slot[p] = s /\ ~Shown(s)) ~> (step[p] \in {"gone", "dead"} \/ Shown(s))

=============================================================================
