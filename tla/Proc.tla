-------------------------------- MODULE Proc --------------------------------
(***************************************************************************)
(* The process table of the kernel (drivers/proc.c) with everything that   *)
(* drives it: the boot code that creates the kernel tasks (kernel.c), the  *)
(* PIT interrupt and the voluntary int 0x20 (drivers/timer.c), the tasks   *)
(* of drivers/apps.c, the ring-0 shell and the ring-3 programs with their  *)
(* process system calls (drivers/syscall.c).                               *)
(*                                                                         *)
(* The machine has one CPU.  Code runs with interrupts enabled except      *)
(* between cli and sti, inside an interrupt handler and inside a system    *)
(* call of ring 3 (int 0x80 is an interrupt gate).  An action below is a   *)
(* stretch of code no timer interrupt can cut, or one memory access of a   *)
(* stretch it can cut where the cut matters; TimerInterrupt is enabled     *)
(* between any two of them.                                                *)
(*                                                                         *)
(* A definition named Bad... is a mutant: a wrong variant of the one that  *)
(* follows it, which nothing uses and which a property must reject.        *)
(***************************************************************************)
EXTENDS Integers, Sequences, FiniteSets

CONSTANTS
  TaskA,      \* process_t of task_a, whose context is kernel_main itself
  ShellTask,  \* process_t of shell_task
  TaskB,      \* process_t of task_b, the reaper
  TaskC,      \* process_t of task_c, which launches EXPLORER.ELF
  TaskD,      \* process_t of task_d, which serves SYS_EXEC
  Apps,       \* the process_t structures ring-3 programs may be given
  NoProc,     \* NULL
  Reaper,     \* does kernel_main create task_b?  (the shipped one does not)
  MaxPid,     \* bound on the pids the launcher and task_d take
  SleepMs,    \* the arguments programs pass to SYS_SLEEP
  KillPids,   \* the arguments programs and the user pass to SYS_KILL
  Typed       \* the commands the user types at the shell: "kill", "exec"

Tasks == {TaskA, ShellTask, TaskB, TaskC, TaskD}
Procs == Tasks \cup Apps

ASSUME ProcsAssumption ==
  /\ TaskA # ShellTask /\ TaskA # TaskB /\ TaskA # TaskC /\ TaskA # TaskD
  /\ ShellTask # TaskB /\ ShellTask # TaskC /\ ShellTask # TaskD
  /\ TaskB # TaskC /\ TaskB # TaskD /\ TaskC # TaskD
  /\ Tasks \cap Apps = {}
  /\ NoProc \notin Procs

ASSUME NumbersAssumption ==
  /\ Reaper \in BOOLEAN
  /\ MaxPid \in Nat
  /\ SleepMs \subseteq Nat
  /\ KillPids \subseteq Nat

VARIABLES
  state,      \* process_t.state; "free" when the memory holds no process_t
  pid,        \* process_t.pid
  parent,     \* process_t.parent_pid
  left,       \* process_t.wake_up_time, counted from system_ticks
  focused,    \* process_t.is_foreground
  rank,       \* place in the list: 0 is not linked, the highest is head
  links,      \* how many insertions at head there were
  current,    \* current_process
  foreground, \* foreground_process
  next_pid,   \* next_pid
  pending,    \* g_exec_pending_flag
  path,       \* g_pending_elf_path, by the process that wrote it
  booted,     \* how many kernel tasks kernel_main has created after task_a
  pc,         \* where each thread is, between two actions
  tmp,        \* the pid a creating thread holds in a register
  made        \* the process_t a creating thread is filling

table == <<state, pid, parent, left, rank, links, current>>
focus == <<focused, foreground>>
exec == <<pending, path>>
creation == <<next_pid, booted, tmp, made>>
vars == <<table, focus, exec, creation, pc>>

-----------------------------------------------------------------------------
(***************************************************************************)
(* The list.  A process_t is only ever pushed at head and unlinked, so the *)
(* order of the list is that of the insertions, the latest first.          *)
(***************************************************************************)

Linked == {p \in Procs : rank[p] > 0}

\* find_process_by_pid: the first process of the list with that pid, if any.
Found(x) ==
  {p \in Linked : pid[p] = x /\ \A q \in Linked : pid[q] = x => rank[q] <= rank[p]}

IsHead(p) == p \in Linked /\ \A q \in Linked : rank[q] <= rank[p]

\* How many links schedule follows from current_process until it reaches p,
\* up to the order: past the end of the list it goes on at head.
Turn(p) ==
  IF rank[p] < rank[current] THEN rank[current] - rank[p]
                             ELSE rank[current] - rank[p] + links

\* Mutant: the scan does not ask whether the process sleeps.
BadWoken(st, lf) ==
  [p \in Procs |-> IF p \in Linked /\ lf[p] = 0 THEN "ready" ELSE st[p]]

\* The sleepers whose wake_up_time has come become READY, and so does the
\* process that was running.
Woken(st, lf) ==
  [p \in Procs |->
     IF \/ p \in Linked /\ st[p] = "sleeping" /\ lf[p] = 0
        \/ p = current /\ st[p] = "running"
     THEN "ready" ELSE st[p]]

\* Mutant: the scan stops at whoever does not sleep.
BadSelectsAwake(st, n) ==
  LET awake == {p \in Linked : st[p] # "sleeping"}
  IN  n \in awake /\ \A p \in awake : Turn(n) <= Turn(p)

\* Mutant: the scan starts at head instead of after current_process.
BadSelectsFromHead(st, n) ==
  LET ready == {p \in Linked : st[p] = "ready"}
  IN  n \in ready /\ \A p \in ready : rank[p] <= rank[n]

\* The process schedule selects: the first READY one after current_process,
\* or, when there is none, current_process or head whatever its state.
Selects(st, n) ==
  LET ready == {p \in Linked : st[p] = "ready"}
  IN  IF ready # {}
        THEN n \in ready /\ \A p \in ready : Turn(n) <= Turn(p)
        ELSE IF st[current] = "ready" THEN n = current ELSE IsHead(n)

\* timer_handler, entered by the PIT or by int 0x20: system_ticks advances by
\* one, and schedule runs with the states the interrupted code has left.
TimerHandler(st, lf) ==
  LET lf1 == [p \in Procs |-> IF lf[p] > 0 THEN lf[p] - 1 ELSE 0]
  IN  /\ left' = lf1
      /\ \E n \in Procs :
           /\ Selects(Woken(st, lf1), n)
           /\ current' = n
           /\ state' = [Woken(st, lf1) EXCEPT ![n] = "running"]
      /\ UNCHANGED <<pid, parent, rank, links>>

Runs(p, label) == current = p /\ pc[p] = label
Goto(p, label) == pc' = [pc EXCEPT ![p] = label]

\* The PIT fires: always possible between two actions.
TimerInterrupt ==
  /\ TimerHandler(state, left)
  /\ UNCHANGED <<focus, exec, creation, pc>>

-----------------------------------------------------------------------------
(***************************************************************************)
(* create_process.  It is reached with interrupts enabled by kernel_main,  *)
(* by task_c and by task_d (through create_elf_process), and next_pid++ is *)
(* a load and a store.                                                     *)
(***************************************************************************)

Creators == {TaskA, TaskC, TaskD}

\* The kernel tasks kernel_main creates after task_a, in order.
Boot ==
  IF Reaper THEN <<ShellTask, TaskC, TaskD, TaskB>>
            ELSE <<ShellTask, TaskC, TaskD>>

AfterBoot(k) == IF k < Len(Boot) THEN "read" ELSE "idle"

\* Where a new thread starts.
Entry(p) ==
  CASE p = TaskC -> "read"
    [] p = TaskD -> "idle"
    [] p = TaskB -> "reap"
    [] OTHER     -> "run"

\* The kmalloc of the process_t succeeds and next_pid is loaded.
ReadNextPid(c) ==
  /\ Runs(c, "read")
  /\ c # TaskA => next_pid <= MaxPid
  /\ tmp' = [tmp EXCEPT ![c] = next_pid]
  /\ Goto(c, "number")
  /\ UNCHANGED <<table, focus, exec, next_pid, booted, made>>

\* next_pid is stored, the fields are set and the kernel stack is allocated.
NumberProcess(c, n) ==
  /\ Runs(c, "number")
  /\ state[n] = "free"
  /\ IF c = TaskA THEN n = Boot[booted + 1] ELSE n \in Apps
  /\ next_pid' = tmp[c] + 1
  /\ pid' = [pid EXCEPT ![n] = tmp[c]]
  /\ parent' = [parent EXCEPT ![n] = pid[c]]
  /\ state' = [state EXCEPT ![n] = "ready"]
  /\ left' = [left EXCEPT ![n] = 0]
  /\ focused' = [focused EXCEPT ![n] = FALSE]
  /\ made' = [made EXCEPT ![c] = n]
  /\ pc' = [pc EXCEPT ![c] = "insert", ![n] = Entry(n)]
  /\ UNCHANGED <<rank, links, current, foreground, exec, booted, tmp>>

\* cli; the process is pushed at head; sti.
InsertProcess(c) ==
  /\ Runs(c, "insert")
  /\ links' = links + 1
  /\ rank' = [rank EXCEPT ![made[c]] = links + 1]
  /\ IF c = TaskA
       THEN /\ booted' = booted + 1
            /\ Goto(c, IF made[c] = ShellTask THEN "flag" ELSE AfterBoot(booted + 1))
       ELSE /\ Goto(c, "adopt")
            /\ UNCHANGED booted
  /\ made' = [made EXCEPT ![c] = NoProc]
  /\ UNCHANGED <<state, pid, parent, left, current, focus, exec, next_pid, tmp>>

\* Mutant: task_d goes back to waiting at once.
BadLoadFails(c) ==
  /\ Runs(c, "read") /\ c # TaskA
  /\ Goto(c, "idle")
  /\ UNCHANGED <<table, focus, exec, creation>>

\* create_elf_process fails before create_process (0), or the kmalloc of the
\* process_t does (-1).
LoadFails(c) ==
  /\ Runs(c, "read") /\ c # TaskA
  /\ \E r \in {0, -1} : tmp' = [tmp EXCEPT ![c] = r]
  /\ Goto(c, "adopt")
  /\ UNCHANGED <<table, focus, exec, next_pid, booted, made>>

\* The kmalloc of the kernel stack fails: the pid is spent all the same.
StackFails(c) ==
  /\ Runs(c, "number") /\ c # TaskA
  /\ next_pid' = tmp[c] + 1
  /\ tmp' = [tmp EXCEPT ![c] = -1]
  /\ Goto(c, "adopt")
  /\ UNCHANGED <<table, focus, exec, booted, made>>

Create(c) ==
  \/ ReadNextPid(c)
  \/ \E n \in Procs : NumberProcess(c, n)
  \/ InsertProcess(c)
  \/ LoadFails(c)
  \/ StackFails(c)

-----------------------------------------------------------------------------
(***************************************************************************)
(* kernel_main hands the keyboard to the shell it has just created, with   *)
(* two stores and interrupts enabled.                                      *)
(***************************************************************************)

FlagShell ==
  /\ Runs(TaskA, "flag")
  /\ \E p \in Found(tmp[TaskA]) : focused' = [focused EXCEPT ![p] = TRUE]
  /\ Goto(TaskA, "point")
  /\ UNCHANGED <<table, foreground, exec, creation>>

PointShell ==
  /\ Runs(TaskA, "point")
  /\ \E p \in Found(tmp[TaskA]) : foreground' = p
  /\ Goto(TaskA, AfterBoot(booted))
  /\ UNCHANGED <<table, focused, exec, creation>>

-----------------------------------------------------------------------------
(***************************************************************************)
(* The keyboard focus changes hands inside cli..sti.                       *)
(***************************************************************************)

\* Mutant: the old owner keeps its flag.
BadFocusExplorer(p) ==
  /\ focused' = [focused EXCEPT ![p] = TRUE]
  /\ foreground' = p

\* task_c: the flag of the old owner is cleared before the new one is set.
FocusExplorer(p) ==
  /\ focused' = [q \in Procs |-> IF q = p THEN TRUE
                                 ELSE IF q = foreground THEN FALSE ELSE focused[q]]
  /\ foreground' = p

\* Mutant: foreground_process is forgotten.
BadFocusChild(p) ==
  /\ focused' = [q \in Procs |-> IF q = foreground THEN FALSE
                                 ELSE IF q = p THEN TRUE ELSE focused[q]]
  /\ UNCHANGED foreground

\* task_d: the new flag is set before that of the old owner is cleared.
FocusChild(p) ==
  /\ focused' = [q \in Procs |-> IF q = foreground THEN FALSE
                                 ELSE IF q = p THEN TRUE ELSE focused[q]]
  /\ foreground' = p

\* task_c, once create_elf_process has returned.
LaunchExplorer ==
  /\ Runs(TaskC, "adopt")
  /\ IF tmp[TaskC] # -1 /\ Found(tmp[TaskC]) # {}
       THEN \E p \in Found(tmp[TaskC]) : FocusExplorer(p)
       ELSE UNCHANGED focus
  /\ tmp' = [tmp EXCEPT ![TaskC] = 0]
  /\ Goto(TaskC, "idle")
  /\ UNCHANGED <<table, exec, next_pid, booted, made>>

\* Mutant: the flag comes down when the request is taken.
BadTakeExec ==
  /\ Runs(TaskD, "idle")
  /\ pending /\ pending' = FALSE
  /\ Goto(TaskD, "read")
  /\ UNCHANGED <<table, focus, path, creation>>

\* task_d sees g_exec_pending_flag and calls create_elf_process.
TakeExec ==
  /\ Runs(TaskD, "idle")
  /\ pending
  /\ Goto(TaskD, "read")
  /\ UNCHANGED <<table, focus, exec, creation>>

\* task_d, once create_elf_process has returned: the child gets the focus and
\* is set to READY.
AdoptChild ==
  /\ Runs(TaskD, "adopt")
  /\ IF tmp[TaskD] \notin {0, -1} /\ Found(tmp[TaskD]) # {}
       THEN \E p \in Found(tmp[TaskD]) :
              /\ FocusChild(p)
              /\ state' = [state EXCEPT ![p] = "ready"]
       ELSE UNCHANGED <<focus, state>>
  /\ tmp' = [tmp EXCEPT ![TaskD] = 0]
  /\ Goto(TaskD, "clear")
  /\ UNCHANGED <<pid, parent, left, rank, links, current, exec, next_pid,
                 booted, made>>

\* task_d has finished with the request, whatever came of it.
ClearPending ==
  /\ Runs(TaskD, "clear")
  /\ pending' = FALSE
  /\ Goto(TaskD, "idle")
  /\ UNCHANGED <<table, focus, path, creation>>

\* Mutant: the process that has the keyboard is spared.
BadReaped ==
  {p \in Linked : state[p] = "zombie" /\ p \notin {current, foreground} /\ pid[p] > 3}

\* The processes process_cleanup_zombies unlinks and frees.
Reaped == {p \in Linked : state[p] = "zombie" /\ p # current /\ pid[p] > 3}

\* task_b calls process_cleanup_zombies, one cli..sti.  The fields of freed
\* memory mean nothing; foreground_process is not looked at.
Reap ==
  /\ Runs(TaskB, "reap")
  /\ Reaped # {}
  /\ state' = [p \in Procs |-> IF p \in Reaped THEN "free" ELSE state[p]]
  /\ rank' = [p \in Procs |-> IF p \in Reaped THEN 0 ELSE rank[p]]
  /\ pid' = [p \in Procs |-> IF p \in Reaped THEN 0 ELSE pid[p]]
  /\ parent' = [p \in Procs |-> IF p \in Reaped THEN 0 ELSE parent[p]]
  /\ left' = [p \in Procs |-> IF p \in Reaped THEN 0 ELSE left[p]]
  /\ focused' = [p \in Procs |-> p \notin Reaped /\ focused[p]]
  /\ pc' = [p \in Procs |-> IF p \in Reaped THEN "off" ELSE pc[p]]
  /\ UNCHANGED <<links, current, foreground, exec, creation>>

-----------------------------------------------------------------------------
(***************************************************************************)
(* The system calls of a program.                                          *)
(***************************************************************************)

Programs == Apps \cup {ShellTask}

\* The shell has found itself in the foreground and goes on to read a key and
\* obey a command; by then the foreground may be somebody else's.
ShellChecksFocus ==
  /\ Runs(ShellTask, "run") /\ focused[ShellTask]
  /\ Goto(ShellTask, "command")
  /\ UNCHANGED <<table, focus, exec, creation>>

\* The command asks nothing of the process table, or is refused.
ShellReturns ==
  /\ Runs(ShellTask, "command")
  /\ Goto(ShellTask, "run")
  /\ UNCHANGED <<table, focus, exec, creation>>

\* Where p makes its calls from.
Calls(p) == Runs(p, IF p = ShellTask THEN "command" ELSE "run")

\* sys_sleep: at 100 Hz a tick is 10 ms, and a wait is at least one tick.
SleepTicks(ms) == IF ms \div 10 = 0 THEN 1 ELSE ms \div 10

\* The process blocks and yields through int 0x20.  The shell comes here, with
\* 10 ms, when no key is waiting.
SysSleep(p, ms) ==
  /\ Calls(p)
  /\ ms # 0
  /\ TimerHandler([state EXCEPT ![p] = "sleeping"],
                  [left EXCEPT ![p] = SleepTicks(ms)])
  /\ Goto(p, "run")
  /\ UNCHANGED <<focus, exec, creation>>

\* SYS_EXIT, or a fault of ring 3 the exception handler turns into
\* terminate_current_process.  The process never returns from its hlt loop.
SysExit(p) ==
  /\ Runs(p, "run") /\ p \in Apps
  /\ pid[p] > 1
  /\ TimerHandler([state EXCEPT ![p] = "zombie"], left)
  /\ Goto(p, "dead")
  /\ UNCHANGED <<focus, exec, creation>>

\* Mutants: no number is protected; the launcher is forgotten.
BadProtected(x) == FALSE
BadProtected3(x) == x < 3

\* kill_process refuses the numbers of kernel_main, the shell and the launcher.
Protected(x) == x <= 3

\* Mutant: the number of the parent is stored, not its address.
BadFocusParent(t) ==
  IF focused[t] THEN foreground' = parent[t] /\ UNCHANGED focused
                ELSE UNCHANGED focus

\* The keyboard goes to the parent of a killed process that had it.
FocusParent(t) ==
  IF focused[t] /\ Found(parent[t]) # {}
    THEN \E q \in Found(parent[t]) :
           /\ focused' = [focused EXCEPT ![q] = TRUE]
           /\ foreground' = q
    ELSE UNCHANGED focus

\* SYS_KILL of another process that is alive.
KillOther(p, x) ==
  /\ Calls(p)
  /\ p = ShellTask => "kill" \in Typed
  /\ ~Protected(x)
  /\ \E t \in Found(x) \ {p} :
       /\ state[t] # "zombie"
       /\ state' = [state EXCEPT ![t] = "zombie"]
       /\ FocusParent(t)
  /\ Goto(p, "run")
  /\ UNCHANGED <<pid, parent, left, rank, links, current, exec, creation>>

\* SYS_KILL of the caller: it yields at once and never comes back.
KillSelf(p, x) ==
  /\ Calls(p)
  /\ p = ShellTask => "kill" \in Typed
  /\ ~Protected(x)
  /\ p \in Found(x)
  /\ FocusParent(p)
  /\ TimerHandler([state EXCEPT ![p] = "zombie"], left)
  /\ Goto(p, "dead")
  /\ UNCHANGED <<exec, creation>>

\* SYS_EXEC of ring 3: no interrupt between the test and the store.
SysExec(p) ==
  /\ Runs(p, "run") /\ p \in Apps
  /\ ~pending
  /\ path' = p
  /\ pending' = TRUE
  /\ UNCHANGED <<table, focus, creation, pc>>

\* SYS_EXEC of the shell, called as a function with interrupts enabled: the
\* test of the flag...
ShellTestsExec ==
  /\ Runs(ShellTask, "command")
  /\ "exec" \in Typed
  /\ ~pending
  /\ Goto(ShellTask, "post")
  /\ UNCHANGED <<table, focus, exec, creation>>

\* ... and the stores of the path and of the flag.
ShellPostsExec ==
  /\ Runs(ShellTask, "post")
  /\ path' = ShellTask
  /\ pending' = TRUE
  /\ Goto(ShellTask, "run")
  /\ UNCHANGED <<table, focus, creation>>

Syscall(p) ==
  \/ \E ms \in IF p = ShellTask THEN {10} ELSE SleepMs : SysSleep(p, ms)
  \/ SysExit(p)
  \/ \E x \in KillPids : KillOther(p, x) \/ KillSelf(p, x)
  \/ SysExec(p)

-----------------------------------------------------------------------------

\* kernel_main after its first create_process: task_a is alone in the list,
\* is current_process, and stays READY until the first interrupt.
Init ==
  /\ state = [p \in Procs |-> IF p = TaskA THEN "ready" ELSE "free"]
  /\ pid = [p \in Procs |-> IF p = TaskA THEN 1 ELSE 0]
  /\ parent = [p \in Procs |-> 0]
  /\ left = [p \in Procs |-> 0]
  /\ focused = [p \in Procs |-> FALSE]
  /\ rank = [p \in Procs |-> IF p = TaskA THEN 1 ELSE 0]
  /\ links = 1
  /\ current = TaskA
  /\ foreground = NoProc
  /\ next_pid = 2
  /\ pending = FALSE
  /\ path = NoProc
  /\ booted = 0
  /\ pc = [p \in Procs |-> IF p = TaskA THEN "read" ELSE "off"]
  /\ tmp = [p \in Procs |-> 0]
  /\ made = [p \in Procs |-> NoProc]

Next ==
  \/ TimerInterrupt
  \/ \E c \in Creators : Create(c)
  \/ FlagShell \/ PointShell
  \/ LaunchExplorer
  \/ TakeExec \/ AdoptChild \/ ClearPending
  \/ Reap
  \/ \E p \in Programs : Syscall(p)
  \/ ShellChecksFocus \/ ShellReturns \/ ShellTestsExec \/ ShellPostsExec

Spec == Init /\ [][Next]_vars

-----------------------------------------------------------------------------

States == {"free", "zombie", "ready", "running", "sleeping"}

Labels == {"off", "read", "number", "insert", "adopt", "clear", "flag", "point",
           "idle", "run", "command", "post", "reap", "dead"}

\* Types of the variables.
TypeOK ==
  /\ state \in [Procs -> States]
  /\ pid \in [Procs -> Nat]
  /\ parent \in [Procs -> Nat]
  /\ left \in [Procs -> Nat]
  /\ focused \in [Procs -> BOOLEAN]
  /\ rank \in [Procs -> Nat]
  /\ links \in Nat
  /\ current \in Procs
  /\ foreground \in Procs \cup {NoProc}
  /\ next_pid \in Nat
  /\ pending \in BOOLEAN
  /\ path \in Programs \cup {NoProc}
  /\ booted \in 0..Len(Boot)
  /\ pc \in [Procs -> Labels]
  /\ tmp \in [Procs -> Int]
  /\ made \in [Procs -> Procs \cup {NoProc}]

\* schedule always has somebody to run: kernel_main's own task is linked and
\* READY or RUNNING whatever the programs kill, exit or sleep, so the fallback
\* that runs head in any state is never taken, and at every instant at most
\* the owner of the CPU is RUNNING.
AlwaysSomeone ==
  /\ TaskA \in Linked /\ state[TaskA] \in {"ready", "running"}
  /\ current \in Linked
  /\ \A p \in Procs : state[p] = "running" => p = current

\* The guard of kill_process is on the number 3, and the numbers come from an
\* unprotected counter: still no order of creations, failed creations and
\* kills makes a zombie of kernel_main, the shell or the launcher.
ProtectedAlive ==
  \A p \in {TaskA, ShellTask, TaskC} :
     p \in Linked => state[p] \in {"ready", "running", "sleeping"}

\* At most one live process believes it has the keyboard.
FocusOne ==
  LET holders == {p \in Linked : focused[p] /\ state[p] # "zombie"}
  IN  \A p, q \in holders : p = q

\* "Identificador unico" (proc.h): no two processes of the list share a pid.
UniquePid ==
  LET listed == Linked
  IN  \A p, q \in listed : pid[p] = pid[q] => p = q

\* As long as pids are unique, the process foreground_process names is in the
\* list and has its is_foreground flag set: the two copies of the focus agree
\* through every hand-over of the launcher, of task_d and of kill_process.
FocusAgrees ==
  foreground # NoProc /\ UniquePid => foreground \in Linked /\ focused[foreground]

\* The keyboard has at most one live owner, and the two copies of who that is agree.
FocusTrue == FocusOne /\ FocusAgrees

\* While task_d works on a request the flag stays up, so that no second
\* request is accepted before the first has been dealt with.
BusyWhileServing ==
  pc[TaskD] \in {"read", "number", "insert", "adopt", "clear"} => pending

\* schedule never gives the CPU to a process that has exited or been killed,
\* nor to one that sleeps, nor to freed memory.
NeverRunsDead ==
  [][current' # current => current' \in Linked /\ state[current'] \notin {"zombie", "free"}]_vars

\* A dead process of the list comes back only by the hand of task_d, which
\* sets READY the child it has just created without looking at its state.
OnlyAdoptionRevives ==
  [][\A p \in Procs :
       /\ state[p] = "zombie"
       /\ state'[p] \notin {"zombie", "free"}
       => pc[TaskD] = "adopt" /\ pc'[TaskD] = "clear" /\ pid[p] = tmp[TaskD]]_vars

\* "Morto / Descartado (Aguardando limpeza)" (proc.h): what is dead only waits
\* to be cleaned up.
ZombieStaysDead ==
  [][\A p \in Procs : state[p] = "zombie" => state'[p] \in {"zombie", "free"}]_vars

\* "Se ja houver um processo em fila para a task_d carregar, evita
\* sobrescrever" (syscall.c): a queued request is not overwritten.
NoOverwrite == [][path' # path => ~pending]_vars

=============================================================================
