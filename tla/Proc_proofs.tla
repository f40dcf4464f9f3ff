---------------------------- MODULE Proc_proofs -----------------------------
(***************************************************************************)
(* Theorems about the process table, for any number of programs, any bound *)
(* on the pids and any arguments of the system calls.                      *)
(***************************************************************************)
EXTENDS ProcQueue, TLAPS

-----------------------------------------------------------------------------
(***************************************************************************)
(* The inductive invariant.  AlwaysSomeone needs to know who could ever be *)
(* killed, hence the pid of TaskA; TypeOK needs to know that a creating    *)
(* thread holds a real number; the order of the queue needs the ranks to   *)
(* order the list, and a process that is about to be inserted to be READY, *)
(* not yet in the list and known to one thread only.                       *)
(***************************************************************************)

\* kernel_main creates its tasks one after the other and then idles.
BootInv ==
  /\ pc[TaskA] \in {"read", "number", "insert", "flag", "point", "idle"}
  /\ pc[TaskA] \in {"read", "number", "insert"} => booted < Len(Boot)

\* Between the load and the store of next_pid the register holds a pid.
NumberInv == \A c \in Creators : pc[c] = "number" => tmp[c] \in Nat

\* Ranks order the list, and freed memory is not in it.
ListInv ==
  /\ \A p \in Procs : rank[p] <= links
  /\ \A p, q \in Procs : rank[p] > 0 /\ rank[p] = rank[q] => p = q
  /\ \A p \in Procs : state[p] = "free" => rank[p] = 0

\* What a creator is about to insert.
MadeInv ==
  \A c \in Creators : pc[c] = "insert" =>
    /\ made[c] \in Procs
    /\ rank[made[c]] = 0
    /\ state[made[c]] = "ready"
    /\ \A d \in Creators : pc[d] = "insert" /\ made[d] = made[c] => d = c

\* The owner of the CPU is alive, and TaskA cannot be named by a kill.
CpuInv ==
  /\ rank[TaskA] > 0 /\ state[TaskA] \in {"ready", "running"} /\ pid[TaskA] = 1
  /\ rank[current] > 0 /\ state[current] \in {"ready", "running"}
  /\ \A p \in Procs : state[p] = "running" => p = current

IInv == TypeOK /\ BootInv /\ NumberInv /\ ListInv /\ MadeInv /\ CpuInv

-----------------------------------------------------------------------------

USE DEF States, Labels

\* The kernel tasks are five different process_t, none of a program.
LEMMA Distinct ==
  /\ TaskA \in Procs /\ TaskC \in Procs /\ TaskD \in Procs
  /\ TaskA \notin Programs /\ TaskC \notin Programs /\ TaskD \notin Programs
  /\ TaskA # TaskB /\ TaskA # TaskC /\ TaskA # TaskD /\ TaskC # TaskD
  /\ Creators \subseteq Procs /\ Programs \subseteq Procs
  /\ NoProc \notin Procs
BY ProcsAssumption DEF Procs, Tasks, Programs, Creators

\* What an interrupt does to the table, whatever state the interrupted code
\* left its own process in: somebody is served, and he was not dead.
LEMMA Handler ==
  ASSUME TypeOK, CpuInv,
         NEW STATE st, st \in [Procs -> States],
         NEW STATE lf, lf \in [Procs -> Nat],
         \A p \in Procs : p # current => st[p] = state[p],
         st[current] # "free",
         st[TaskA] \in {"ready", "running"},
         TimerHandler(st, lf)
  PROVE  /\ state' \in [Procs -> States]
         /\ left' \in [Procs -> Nat]
         /\ current' \in Procs
         /\ rank[current'] > 0
         /\ st[current'] \in {"ready", "running", "sleeping"}
         /\ state'[current'] = "running"
         /\ state'[TaskA] \in {"ready", "running"}
         /\ \A p \in Procs : state'[p] = "running" => p = current'
         /\ \A p \in Procs : rank[p] = 0 => state'[p] = st[p]
         /\ \A p \in Procs : state'[p] = "free" => st[p] = "free"
         /\ \A p \in Procs : state'[p] = "zombie" <=> st[p] = "zombie"
         /\ UNCHANGED <<pid, parent, rank, links>>
<1> DEFINE lf1 == [p \in Procs |-> IF lf[p] > 0 THEN lf[p] - 1 ELSE 0]
           woken == Woken(st, lf1)
<1>1. PICK n \in Procs :
        /\ Selects(woken, n)
        /\ current' = n
        /\ state' = [woken EXCEPT ![n] = "running"]
  BY DEF TimerHandler
<1>2. lf1 \in [Procs -> Nat] /\ left' = lf1
  <2>1. left' = lf1
    BY DEF TimerHandler
  <2>2. \A p \in Procs : lf[p] \in Nat
    OBVIOUS
  <2> QED BY <2>1, <2>2
<1>3. /\ woken \in [Procs -> States]
      /\ \A p \in Procs : woken[p] # "running"
      /\ \A p \in Procs : woken[p] # st[p] =>
           woken[p] = "ready" /\ rank[p] > 0 /\ st[p] \in {"sleeping", "running"}
      /\ woken[TaskA] = "ready"
  <2>1. \A p \in Procs : st[p] = "running" => p = current
    BY DEF CpuInv
  <2>2. current \in Procs /\ rank[current] > 0
    BY DEF TypeOK, CpuInv
  <2>3. \A p \in Procs : woken[p] = IF \/ p \in Linked /\ st[p] = "sleeping" /\ lf1[p] = 0
                                       \/ p = current /\ st[p] = "running"
                                    THEN "ready" ELSE st[p]
    BY DEF Woken
  <2>4. woken = [p \in Procs |-> woken[p]]
    BY DEF Woken
  <2> HIDE DEF lf1, woken
  <2>5. TaskA \in Procs
    BY Distinct
  <2> QED BY <2>1, <2>2, <2>3, <2>4, <2>5 DEF Linked
<1>4. n \in Linked /\ woken[n] = "ready"
  <2>1. TaskA \in {p \in Linked : woken[p] = "ready"}
    BY <1>3, Distinct DEF Linked, CpuInv
  <2> HIDE DEF woken
  <2> QED BY <1>1, <2>1 DEF Selects
<1>5. UNCHANGED <<pid, parent, rank, links>>
  BY DEF TimerHandler
<1> HIDE DEF lf1, woken
<1>6. rank[current'] > 0 /\ current' \in Procs
  BY <1>1, <1>4 DEF Linked
<1>7. st[current'] \in {"ready", "running", "sleeping"}
  BY <1>1, <1>3, <1>4
<1>8. /\ state' \in [Procs -> States]
      /\ state'[current'] = "running"
      /\ state'[TaskA] \in {"ready", "running"}
      /\ \A p \in Procs : state'[p] = "running" => p = current'
      /\ \A p \in Procs : state'[p] = "free" => st[p] = "free"
      /\ \A p \in Procs : state'[p] = "zombie" => st[p] = "zombie"
  BY <1>1, <1>3, Distinct
<1>10. \A p \in Procs : st[p] = "zombie" => state'[p] = "zombie"
  <2> SUFFICES ASSUME NEW p \in Procs, st[p] = "zombie" PROVE state'[p] = "zombie"
    OBVIOUS
  <2>1. woken[p] = "zombie"
    BY <1>3
  <2>2. p # n
    BY <2>1, <1>4
  <2> QED BY <1>1, <1>3, <2>1, <2>2
<1>9. \A p \in Procs : rank[p] = 0 => state'[p] = st[p]
  <2>1. \A p \in Procs : p # n => state'[p] = woken[p]
    BY <1>1, <1>3
  <2>2. rank[n] > 0
    BY <1>4 DEF Linked
  <2> QED BY <2>1, <2>2, <1>3
<1> QED BY <1>2, <1>5, <1>6, <1>7, <1>8, <1>9, <1>10

\* An interrupt keeps the invariant, if all the interrupted code did was to
\* change its own state, the focus or the place it goes on from.
LEMMA HandlerInv ==
  ASSUME IInv,
         NEW STATE st, st \in [Procs -> States],
         NEW STATE lf, lf \in [Procs -> Nat],
         \A p \in Procs : p # current => st[p] = state[p],
         st[current] # "free",
         st[TaskA] \in {"ready", "running"},
         TimerHandler(st, lf),
         focused' \in [Procs -> BOOLEAN],
         foreground' \in Procs \cup {NoProc},
         UNCHANGED <<exec, creation>>,
         \/ UNCHANGED pc
         \/ current \in Programs /\ \E l \in {"run", "dead"} : pc' = [pc EXCEPT ![current] = l]
  PROVE  IInv'
<1>1. /\ state' \in [Procs -> States]
      /\ left' \in [Procs -> Nat]
      /\ current' \in Procs
      /\ rank[current'] > 0
      /\ state'[current'] = "running"
      /\ state'[TaskA] \in {"ready", "running"}
      /\ \A p \in Procs : state'[p] = "running" => p = current'
      /\ \A p \in Procs : rank[p] = 0 => state'[p] = st[p]
      /\ \A p \in Procs : state'[p] = "free" => st[p] = "free"
      /\ UNCHANGED <<pid, parent, rank, links>>
  BY Handler DEF IInv
<1>2. /\ pc' \in [Procs -> Labels]
      /\ pc'[TaskA] = pc[TaskA]
      /\ \A c \in Procs : pc'[c] \in {"number", "insert"} => pc'[c] = pc[c]
  <2>1. pc \in [Procs -> Labels] /\ current \in Procs
    BY DEF IInv, TypeOK
  <2>2. ASSUME current \in Programs, NEW l \in {"run", "dead"},
               pc' = [pc EXCEPT ![current] = l]
        PROVE  /\ pc' \in [Procs -> Labels]
               /\ pc'[TaskA] = pc[TaskA]
               /\ \A c \in Procs : pc'[c] \in {"number", "insert"} => pc'[c] = pc[c]
    BY <2>1, <2>2, Distinct
  <2> QED BY <2>1, <2>2
<1>3. TypeOK'
  BY <1>1, <1>2 DEF IInv, TypeOK, exec, creation, Boot
<1>4. BootInv'
  BY <1>2 DEF IInv, BootInv, creation, Boot
<1>5. NumberInv'
  BY <1>2, Distinct DEF IInv, NumberInv, creation
<1>6. ListInv'
  BY <1>1 DEF IInv, ListInv, CpuInv
<1>7. MadeInv'
  <2> SUFFICES ASSUME NEW c \in Creators, pc'[c] = "insert"
               PROVE  /\ made[c] \in Procs
                      /\ rank[made[c]] = 0
                      /\ state'[made[c]] = "ready"
                      /\ \A d \in Creators : pc'[d] = "insert" /\ made[d] = made[c] => d = c
    BY <1>1 DEF MadeInv, creation
  <2>1. /\ made[c] \in Procs
        /\ rank[made[c]] = 0
        /\ state[made[c]] = "ready"
        /\ \A d \in Creators : pc'[d] = "insert" /\ made[d] = made[c] => d = c
    BY <1>2, Distinct DEF IInv, MadeInv
  <2>2. made[c] # current
    BY <2>1 DEF IInv, CpuInv
  <2>3. state'[made[c]] = state[made[c]]
    BY <1>1, <2>1, <2>2
  <2> QED BY <2>1, <2>3
<1>8. CpuInv'
  BY <1>1 DEF IInv, CpuInv
<1> QED BY <1>3, <1>4, <1>5, <1>6, <1>7, <1>8 DEF IInv

LEMMA InitInv == Init => IInv
<1> SUFFICES ASSUME Init PROVE IInv
  OBVIOUS
<1>0. Len(Boot) \in Nat /\ Len(Boot) > 0
  BY DEF Boot
<1>1. TypeOK
  <2>1. 0 \in 0..Len(Boot)
    BY <1>0
  <2>2. /\ state \in [Procs -> States]
        /\ pid \in [Procs -> Nat] /\ parent \in [Procs -> Nat] /\ left \in [Procs -> Nat]
        /\ focused \in [Procs -> BOOLEAN] /\ rank \in [Procs -> Nat]
    BY DEF Init
  <2>3. /\ tmp \in [Procs -> Int] /\ made \in [Procs -> Procs \cup {NoProc}]
        /\ pc \in [Procs -> Labels]
    BY DEF Init
  <2>4. /\ links \in Nat /\ next_pid \in Nat /\ pending \in BOOLEAN
        /\ current \in Procs /\ foreground \in Procs \cup {NoProc}
        /\ path \in Programs \cup {NoProc} /\ booted = 0
    BY Distinct DEF Init
  <2> QED BY <2>1, <2>2, <2>3, <2>4 DEF TypeOK
<1>2. BootInv
  BY Distinct DEF Init, BootInv, Boot
<1>3. NumberInv
  BY Distinct DEF Init, NumberInv
<1>4. ListInv
  BY Distinct DEF Init, ListInv
<1>5. MadeInv
  BY Distinct DEF Init, MadeInv
<1>6. CpuInv
  BY Distinct DEF Init, CpuInv
<1> QED BY <1>1, <1>2, <1>3, <1>4, <1>5, <1>6 DEF IInv

\* The four actions that go through timer_handler.
LEMMA SwitchInv ==
  ASSUME IInv,
         \/ TimerInterrupt
         \/ \E p \in Programs : \/ \E ms \in Nat : SysSleep(p, ms)
                                \/ SysExit(p)
                                \/ \E x \in Nat : KillSelf(p, x)
  PROVE  IInv'
<1> USE Distinct
<1>0. /\ state \in [Procs -> States] /\ left \in [Procs -> Nat] /\ current \in Procs
      /\ state[current] # "free" /\ state[TaskA] \in {"ready", "running"}
      /\ focused \in [Procs -> BOOLEAN] /\ foreground \in Procs \cup {NoProc}
  BY DEF IInv, TypeOK, CpuInv
<1>1. CASE TimerInterrupt
  BY <1>0, <1>1, HandlerInv DEF TimerInterrupt, focus
<1>2. ASSUME NEW p \in Programs, NEW ms \in Nat, SysSleep(p, ms)
      PROVE  IInv'
  <2>1. SleepTicks(ms) \in Nat
    BY DEF SleepTicks
  <2>2. p = current /\ p # TaskA
    BY <1>2 DEF SysSleep, Calls, Runs
  <2> DEFINE st == [state EXCEPT ![p] = "sleeping"]
             lf == [left EXCEPT ![p] = SleepTicks(ms)]
  <2>3. /\ st \in [Procs -> States] /\ lf \in [Procs -> Nat]
        /\ \A q \in Procs : q # current => st[q] = state[q]
        /\ st[current] # "free" /\ st[TaskA] \in {"ready", "running"}
    BY <1>0, <2>1, <2>2
  <2>4. /\ TimerHandler(st, lf) /\ UNCHANGED <<focus, exec, creation>>
        /\ pc' = [pc EXCEPT ![current] = "run"]
    BY <1>2, <2>2 DEF SysSleep, Goto
  <2> HIDE DEF st, lf
  <2> QED BY <1>0, <2>2, <2>3, <2>4, HandlerInv DEF focus
<1>4. ASSUME NEW p \in Programs, SysExit(p) \/ \E x \in Nat : KillSelf(p, x)
      PROVE  IInv'
  <2> DEFINE st == [state EXCEPT ![p] = "zombie"]
  <2>1. p = current /\ p # TaskA
    BY <1>4 DEF SysExit, KillSelf, Calls, Runs
  <2>2. /\ st \in [Procs -> States]
        /\ \A q \in Procs : q # current => st[q] = state[q]
        /\ st[current] # "free" /\ st[TaskA] \in {"ready", "running"}
    BY <1>0, <2>1
  <2>3. /\ TimerHandler(st, left)
        /\ UNCHANGED <<exec, creation>>
        /\ pc' = [pc EXCEPT ![current] = "dead"]
    BY <1>4, <2>1 DEF SysExit, KillSelf, Goto
  <2>4. focused' \in [Procs -> BOOLEAN] /\ foreground' \in Procs \cup {NoProc}
    BY <1>0, <1>4 DEF SysExit, KillSelf, FocusParent, Found, Linked, focus
  <2> HIDE DEF st
  <2> QED BY <1>0, <2>1, <2>2, <2>3, <2>4, HandlerInv
<1> QED BY <1>1, <1>2, <1>4

\* The steps of create_process.
LEMMA CreateInv ==
  ASSUME IInv, NEW c \in Creators, Create(c)
  PROVE  IInv'
<1> USE Distinct
<1>0. Len(Boot) \in Nat
  BY DEF Boot
<1>1. CASE ReadNextPid(c)
  <2>0. /\ UNCHANGED <<state, pid, parent, left, rank, links, current, focused, foreground>>
        /\ UNCHANGED <<pending, path, next_pid, booted, made>>
        /\ pc[c] = "read" /\ pc' = [pc EXCEPT ![c] = "number"] /\ tmp' = [tmp EXCEPT ![c] = next_pid]
    BY <1>1 DEF ReadNextPid, Goto, Runs, table, focus, exec
  <2>1. pc \in [Procs -> Labels] /\ tmp \in [Procs -> Int] /\ next_pid \in Nat /\ c \in Procs
    BY DEF IInv, TypeOK, Creators, Procs, Tasks, Programs
  <2>2. pc' \in [Procs -> Labels] /\ tmp' \in [Procs -> Int] /\ "number" \in Labels
    BY <2>0, <2>1 DEF Labels
  <2>3. TypeOK'
    BY <2>0, <2>2 DEF IInv, TypeOK
  <2>4. /\ \A d \in Procs : d # c => pc'[d] = pc[d] /\ tmp'[d] = tmp[d]
        /\ pc'[c] = "number" /\ tmp'[c] = next_pid
    BY <2>0, <2>1
  <2>5. Creators \subseteq Procs
    BY DEF Creators, Procs, Tasks, Programs
  <2>6. BootInv' /\ NumberInv'
    BY <2>0, <2>1, <2>4, <2>5 DEF IInv, BootInv, NumberInv, Boot
  <2>7. ListInv' /\ CpuInv'
    BY <2>0 DEF IInv, ListInv, CpuInv
  <2>8. MadeInv'
    BY <2>0, <2>4, <2>5 DEF IInv, MadeInv
  <2> QED BY <2>3, <2>6, <2>7, <2>8 DEF IInv
<1>2. ASSUME NEW n \in Procs, NumberProcess(c, n)
      PROVE  IInv'
  <2>0. /\ state[n] = "free" /\ n # TaskA /\ n # current /\ rank[n] = 0 /\ n # c
        /\ tmp[c] \in Nat /\ pc[c] = "number"
    BY <1>2 DEF NumberProcess, Runs, IInv, CpuInv, ListInv, NumberInv
  <2>1. /\ Entry(n) \in {"read", "idle", "reap", "run"}
        /\ pc' = [pc EXCEPT ![c] = "insert", ![n] = Entry(n)]
    BY <1>2 DEF NumberProcess, Entry
  <2>2. TypeOK'
    BY <1>2, <2>0, <2>1 DEF IInv, TypeOK, NumberProcess, Boot, exec
  <2>3. BootInv'
    BY <1>2, <2>0, <2>1 DEF IInv, TypeOK, BootInv, NumberProcess, Boot
  <2>4. NumberInv'
    BY <1>2, <2>0, <2>1 DEF IInv, TypeOK, NumberInv, NumberProcess
  <2>5. ListInv'
    BY <1>2, <2>0 DEF IInv, TypeOK, ListInv, NumberProcess
  <2>6. MadeInv'
    <3>1. made' = [made EXCEPT ![c] = n] /\ state' = [state EXCEPT ![n] = "ready"]
          /\ rank' = rank
      BY <1>2 DEF NumberProcess
    <3>2. \A d \in Creators : d # c => (pc'[d] = "insert" => pc[d] = "insert")
      BY <2>1 DEF IInv, TypeOK
    <3>3. \A d \in Creators : pc[d] = "insert" => made[d] # n
      BY <2>0 DEF IInv, MadeInv
    <3> QED BY <2>0, <3>1, <3>2, <3>3 DEF IInv, TypeOK, MadeInv
  <2>7. CpuInv'
    BY <1>2, <2>0 DEF IInv, TypeOK, CpuInv, NumberProcess
  <2> QED BY <2>2, <2>3, <2>4, <2>5, <2>6, <2>7 DEF IInv
<1>3. CASE InsertProcess(c)
  <2>0. /\ pc[c] = "insert" /\ made[c] \in Procs /\ rank[made[c]] = 0
        /\ state[made[c]] = "ready"
        /\ \A d \in Creators : pc[d] = "insert" /\ made[d] = made[c] => d = c
    BY <1>3 DEF InsertProcess, Runs, IInv, MadeInv
  <2>1. /\ rank' = [rank EXCEPT ![made[c]] = links + 1] /\ links' = links + 1
        /\ made' = [made EXCEPT ![c] = NoProc]
        /\ UNCHANGED <<state, pid, parent, left, current, focus, exec, next_pid, tmp>>
    BY <1>3 DEF InsertProcess
  <2>2. \/ /\ c = TaskA /\ booted' = booted + 1
           /\ pc' = [pc EXCEPT ![TaskA] = "flag"] \/ pc' = [pc EXCEPT ![TaskA] = AfterBoot(booted + 1)]
        \/ c # TaskA /\ booted' = booted /\ pc' = [pc EXCEPT ![c] = "adopt"]
    BY <1>3 DEF InsertProcess, Goto
  <2>3. /\ AfterBoot(booted + 1) \in {"read", "idle"}
        /\ AfterBoot(booted + 1) = "read" => booted + 1 < Len(Boot)
    BY DEF AfterBoot
  <2>4. Len(Boot') = Len(Boot)
    BY DEF Boot
  <2>5. TypeOK'
    <3>1. links + 1 \in Nat
      BY DEF IInv, TypeOK
    <3>2. rank' \in [Procs -> Nat] /\ links' \in Nat
      BY <2>1, <3>1 DEF IInv, TypeOK
    <3>3. made' \in [Procs -> Procs \cup {NoProc}]
      BY <2>1 DEF IInv, TypeOK
    <3>4. booted' \in 0..Len(Boot')
      <4>1. booted \in 0..Len(Boot) /\ (c = TaskA => booted < Len(Boot))
        BY <2>0 DEF IInv, TypeOK, BootInv
      <4>2. booted' \in 0..Len(Boot)
        BY <1>0, <2>2, <4>1
      <4> QED BY <2>4, <4>2
    <3>5. pc' \in [Procs -> Labels]
      BY <2>2, <2>3 DEF IInv, TypeOK
    <3> QED BY <2>1, <3>2, <3>3, <3>4, <3>5 DEF IInv, TypeOK, focus, exec
  <2>6. BootInv'
    BY <1>0, <2>0, <2>1, <2>2, <2>3, <2>4 DEF IInv, TypeOK, BootInv
  <2>7. NumberInv'
    BY <2>1, <2>2, <2>3 DEF IInv, TypeOK, NumberInv
  <2>8. ListInv'
    <3>1. /\ links \in Nat
          /\ \A p \in Procs : rank[p] \in Nat /\ rank[p] <= links
      BY DEF IInv, TypeOK, ListInv
    <3>2. \A p \in Procs : rank'[p] = IF p = made[c] THEN links + 1 ELSE rank[p]
      BY <2>1 DEF IInv, TypeOK
    <3>3. \A p, q \in Procs : rank[p] > 0 /\ rank[p] = rank[q] => p = q
      BY DEF IInv, ListInv
    <3>4. \A p \in Procs : state'[p] = "free" => rank'[p] = 0
      BY <2>0, <2>1, <3>2 DEF IInv, ListInv
    <3>5. \A p \in Procs : rank'[p] <= links'
      BY <2>1, <3>1, <3>2
    <3>6. \A p, q \in Procs : rank'[p] > 0 /\ rank'[p] = rank'[q] => p = q
      BY <3>1, <3>2, <3>3
    <3> QED BY <3>4, <3>5, <3>6 DEF ListInv
  <2>9. MadeInv'
    <3>1. \A d \in Creators : d # c => (pc'[d] = "insert" => pc[d] = "insert")
      BY <2>2 DEF IInv, TypeOK
    <3>2. pc'[c] # "insert"
      BY <2>2, <2>3 DEF IInv, TypeOK
    <3> QED BY <2>0, <2>1, <3>1, <3>2 DEF IInv, TypeOK, MadeInv
  <2>10. CpuInv'
    BY <2>0, <2>1 DEF IInv, TypeOK, CpuInv
  <2> QED BY <2>5, <2>6, <2>7, <2>8, <2>9, <2>10 DEF IInv
<1>4. CASE LoadFails(c) \/ StackFails(c)
  <2>0. /\ c # TaskA /\ pc' = [pc EXCEPT ![c] = "adopt"]
        /\ \E r \in Int : tmp' = [tmp EXCEPT ![c] = r]
        /\ next_pid' = next_pid \/ (pc[c] = "number" /\ next_pid' = tmp[c] + 1)
        /\ UNCHANGED <<table, focus, exec, booted, made>>
    BY <1>4 DEF LoadFails, StackFails, Goto, Runs
  <2>1. TypeOK'
    BY <2>0 DEF IInv, TypeOK, NumberInv, table, focus, exec, Boot
  <2>2. BootInv' /\ NumberInv'
    BY <2>0 DEF IInv, TypeOK, BootInv, NumberInv, table, focus, exec, Boot
  <2>3. ListInv' /\ CpuInv'
    BY <2>0 DEF IInv, ListInv, CpuInv, table
  <2>4. MadeInv'
    <3>1. \A d \in Creators : pc'[d] = "insert" => pc[d] = "insert"
      BY <2>0 DEF IInv, TypeOK
    <3> QED BY <2>0, <3>1 DEF IInv, MadeInv, table
  <2> QED BY <2>1, <2>2, <2>3, <2>4 DEF IInv
<1> QED BY <1>1, <1>2, <1>3, <1>4 DEF Create

\* The hand-overs of the focus, the steps of task_d and those of programs that
\* neither create a process nor give up the CPU.
LEMMA OtherInv ==
  ASSUME IInv,
         \/ FlagShell \/ PointShell \/ LaunchExplorer
         \/ TakeExec \/ AdoptChild \/ ClearPending
         \/ \E p \in Programs : SysExec(p) \/ \E x \in Nat : KillOther(p, x)
         \/ ShellChecksFocus \/ ShellReturns \/ ShellTestsExec \/ ShellPostsExec
  PROVE  IInv'
<1> USE Distinct
<1>0. Len(Boot) \in Nat /\ Len(Boot') = Len(Boot)
  BY DEF Boot
<1>1. CASE FlagShell \/ PointShell
  <2>0. /\ AfterBoot(booted) \in {"read", "idle"}
        /\ AfterBoot(booted) = "read" => booted < Len(Boot)
    BY DEF AfterBoot
  <2>1. /\ pc' = [pc EXCEPT ![TaskA] = "point"] \/ pc' = [pc EXCEPT ![TaskA] = AfterBoot(booted)]
        /\ UNCHANGED <<table, exec, creation>>
    BY <1>1 DEF FlagShell, PointShell, Goto
  <2>2. focused' \in [Procs -> BOOLEAN] /\ foreground' \in Procs \cup {NoProc}
    BY <1>1 DEF FlagShell, PointShell, Found, Linked, IInv, TypeOK
  <2>3. /\ \A d \in Creators : pc'[d] = "insert" => pc[d] = "insert"
        /\ \A d \in Creators : pc'[d] = "number" => pc[d] = "number"
    BY <2>0, <2>1 DEF IInv, TypeOK
  <2>4. BootInv'
    BY <1>0, <2>0, <2>1 DEF IInv, TypeOK, BootInv, creation
  <2>5. TypeOK'
    <3>1. pc' \in [Procs -> Labels]
      BY <2>0, <2>1 DEF IInv, TypeOK
    <3> QED BY <1>0, <2>1, <2>2, <3>1 DEF IInv, TypeOK, table, exec, creation
  <2>6. NumberInv' /\ ListInv' /\ MadeInv' /\ CpuInv'
    BY <2>1, <2>3 DEF IInv, NumberInv, ListInv, MadeInv, CpuInv, table, creation
  <2> QED BY <2>4, <2>5, <2>6 DEF IInv
<1>2. CASE LaunchExplorer \/ AdoptChild
  <2>1. PICK c \in {TaskC, TaskD} :
          /\ pc' = [pc EXCEPT ![c] = "idle"] \/ pc' = [pc EXCEPT ![c] = "clear"]
          /\ tmp' = [tmp EXCEPT ![c] = 0]
    BY <1>2 DEF LaunchExplorer, AdoptChild, Goto
  <2>2. /\ \/ UNCHANGED state
           \/ \E p \in Procs : rank[p] > 0 /\ state' = [state EXCEPT ![p] = "ready"]
        /\ UNCHANGED <<pid, parent, left, rank, links, current, exec, next_pid, booted, made>>
    BY <1>2 DEF LaunchExplorer, AdoptChild, Found, Linked, table
  <2>3. focused' \in [Procs -> BOOLEAN] /\ foreground' \in Procs \cup {NoProc}
    <3>1. \/ UNCHANGED focus
          \/ \E p \in Procs : FocusExplorer(p) \/ FocusChild(p)
      BY <1>2 DEF LaunchExplorer, AdoptChild, Found, Linked, focus
    <3>2. ASSUME NEW p \in Procs, FocusExplorer(p) \/ FocusChild(p)
          PROVE  focused' \in [Procs -> BOOLEAN] /\ foreground' \in Procs \cup {NoProc}
      <4>1. \A q \in Procs : focused[q] \in BOOLEAN
        BY DEF IInv, TypeOK
      <4>2. foreground' = p
        BY <3>2 DEF FocusExplorer, FocusChild
      <4>3. CASE FocusExplorer(p)
        BY <4>1, <4>2, <4>3, Zenon DEF FocusExplorer
      <4>4. CASE FocusChild(p)
        BY <4>1, <4>2, <4>4, Zenon DEF FocusChild
      <4> QED BY <3>2, <4>3, <4>4
    <3> QED BY <3>1, <3>2 DEF focus, IInv, TypeOK
  <2>4. /\ \A d \in Creators : pc'[d] = "insert" => pc[d] = "insert"
        /\ \A d \in Creators : pc'[d] = "number" => pc[d] = "number" /\ tmp'[d] = tmp[d]
        /\ pc'[TaskA] = pc[TaskA]
    BY <2>1 DEF IInv, TypeOK
  <2>5. TypeOK'
    <3>0. state \in [Procs -> States] /\ pc \in [Procs -> Labels] /\ tmp \in [Procs -> Int]
      BY DEF IInv, TypeOK
    <3>1. state' \in [Procs -> States]
      BY <2>2, <3>0
    <3>2. pc' \in [Procs -> Labels]
      BY <2>1, <3>0
    <3>3. tmp' \in [Procs -> Int]
      BY <2>1, <3>0
    <3> QED BY <1>0, <2>2, <2>3, <3>1, <3>2, <3>3 DEF IInv, TypeOK, exec
  <2>6. BootInv' /\ NumberInv'
    BY <1>0, <2>2, <2>4 DEF IInv, BootInv, NumberInv
  <2>7. ListInv' /\ CpuInv'
    BY <2>2 DEF IInv, TypeOK, ListInv, CpuInv
  <2>8. MadeInv'
    <3>1. \A q \in Procs : rank[q] = 0 => state'[q] = state[q]
      <4>1. state \in [Procs -> States]
        BY DEF IInv, TypeOK
      <4>2. ASSUME NEW p \in Procs, rank[p] > 0, state' = [state EXCEPT ![p] = "ready"]
            PROVE  \A q \in Procs : rank[q] = 0 => state'[q] = state[q]
        <5>1. \A q \in Procs : q # p => state'[q] = state[q]
          BY <4>1, <4>2
        <5>2. rank[p] # 0
          BY <4>2
        <5> QED BY <5>1, <5>2
      <4> QED BY <2>2, <4>2
    <3> QED BY <2>2, <2>4, <3>1 DEF IInv, MadeInv
  <2> QED BY <2>5, <2>6, <2>7, <2>8 DEF IInv
<1>3. CASE \/ TakeExec \/ ClearPending
           \/ ShellChecksFocus \/ ShellReturns \/ ShellTestsExec \/ ShellPostsExec
           \/ \E p \in Programs : SysExec(p)
  <2>1. PICK c \in {TaskD, ShellTask}, l \in {"read", "idle", "command", "post", "run"} :
          UNCHANGED pc \/ pc' = [pc EXCEPT ![c] = l]
    BY <1>3 DEF TakeExec, ClearPending, ShellChecksFocus, ShellReturns, ShellTestsExec,
                ShellPostsExec, SysExec, Goto
  <2>2. /\ pending' \in BOOLEAN /\ path' \in Programs \cup {NoProc}
        /\ UNCHANGED <<table, focus, creation>>
    BY <1>3 DEF TakeExec, ClearPending, ShellChecksFocus, ShellReturns, ShellTestsExec,
                ShellPostsExec, SysExec, exec, IInv, TypeOK, Programs
  <2>3. /\ \A d \in Creators : pc'[d] = "insert" => pc[d] = "insert"
        /\ \A d \in Creators : pc'[d] = "number" => pc[d] = "number"
        /\ pc'[TaskA] = pc[TaskA]
    BY <2>1, ProcsAssumption DEF IInv, TypeOK
  <2>4. TypeOK'
    <3>1. pc' \in [Procs -> Labels]
      BY <2>1 DEF IInv, TypeOK
    <3> QED BY <1>0, <2>2, <3>1 DEF IInv, TypeOK, table, focus, creation
  <2>5. BootInv' /\ NumberInv' /\ ListInv' /\ MadeInv' /\ CpuInv'
    BY <1>0, <2>2, <2>3 DEF IInv, BootInv, NumberInv, ListInv, MadeInv, CpuInv, table, creation
  <2> QED BY <2>4, <2>5 DEF IInv
<1>4. ASSUME NEW p \in Programs, NEW x \in Nat, KillOther(p, x)
      PROVE  IInv'
  <2>1. PICK t \in Procs :
          /\ rank[t] > 0 /\ pid[t] = x /\ t # p
          /\ state' = [state EXCEPT ![t] = "zombie"]
          /\ FocusParent(t)
    BY <1>4 DEF KillOther, Found, Linked
  <2>2. /\ t # TaskA /\ t # current
        /\ UNCHANGED <<pid, parent, left, rank, links, current, exec, creation>>
        /\ p \in Programs /\ pc' = [pc EXCEPT ![p] = "run"]
    BY <1>4, <2>1 DEF KillOther, Calls, Goto, Protected, Runs, IInv, CpuInv
  <2>3. focused' \in [Procs -> BOOLEAN] /\ foreground' \in Procs \cup {NoProc}
    BY <2>1 DEF FocusParent, Found, Linked, focus, IInv, TypeOK
  <2>0. /\ pc' \in [Procs -> Labels] /\ pc'[TaskA] = pc[TaskA]
        /\ \A d \in Creators : pc'[d] = pc[d]
    BY <2>2, ProcsAssumption DEF IInv, TypeOK, Creators
  <2>4. TypeOK'
    BY <1>0, <2>0, <2>1, <2>2, <2>3 DEF IInv, TypeOK, exec, creation
  <2>5. BootInv' /\ NumberInv'
    BY <1>0, <2>0, <2>2 DEF IInv, BootInv, NumberInv, creation
  <2>6. ListInv' /\ CpuInv'
    BY <2>1, <2>2 DEF IInv, TypeOK, ListInv, CpuInv
  <2>7. MadeInv'
    <3>1. \A q \in Procs : rank[q] = 0 => state'[q] = state[q]
      BY <2>1 DEF IInv, TypeOK
    <3> QED BY <2>0, <2>2, <3>1 DEF IInv, MadeInv, creation
  <2> QED BY <2>4, <2>5, <2>6, <2>7 DEF IInv
<1> QED BY <1>1, <1>2, <1>3, <1>4

LEMMA ReapInv ==
  ASSUME IInv, Reap
  PROVE  IInv'
<1> USE Distinct
<1>1. /\ state' = [p \in Procs |-> IF p \in Reaped THEN "free" ELSE state[p]]
      /\ rank' = [p \in Procs |-> IF p \in Reaped THEN 0 ELSE rank[p]]
      /\ pid' = [p \in Procs |-> IF p \in Reaped THEN 0 ELSE pid[p]]
      /\ parent' = [p \in Procs |-> IF p \in Reaped THEN 0 ELSE parent[p]]
      /\ left' = [p \in Procs |-> IF p \in Reaped THEN 0 ELSE left[p]]
      /\ focused' = [p \in Procs |-> p \notin Reaped /\ focused[p]]
      /\ pc' = [p \in Procs |-> IF p \in Reaped THEN "off" ELSE pc[p]]
      /\ UNCHANGED <<links, current, foreground, exec, creation>>
  BY DEF Reap
<1>2. \A p \in Reaped : p # TaskA /\ p # current /\ rank[p] > 0 /\ state[p] = "zombie"
  BY DEF Reaped, Linked, IInv, CpuInv
<1> HIDE DEF Reaped
<1>3. TypeOK'
  <2>1. /\ state' \in [Procs -> States]
        /\ pid' \in [Procs -> Nat] /\ parent' \in [Procs -> Nat] /\ left' \in [Procs -> Nat]
        /\ rank' \in [Procs -> Nat]
    BY <1>1 DEF IInv, TypeOK
  <2>2. /\ focused' \in [Procs -> BOOLEAN]
        /\ pc' \in [Procs -> Labels]
    BY <1>1 DEF IInv, TypeOK
  <2> QED BY <1>1, <2>1, <2>2 DEF IInv, TypeOK, exec, creation, Boot
<1>4. BootInv' /\ NumberInv'
  BY <1>1, <1>2 DEF IInv, BootInv, NumberInv, creation, Boot
<1>5. ListInv'
  <2>1. \A p \in Procs : rank'[p] = (IF p \in Reaped THEN 0 ELSE rank[p])
    BY <1>1
  <2>2. \A p \in Procs : rank'[p] <= links'
    BY <1>1, <2>1 DEF IInv, TypeOK, ListInv
  <2>3. \A p, q \in Procs : rank'[p] > 0 /\ rank'[p] = rank'[q] => p = q
    <3>1. \A p, q \in Procs : rank[p] > 0 /\ rank[p] = rank[q] => p = q
      BY DEF IInv, ListInv
    <3> QED BY <2>1, <3>1
  <2>4. \A p \in Procs : state'[p] = "free" => rank'[p] = 0
    BY <1>1 DEF IInv, ListInv
  <2> QED BY <2>2, <2>3, <2>4 DEF ListInv
<1>6. MadeInv'
  BY <1>1, <1>2 DEF IInv, MadeInv, creation
<1>7. CpuInv'
  BY <1>1, <1>2 DEF IInv, TypeOK, CpuInv
<1> QED BY <1>3, <1>4, <1>5, <1>6, <1>7 DEF IInv

LEMMA StepInv == IInv /\ [Next]_vars => IInv'
<1> SUFFICES ASSUME IInv, [Next]_vars PROVE IInv'
  OBVIOUS
<1>0. \A ms \in {10} \cup SleepMs : ms \in Nat
  BY NumbersAssumption
<1>1. \A x \in KillPids : x \in Nat
  BY NumbersAssumption
<1>2. CASE UNCHANGED vars
  BY <1>2 DEF vars, table, focus, exec, creation, IInv, TypeOK, BootInv, NumberInv, ListInv,
              MadeInv, CpuInv, Boot
<1>3. CASE TimerInterrupt
  BY <1>3, SwitchInv
<1>4. ASSUME NEW c \in Creators, Create(c) PROVE IInv'
  BY <1>4, CreateInv
<1>5. ASSUME NEW p \in Programs, Syscall(p) PROVE IInv'
  <2>1. CASE \/ \E ms \in Nat : SysSleep(p, ms)
             \/ SysExit(p)
             \/ \E x \in Nat : KillSelf(p, x)
    BY <2>1, SwitchInv
  <2>2. CASE SysExec(p) \/ \E x \in Nat : KillOther(p, x)
    BY <2>2, OtherInv
  <2> QED BY <1>0, <1>1, <1>5, <2>1, <2>2 DEF Syscall
<1>6. CASE Reap
  BY <1>6, ReapInv
<1> QED BY <1>2, <1>3, <1>4, <1>5, <1>6, OtherInv DEF Next

\* Every reachable state satisfies the inductive invariant.
THEOREM Invariance == Spec => []IInv
<1>1. Init => IInv
  BY InitInv
<1>2. IInv /\ [Next]_vars => IInv'
  BY StepInv
<1> QED BY <1>1, <1>2, PTL DEF Spec

\* The variables of the process table keep their types.
THEOREM TypeCorrect == Spec => []TypeOK
<1>1. IInv => TypeOK
  BY DEF IInv
<1> QED BY <1>1, Invariance, PTL

\* schedule always finds a process to run, and only its owner is RUNNING:
\* kernel_main's task can neither be killed nor fall asleep.
THEOREM SomeoneAlways == Spec => []AlwaysSomeone
<1>1. IInv => AlwaysSomeone
  BY Distinct DEF IInv, TypeOK, CpuInv, AlwaysSomeone, Linked
<1> QED BY <1>1, Invariance, PTL

\* What a step does to the CPU: nothing, or an interrupt in which the process
\* that was running may have put itself to sleep or to death before.
LEMMA StepSwitches ==
  ASSUME IInv, [Next]_vars
  PROVE  \/ UNCHANGED current
         \/ /\ current' \in Linked
            /\ state[current'] \notin {"zombie", "free"}
<1> USE Distinct
<1>0. /\ state \in [Procs -> States] /\ left \in [Procs -> Nat] /\ current \in Procs
      /\ state[current] # "free" /\ state[TaskA] \in {"ready", "running"}
  BY DEF IInv, TypeOK, CpuInv
<1>1. CASE TimerInterrupt
  BY <1>0, <1>1, Handler DEF TimerInterrupt, IInv, Linked
<1>2. ASSUME NEW p \in Programs, NEW ms \in {10} \cup SleepMs, SysSleep(p, ms)
      PROVE  current' \in Linked /\ (current' # current => state[current'] \notin {"zombie", "free"})
  <2> DEFINE st == [state EXCEPT ![p] = "sleeping"]
             lf == [left EXCEPT ![p] = SleepTicks(ms)]
  <2>1. SleepTicks(ms) \in Nat
    BY NumbersAssumption DEF SleepTicks
  <2>2. /\ TimerHandler(st, lf) /\ p = current /\ p # TaskA
        /\ st \in [Procs -> States] /\ lf \in [Procs -> Nat]
        /\ \A q \in Procs : q # current => st[q] = state[q]
        /\ st[current] # "free" /\ st[TaskA] \in {"ready", "running"}
    BY <1>0, <1>2, <2>1 DEF SysSleep, Calls, Runs
  <2> HIDE DEF st, lf
  <2> QED BY <2>2, Handler DEF IInv, Linked
<1>4. ASSUME NEW p \in Programs, SysExit(p) \/ \E x \in KillPids : KillSelf(p, x)
      PROVE  current' \in Linked /\ (current' # current => state[current'] \notin {"zombie", "free"})
  <2> DEFINE st == [state EXCEPT ![p] = "zombie"]
  <2>1. /\ TimerHandler(st, left) /\ p = current /\ p # TaskA
        /\ st \in [Procs -> States]
        /\ \A q \in Procs : q # current => st[q] = state[q]
        /\ st[current] # "free" /\ st[TaskA] \in {"ready", "running"}
    BY <1>0, <1>4 DEF SysExit, KillSelf, Calls, Runs
  <2> HIDE DEF st
  <2> QED BY <1>0, <2>1, Handler DEF IInv, Linked
<1>5. CASE \/ \E c \in Creators : Create(c)
           \/ FlagShell \/ PointShell \/ LaunchExplorer
           \/ TakeExec \/ AdoptChild \/ ClearPending \/ Reap
           \/ \E p \in Programs : SysExec(p) \/ \E x \in KillPids : KillOther(p, x)
           \/ ShellChecksFocus \/ ShellReturns \/ ShellTestsExec \/ ShellPostsExec
           \/ UNCHANGED vars
  BY <1>5 DEF Create, ReadNextPid, NumberProcess, InsertProcess, LoadFails, StackFails,
              FlagShell, PointShell, LaunchExplorer, TakeExec, AdoptChild, ClearPending,
              Reap, SysExec, KillOther, ShellChecksFocus, ShellReturns, ShellTestsExec,
              ShellPostsExec, vars, table
<1> QED BY <1>1, <1>2, <1>4, <1>5 DEF Next, Syscall

\* schedule never gives the CPU to the dead, whatever state the interrupted
\* code left the table in.
THEOREM NoneDeadRuns == Spec => NeverRunsDead
<1>1. IInv /\ [Next]_vars =>
        [current' # current => current' \in Linked /\ state[current'] \notin {"zombie", "free"}]_vars
  BY StepSwitches
<1> QED BY <1>1, Invariance, PTL DEF Spec, NeverRunsDead

\* A step that is not an adoption leaves the dead of the list dead: an interrupt wakes
\* sleepers only, and the process that puts itself to sleep was running.
LEMMA DeadStay ==
  ASSUME IInv, [Next]_vars, ~AdoptChild,
         NEW p \in Procs, state[p] = "zombie"
  PROVE  state'[p] \in {"zombie", "free"}
<1> USE Distinct
<1>0. /\ state \in [Procs -> States] /\ left \in [Procs -> Nat] /\ current \in Procs
      /\ state[current] \in {"ready", "running"} /\ state[TaskA] \in {"ready", "running"}
  BY DEF IInv, TypeOK, CpuInv
<1>1. CASE TimerInterrupt
  BY <1>0, <1>1, Handler DEF TimerInterrupt, IInv
<1>2. ASSUME NEW q \in Programs, NEW ms \in {10} \cup SleepMs, SysSleep(q, ms)
      PROVE  state'[p] = "zombie"
  <2> DEFINE st == [state EXCEPT ![q] = "sleeping"]
             lf == [left EXCEPT ![q] = SleepTicks(ms)]
  <2>1. SleepTicks(ms) \in Nat
    BY NumbersAssumption DEF SleepTicks
  <2>2. /\ TimerHandler(st, lf)
        /\ st \in [Procs -> States] /\ lf \in [Procs -> Nat]
        /\ \A r \in Procs : r # current => st[r] = state[r]
        /\ st[current] # "free" /\ st[TaskA] \in {"ready", "running"}
        /\ st[p] = "zombie"
    BY <1>0, <1>2, <2>1 DEF SysSleep, Calls, Runs
  <2> HIDE DEF st, lf
  <2> QED BY <2>2, Handler DEF IInv
<1>4. ASSUME NEW q \in Programs, SysExit(q) \/ \E x \in KillPids : KillSelf(q, x)
      PROVE  state'[p] = "zombie"
  <2> DEFINE st == [state EXCEPT ![q] = "zombie"]
  <2>1. /\ TimerHandler(st, left)
        /\ st \in [Procs -> States]
        /\ \A r \in Procs : r # current => st[r] = state[r]
        /\ st[current] # "free" /\ st[TaskA] \in {"ready", "running"}
        /\ st[p] = "zombie"
    BY <1>0, <1>4 DEF SysExit, KillSelf, Calls, Runs
  <2> HIDE DEF st
  <2> QED BY <1>0, <2>1, Handler DEF IInv
<1>5. CASE \/ \E c \in Creators : ReadNextPid(c) \/ InsertProcess(c) \/ LoadFails(c) \/ StackFails(c)
           \/ FlagShell \/ PointShell \/ LaunchExplorer
           \/ TakeExec \/ ClearPending
           \/ \E q \in Programs : SysExec(q)
           \/ ShellChecksFocus \/ ShellReturns \/ ShellTestsExec \/ ShellPostsExec
           \/ UNCHANGED vars
  BY <1>5 DEF ReadNextPid, InsertProcess, LoadFails, StackFails,
              FlagShell, PointShell, LaunchExplorer, TakeExec, ClearPending,
              SysExec, ShellChecksFocus, ShellReturns, ShellTestsExec,
              ShellPostsExec, vars, table
<1>6. ASSUME NEW c \in Creators, NEW n \in Procs, NumberProcess(c, n)
      PROVE  state'[p] = "zombie"
  BY <1>0, <1>6 DEF NumberProcess
<1>7. CASE Reap
  BY <1>7 DEF Reap
<1>8. ASSUME NEW q \in Programs, NEW x \in KillPids, KillOther(q, x)
      PROVE  state'[p] = "zombie"
  BY <1>0, <1>8 DEF KillOther
<1> QED BY <1>1, <1>2, <1>4, <1>5, <1>6, <1>7, <1>8 DEF Next, Syscall, Create

\* The dead come back only by the hand of task_d, and only with the pid of the child it has
\* just created.
THEOREM AdoptionAloneRevives == Spec => OnlyAdoptionRevives
<1>1. ASSUME IInv, [Next]_vars,
             NEW p \in Procs, state[p] = "zombie", state'[p] \notin {"zombie", "free"}
      PROVE  pc[TaskD] = "adopt" /\ pc'[TaskD] = "clear" /\ pid[p] = tmp[TaskD]
  <2>0. state \in [Procs -> States] /\ pc \in [Procs -> Labels] /\ TaskD \in Procs
    BY <1>1, Distinct DEF IInv, TypeOK
  <2>1. AdoptChild
    BY <1>1, DeadStay
  <2>2. pc[TaskD] = "adopt" /\ pc'[TaskD] = "clear"
    BY <2>0, <2>1 DEF AdoptChild, Runs, Goto
  <2>3. p \in Found(tmp[TaskD])
    BY <1>1, <2>0, <2>1 DEF AdoptChild
  <2> QED BY <2>2, <2>3 DEF Found
<1>2. IInv /\ [Next]_vars =>
        [\A p \in Procs :
           /\ state[p] = "zombie"
           /\ state'[p] \notin {"zombie", "free"}
           => pc[TaskD] = "adopt" /\ pc'[TaskD] = "clear" /\ pid[p] = tmp[TaskD]]_vars
  BY <1>1
<1> QED BY <1>2, Invariance, PTL DEF Spec, OnlyAdoptionRevives

\* While task_d serves a request, nobody lowers the flag: no second request
\* can be accepted.
THEOREM ServingIsBusy == Spec => []BusyWhileServing
<1> USE Distinct
<1>1. Init => BusyWhileServing
  BY DEF Init, BusyWhileServing
<1>2. ASSUME IInv, BusyWhileServing, [Next]_vars
      PROVE  BusyWhileServing'
  <2> USE <1>2
  <2>0. pc \in [Procs -> Labels] /\ state \in [Procs -> States]
    BY DEF IInv, TypeOK
  <2>1. CASE TimerInterrupt \/ UNCHANGED vars
    BY <2>1 DEF TimerInterrupt, vars, exec, BusyWhileServing
  <2>2. ASSUME NEW c \in Creators, Create(c)
        PROVE  BusyWhileServing'
    <3>1. UNCHANGED exec
      BY <2>2 DEF Create, ReadNextPid, NumberProcess, InsertProcess, LoadFails, StackFails
    <3>2. pc'[TaskD] \in {"read", "number", "insert", "adopt", "clear"} =>
            pc[TaskD] \in {"read", "number", "insert", "adopt", "clear"}
      <4>1. CASE c = TaskD
        BY <2>2, <4>1 DEF Create, ReadNextPid, NumberProcess, InsertProcess, LoadFails,
                          StackFails, Runs
      <4>2. CASE c # TaskD
        <5>1. ASSUME NEW n \in Procs, NumberProcess(c, n) PROVE pc'[TaskD] \in {pc[TaskD], "idle"}
          BY <2>0, <4>2, <5>1, ProcsAssumption DEF NumberProcess, Entry
        <5>2. CASE ReadNextPid(c) \/ InsertProcess(c) \/ LoadFails(c) \/ StackFails(c)
          BY <2>0, <4>2, <5>2 DEF ReadNextPid, InsertProcess, LoadFails, StackFails, Goto
        <5> QED BY <2>2, <5>1, <5>2 DEF Create
      <4> QED BY <4>1, <4>2
    <3> QED BY <3>1, <3>2 DEF BusyWhileServing, exec
  <2>3. CASE FlagShell \/ PointShell \/ LaunchExplorer
    BY <2>0, <2>3 DEF FlagShell, PointShell, LaunchExplorer, Goto, exec, BusyWhileServing
  <2>4. CASE TakeExec \/ AdoptChild \/ ClearPending
    BY <2>0, <2>4 DEF TakeExec, AdoptChild, ClearPending, Goto, Runs, exec, BusyWhileServing
  <2>5. CASE Reap
    BY <2>0, <2>5 DEF Reap, exec, BusyWhileServing
  <2>6. ASSUME NEW p \in Programs, Syscall(p)
        PROVE  BusyWhileServing'
    <3>1. pending' = pending \/ pending' = TRUE
      BY <2>6 DEF Syscall, SysSleep, SysExit, KillOther, KillSelf, SysExec, exec
    <3>2. pc'[TaskD] = pc[TaskD]
      BY <2>0, <2>6 DEF Syscall, SysSleep, SysExit, KillOther, KillSelf, SysExec, Goto
    <3> QED BY <3>1, <3>2 DEF BusyWhileServing
  <2>7. CASE ShellChecksFocus \/ ShellReturns \/ ShellTestsExec \/ ShellPostsExec
    BY <2>0, <2>7, ProcsAssumption DEF ShellChecksFocus, ShellReturns, ShellTestsExec,
                                       ShellPostsExec, Goto, exec, BusyWhileServing
  <2> QED BY <2>1, <2>2, <2>3, <2>4, <2>5, <2>6, <2>7 DEF Next
<1> QED BY <1>1, <1>2, Invariance, PTL DEF Spec

-----------------------------------------------------------------------------
(* kill_process protects numbers, not processes.  That the numbers 1 to 3 are those of       *)
(* kernel_main, the shell and the launcher depends on when the first other thread can touch  *)
(* next_pid: not before the launcher has been inserted, because until then kernel_main is    *)
(* the only creator the scheduler can run.                                                   *)

\* The pids of the shell and of the launcher, and that neither is dead.
GuardedInv ==
  /\ pid[ShellTask] <= 3 /\ pid[TaskC] <= 3
  /\ state[ShellTask] # "zombie" /\ state[TaskC] # "zombie"

\* kernel_main inserts its tasks in the order of Boot.
OrderInv == pc[TaskA] = "insert" => made[TaskA] = Boot[booted + 1]

\* Until the launcher is in the list kernel_main alone counts pids.
AloneInv ==
  booted <= 1 =>
    /\ pc[TaskA] = "read" => next_pid = booted + 2
    /\ pc[TaskA] = "number" => tmp[TaskA] = booted + 2
    /\ pc[TaskA] = "insert" => next_pid = booted + 3
    /\ pc[TaskA] \in {"flag", "point"} => booted = 1 /\ next_pid = 3
    /\ rank[TaskC] = 0 /\ rank[TaskD] = 0
    /\ pc[TaskC] \in {"off", "read"} /\ pc[TaskD] = "off"

PInv == GuardedInv /\ OrderInv /\ AloneInv

-----------------------------------------------------------------------------

LEMMA BootFacts ==
  /\ Len(Boot) \in {3, 4}
  /\ Boot[1] = ShellTask /\ Boot[2] = TaskC /\ Boot[3] = TaskD
  /\ Len(Boot) = 4 => Boot[4] = TaskB
BY DEF Boot

LEMMA Tasks5 ==
  /\ ShellTask \in Procs /\ TaskB \in Procs
  /\ ShellTask # TaskA /\ ShellTask # TaskB /\ ShellTask # TaskC /\ ShellTask # TaskD
  /\ TaskB # TaskC /\ TaskB # TaskD
  /\ \A p \in Apps : p \in Procs /\ p # ShellTask /\ p # TaskC /\ p # TaskD /\ p # TaskA
BY ProcsAssumption DEF Procs, Tasks

LEMMA PInit == Init => PInv
<1> SUFFICES ASSUME Init PROVE PInv
  OBVIOUS
<1>1. GuardedInv
  BY Distinct, Tasks5 DEF Init, GuardedInv
<1>2. OrderInv
  BY Distinct DEF Init, OrderInv
<1>3. AloneInv
  BY Distinct, Tasks5 DEF Init, AloneInv
<1> QED BY <1>1, <1>2, <1>3 DEF PInv

\* A step that leaves alone what the boot has counted so far.
LEMMA PFrame ==
  ASSUME PInv, UNCHANGED <<booted, next_pid, made, rank, pid>>,
         pc'[TaskA] = pc[TaskA], tmp'[TaskA] = tmp[TaskA],
         booted <= 1 => pc'[TaskC] = pc[TaskC] /\ pc'[TaskD] = pc[TaskD],
         state'[ShellTask] # "zombie", state'[TaskC] # "zombie"
  PROVE  PInv'
<1>1. GuardedInv'
  BY DEF PInv, GuardedInv
<1>2. OrderInv'
  BY DEF PInv, OrderInv, Boot
<1>3. AloneInv'
  BY DEF PInv, AloneInv
<1> QED BY <1>1, <1>2, <1>3 DEF PInv

\* Interrupts, and the death of programs.
LEMMA PSwitch ==
  ASSUME IInv, PInv,
         \/ TimerInterrupt
         \/ \E p \in Programs : \/ \E ms \in Nat : SysSleep(p, ms)
                                \/ SysExit(p)
                                \/ \E x \in Nat : KillSelf(p, x)
  PROVE  PInv'
<1> USE Distinct, Tasks5
<1>0. /\ state \in [Procs -> States] /\ left \in [Procs -> Nat] /\ current \in Procs
      /\ state[current] # "free" /\ state[TaskA] \in {"ready", "running"}
      /\ state[ShellTask] # "zombie" /\ state[TaskC] # "zombie"
      /\ pc \in [Procs -> Labels]
  BY DEF IInv, TypeOK, CpuInv, PInv, GuardedInv
<1>1. ASSUME NEW STATE st, st \in [Procs -> States],
             NEW STATE lf, lf \in [Procs -> Nat],
             \A p \in Procs : p # current => st[p] = state[p],
             st[current] # "free", st[TaskA] \in {"ready", "running"},
             TimerHandler(st, lf), UNCHANGED creation,
             st[ShellTask] # "zombie" /\ st[TaskC] # "zombie",
             \/ UNCHANGED pc
             \/ \E p \in Programs, l \in {"run", "dead"} : pc' = [pc EXCEPT ![p] = l]
      PROVE  PInv'
  <2>1. /\ state'[ShellTask] # "zombie" /\ state'[TaskC] # "zombie"
        /\ UNCHANGED <<pid, rank>>
    BY <1>1, Handler DEF IInv
  <2>2. pc'[TaskA] = pc[TaskA] /\ pc'[TaskC] = pc[TaskC] /\ pc'[TaskD] = pc[TaskD]
    BY <1>0, <1>1
  <2> QED BY <1>1, <2>1, <2>2, PFrame DEF creation
<1>2. CASE TimerInterrupt
  BY <1>0, <1>1, <1>2 DEF TimerInterrupt
<1>3. ASSUME NEW p \in Programs, NEW ms \in Nat, SysSleep(p, ms)
      PROVE  PInv'
  <2>1. SleepTicks(ms) \in Nat
    BY DEF SleepTicks
  <2> DEFINE st == [state EXCEPT ![p] = "sleeping"]
             lf == [left EXCEPT ![p] = SleepTicks(ms)]
  <2>2. /\ p = current /\ p # TaskA
        /\ TimerHandler(st, lf) /\ UNCHANGED creation
        /\ pc' = [pc EXCEPT ![p] = "run"]
    BY <1>3 DEF SysSleep, Calls, Runs, Goto
  <2>3. /\ st \in [Procs -> States] /\ lf \in [Procs -> Nat]
        /\ \A q \in Procs : q # current => st[q] = state[q]
        /\ st[current] # "free" /\ st[TaskA] \in {"ready", "running"}
        /\ st[ShellTask] # "zombie" /\ st[TaskC] # "zombie"
    BY <1>0, <2>1, <2>2 DEF States
  <2> HIDE DEF st, lf
  <2> QED BY <1>1, <2>2, <2>3
<1>5. ASSUME NEW p \in Programs, SysExit(p) \/ \E x \in Nat : KillSelf(p, x)
      PROVE  PInv'
  <2> DEFINE st == [state EXCEPT ![p] = "zombie"]
  <2>1. /\ p = current /\ p # TaskA
        /\ TimerHandler(st, left) /\ UNCHANGED creation
        /\ pc' = [pc EXCEPT ![p] = "dead"]
    BY <1>5 DEF SysExit, KillSelf, Calls, Runs, Goto
  <2>2. p # ShellTask
    <3>1. CASE SysExit(p)
      BY <3>1 DEF SysExit
    <3>2. ASSUME NEW x \in Nat, KillSelf(p, x) PROVE p # ShellTask
      <4>1. pid[p] = x /\ ~(x <= 3)
        BY <3>2 DEF KillSelf, Found, Protected
      <4> QED BY <4>1 DEF PInv, GuardedInv
    <3> QED BY <1>5, <3>1, <3>2
  <2>3. /\ st \in [Procs -> States]
        /\ \A q \in Procs : q # current => st[q] = state[q]
        /\ st[current] # "free" /\ st[TaskA] \in {"ready", "running"}
        /\ st[ShellTask] # "zombie" /\ st[TaskC] # "zombie"
    BY <1>0, <2>1, <2>2 DEF States
  <2> HIDE DEF st
  <2> QED BY <1>0, <1>1, <2>1, <2>3
<1> QED BY <1>2, <1>3, <1>5

\* create_process, called by kernel_main or by the others.
LEMMA PCreate ==
  ASSUME IInv, PInv, NEW c \in Creators, Create(c)
  PROVE  PInv'
<1> USE Distinct, Tasks5
<1>0. /\ pc \in [Procs -> Labels] /\ tmp \in [Procs -> Int] /\ booted \in 0..Len(Boot)
      /\ state \in [Procs -> States] /\ pid \in [Procs -> Nat] /\ rank \in [Procs -> Nat]
      /\ made \in [Procs -> Procs \cup {NoProc}] /\ c \in Procs /\ rank[current] > 0
      /\ Boot' = Boot
  BY DEF IInv, TypeOK, CpuInv, Boot
<1>a. c # TaskA /\ pc[c] # "off" /\ current = c => ~(booted <= 1)
  <2>1. booted <= 1 => rank[TaskC] = 0 /\ pc[TaskD] = "off"
    BY DEF PInv, AloneInv
  <2>2. c = TaskA \/ c = TaskC \/ c = TaskD
    BY DEF Creators
  <2>3. rank[current] > 0
    BY <1>0
  <2>4. CASE c = TaskC
    <3>1. current = c => rank[TaskC] # 0
      BY <2>3, <2>4
    <3> QED BY <2>1, <3>1
  <2>5. CASE c = TaskD
    BY <2>1, <2>5
  <2> QED BY <2>2, <2>4, <2>5
<1>1. CASE ReadNextPid(c)
  <2>1. /\ pc[c] = "read" /\ current = c
        /\ pc' = [pc EXCEPT ![c] = "number"] /\ tmp' = [tmp EXCEPT ![c] = next_pid]
        /\ UNCHANGED <<state, pid, rank, next_pid, booted, made>>
    BY <1>1 DEF ReadNextPid, Runs, Goto, table
  <2>2. GuardedInv' /\ OrderInv'
    BY <1>0, <2>1 DEF PInv, GuardedInv, OrderInv
  <2>3. AloneInv'
    BY <1>0, <1>a, <2>1 DEF PInv, AloneInv
  <2> QED BY <2>2, <2>3 DEF PInv
<1>2. ASSUME NEW n \in Procs, NumberProcess(c, n)
      PROVE  PInv'
  <2>1. /\ pc[c] = "number" /\ current = c /\ state[n] = "free" /\ n # TaskA /\ n # c
        /\ IF c = TaskA THEN n = Boot[booted + 1] ELSE n \in Apps
        /\ next_pid' = tmp[c] + 1
        /\ pid' = [pid EXCEPT ![n] = tmp[c]]
        /\ state' = [state EXCEPT ![n] = "ready"]
        /\ made' = [made EXCEPT ![c] = n]
        /\ pc' = [pc EXCEPT ![c] = "insert", ![n] = Entry(n)]
        /\ UNCHANGED <<rank, booted, tmp>>
    BY <1>2 DEF NumberProcess, Runs, IInv, CpuInv
  <2>2. c = TaskA => booted < Len(Boot)
    BY <2>1 DEF IInv, BootInv
  <2>3. c = TaskA => \/ booted = 0 /\ n = ShellTask
                     \/ booted = 1 /\ n = TaskC
                     \/ booted = 2 /\ n = TaskD
                     \/ booted = 3 /\ n = TaskB
    <3>a. Len(Boot) = 3 \/ Len(Boot) = 4
      BY BootFacts
    <3>b. booted \in 0..Len(Boot)
      BY <1>0
    <3>1. c = TaskA => booted \in {0, 1, 2, 3} /\ (booted = 3 => Len(Boot) = 4)
      <4>1. CASE Len(Boot) = 3
        BY <2>2, <3>b, <4>1
      <4>2. CASE Len(Boot) = 4
        BY <2>2, <3>b, <4>2
      <4> QED BY <3>a, <4>1, <4>2
    <3>2. c = TaskA => n = Boot[booted + 1]
      BY <2>1
    <3> QED BY <3>1, <3>2, BootFacts
  <2>4. c = TaskA /\ booted <= 1 => tmp[c] = booted + 2
    BY <2>1 DEF PInv, AloneInv
  <2>5. GuardedInv'
    <3>1. n \in {ShellTask, TaskC} => tmp[c] <= 3
      BY <2>1, <2>3, <2>4
    <3> QED BY <1>0, <2>1, <3>1 DEF PInv, GuardedInv
  <2>6. OrderInv'
    BY <1>0, <2>1 DEF PInv, OrderInv
  <2>7. AloneInv'
    <3>1. CASE c = TaskA /\ booted <= 1
      <4>1. Entry(n) \in {"read", "run"} /\ (n = TaskC => Entry(n) = "read")
        BY <2>3, <3>1 DEF Entry
      <4>2. n # TaskD
        BY <2>3, <3>1
      <4>3. pc'[TaskA] = "insert" /\ next_pid' = booted + 3
        BY <1>0, <2>1, <2>4, <3>1
      <4>4. pc'[TaskC] \in {"off", "read"} /\ pc'[TaskD] = "off"
        BY <1>0, <2>1, <3>1, <4>1, <4>2 DEF PInv, AloneInv
      <4> QED BY <2>1, <4>3, <4>4, <3>1 DEF PInv, AloneInv
    <3>2. CASE ~(booted <= 1)
      BY <2>1, <3>2 DEF AloneInv
    <3> QED BY <1>a, <2>1, <3>1, <3>2
  <2> QED BY <2>5, <2>6, <2>7 DEF PInv
<1>3. CASE InsertProcess(c)
  <2>1. /\ pc[c] = "insert" /\ current = c
        /\ rank' = [rank EXCEPT ![made[c]] = links + 1]
        /\ made' = [made EXCEPT ![c] = NoProc]
        /\ UNCHANGED <<state, pid, next_pid, tmp>>
    BY <1>3 DEF InsertProcess, Runs
  <2>2. CASE c = TaskA
    <3>1. /\ booted' = booted + 1
          /\ pc' = [pc EXCEPT ![TaskA] = IF made[TaskA] = ShellTask THEN "flag"
                                         ELSE AfterBoot(booted + 1)]
      BY <1>3, <2>2 DEF InsertProcess, Goto
    <3>2. AfterBoot(booted + 1) \in {"read", "idle"}
      BY DEF AfterBoot
    <3>3. GuardedInv' /\ OrderInv'
      BY <1>0, <2>1, <3>1, <3>2 DEF PInv, GuardedInv, OrderInv
    <3>4. AloneInv'
      <4>1. CASE booted = 0
        <5>1. made[TaskA] = ShellTask
          BY <2>1, <2>2, <4>1, BootFacts DEF PInv, OrderInv
        <5> QED BY <1>0, <2>1, <2>2, <3>1, <4>1, <5>1 DEF PInv, AloneInv
      <4>2. CASE booted # 0
        BY <1>0, <3>1, <4>2, BootFacts DEF AloneInv
      <4> QED BY <4>1, <4>2
    <3> QED BY <3>3, <3>4 DEF PInv
  <2>3. CASE c # TaskA
    <3>1. booted' = booted /\ pc' = [pc EXCEPT ![c] = "adopt"]
      BY <1>3, <2>3 DEF InsertProcess, Goto
    <3>2. ~(booted <= 1)
      BY <1>a, <2>1, <2>3
    <3>3. GuardedInv' /\ OrderInv'
      BY <1>0, <2>1, <2>3, <3>1 DEF PInv, GuardedInv, OrderInv
    <3> QED BY <3>1, <3>2, <3>3 DEF PInv, AloneInv
  <2> QED BY <2>2, <2>3
<1>4. CASE LoadFails(c) \/ StackFails(c)
  <2>1. /\ c # TaskA /\ current = c /\ pc[c] # "off"
        /\ pc' = [pc EXCEPT ![c] = "adopt"]
        /\ UNCHANGED <<state, pid, rank, booted, made>>
    BY <1>4 DEF LoadFails, StackFails, Runs, Goto, table
  <2>2. ~(booted <= 1)
    BY <1>a, <2>1
  <2>3. GuardedInv' /\ OrderInv'
    BY <1>0, <2>1 DEF PInv, GuardedInv, OrderInv
  <2> QED BY <2>1, <2>2, <2>3 DEF PInv, AloneInv
<1> QED BY <1>1, <1>2, <1>3, <1>4 DEF Create

\* The focus, task_d, the reaper and the calls that keep the CPU.
LEMMA POther ==
  ASSUME IInv, PInv,
         \/ FlagShell \/ PointShell \/ LaunchExplorer
         \/ TakeExec \/ AdoptChild \/ ClearPending \/ Reap
         \/ \E p \in Programs : SysExec(p) \/ \E x \in Nat : KillOther(p, x)
         \/ ShellChecksFocus \/ ShellReturns \/ ShellTestsExec \/ ShellPostsExec
  PROVE  PInv'
<1> USE Distinct, Tasks5
<1>0. /\ pc \in [Procs -> Labels] /\ tmp \in [Procs -> Int]
      /\ state \in [Procs -> States]
      /\ state[ShellTask] # "zombie" /\ state[TaskC] # "zombie"
      /\ Boot' = Boot
  BY DEF IInv, TypeOK, PInv, GuardedInv, Boot
<1>1. CASE FlagShell \/ PointShell
  <2>1. /\ \/ pc[TaskA] = "flag" /\ pc' = [pc EXCEPT ![TaskA] = "point"]
           \/ pc[TaskA] = "point" /\ pc' = [pc EXCEPT ![TaskA] = AfterBoot(booted)]
        /\ UNCHANGED <<table, creation>>
    BY <1>1 DEF FlagShell, PointShell, Runs, Goto
  <2>2. AfterBoot(booted) \in {"read", "idle"}
    BY DEF AfterBoot
  <2>3. GuardedInv' /\ OrderInv'
    BY <1>0, <2>1, <2>2 DEF PInv, GuardedInv, OrderInv, table, creation
  <2>4. AloneInv'
    BY <1>0, <2>1, <2>2 DEF PInv, AloneInv, table, creation
  <2> QED BY <2>3, <2>4 DEF PInv
<1>2. CASE LaunchExplorer \/ AdoptChild
  <2>1. PICK d \in {TaskC, TaskD} :
          /\ pc[d] = "adopt"
          /\ pc' = [pc EXCEPT ![d] = "idle"] \/ pc' = [pc EXCEPT ![d] = "clear"]
          /\ tmp' = [tmp EXCEPT ![d] = 0]
          /\ UNCHANGED <<booted, next_pid, made, rank, pid>>
    BY <1>2 DEF LaunchExplorer, AdoptChild, Runs, Goto, table
  <2>2. \/ UNCHANGED state
        \/ \E p \in Procs : state' = [state EXCEPT ![p] = "ready"]
    BY <1>2 DEF LaunchExplorer, AdoptChild, Found, Linked, table
  <2>3. state'[ShellTask] # "zombie" /\ state'[TaskC] # "zombie"
    BY <1>0, <2>2
  <2>4. pc'[TaskA] = pc[TaskA] /\ tmp'[TaskA] = tmp[TaskA]
    BY <1>0, <2>1
  <2>5. ~(booted <= 1)
    BY <2>1 DEF PInv, AloneInv
  <2> QED BY <2>1, <2>3, <2>4, <2>5, PFrame
<1>3. CASE TakeExec \/ ClearPending
  <2>1. /\ pc[TaskD] \in {"idle", "clear"}
        /\ pc' = [pc EXCEPT ![TaskD] = "read"] \/ pc' = [pc EXCEPT ![TaskD] = "idle"]
        /\ UNCHANGED <<table, creation>>
    BY <1>3 DEF TakeExec, ClearPending, Runs, Goto
  <2>2. ~(booted <= 1)
    BY <2>1 DEF PInv, AloneInv
  <2>3. pc'[TaskA] = pc[TaskA]
    BY <1>0, <2>1
  <2> QED BY <1>0, <2>1, <2>2, <2>3, PFrame DEF table, creation
<1>4. CASE \/ ShellChecksFocus \/ ShellReturns \/ ShellTestsExec \/ ShellPostsExec
           \/ \E p \in Programs : SysExec(p)
  <2>1. /\ UNCHANGED <<table, creation>>
        /\ UNCHANGED pc \/ \E l \in {"command", "post", "run"} :
                               pc' = [pc EXCEPT ![ShellTask] = l]
    BY <1>4 DEF ShellChecksFocus, ShellReturns, ShellTestsExec, ShellPostsExec, SysExec, Goto
  <2>2. pc'[TaskA] = pc[TaskA] /\ pc'[TaskC] = pc[TaskC] /\ pc'[TaskD] = pc[TaskD]
    BY <1>0, <2>1
  <2> QED BY <1>0, <2>1, <2>2, PFrame DEF table, creation
<1>5. ASSUME NEW p \in Programs, NEW x \in Nat, KillOther(p, x)
      PROVE  PInv'
  <2>1. PICK t \in Procs : /\ pid[t] = x /\ ~(x <= 3)
                           /\ state' = [state EXCEPT ![t] = "zombie"]
                           /\ UNCHANGED <<pid, rank, creation>>
                           /\ pc' = [pc EXCEPT ![p] = "run"]
    BY <1>5 DEF KillOther, Found, Linked, Protected, Goto
  <2>2. t # ShellTask /\ t # TaskC
    BY <2>1 DEF PInv, GuardedInv
  <2>3. pc'[TaskA] = pc[TaskA] /\ pc'[TaskC] = pc[TaskC] /\ pc'[TaskD] = pc[TaskD]
    BY <1>0, <2>1
  <2> QED BY <1>0, <2>1, <2>2, <2>3, PFrame DEF creation
<1>6. CASE Reap
  <2>1. /\ \A p \in Procs : state'[p] = IF p \in Reaped THEN "free" ELSE state[p]
        /\ \A p \in Procs : rank'[p] = IF p \in Reaped THEN 0 ELSE rank[p]
        /\ \A p \in Procs : pid'[p] = IF p \in Reaped THEN 0 ELSE pid[p]
        /\ \A p \in Procs : pc'[p] = IF p \in Reaped THEN "off" ELSE pc[p]
        /\ UNCHANGED creation
    BY <1>6 DEF Reap
  <2>2. TaskA \notin Reaped /\ ShellTask \notin Reaped /\ TaskC \notin Reaped
    BY <1>0 DEF Reaped, IInv, CpuInv
  <2>3. GuardedInv' /\ OrderInv'
    BY <1>0, <2>1, <2>2 DEF PInv, GuardedInv, OrderInv, creation
  <2>4. AloneInv'
    BY <2>1, <2>2 DEF PInv, AloneInv, creation
  <2> QED BY <2>3, <2>4 DEF PInv
<1> QED BY <1>1, <1>2, <1>3, <1>4, <1>5, <1>6

LEMMA PStep == IInv /\ PInv /\ [Next]_vars => PInv'
<1> SUFFICES ASSUME IInv, PInv, [Next]_vars PROVE PInv'
  OBVIOUS
<1>0. \A x \in KillPids \cup {10} \cup SleepMs : x \in Nat
  BY NumbersAssumption
<1>1. CASE UNCHANGED vars
  BY <1>1, PFrame DEF vars, table, creation, PInv, GuardedInv
<1>2. CASE TimerInterrupt
  BY <1>2, PSwitch
<1>3. ASSUME NEW c \in Creators, Create(c) PROVE PInv'
  BY <1>3, PCreate
<1>4. ASSUME NEW p \in Programs, Syscall(p) PROVE PInv'
  <2>1. CASE \/ \E ms \in Nat : SysSleep(p, ms)
             \/ SysExit(p)
             \/ \E x \in Nat : KillSelf(p, x)
    BY <2>1, PSwitch
  <2>2. CASE SysExec(p) \/ \E x \in Nat : KillOther(p, x)
    BY <2>2, POther
  <2> QED BY <1>0, <1>4, <2>1, <2>2 DEF Syscall
<1> QED BY <1>1, <1>2, <1>3, <1>4, POther DEF Next

\* Nobody can kill kernel_main, the shell or the launcher, in whatever order
\* processes are created, killed and reaped.
THEOREM ProtectedStayAlive == Spec => []ProtectedAlive
<1>1. Init => PInv
  BY PInit
<1>2. IInv /\ PInv /\ [Next]_vars => PInv'
  BY PStep
<1>3. IInv /\ PInv => ProtectedAlive
  <2> SUFFICES ASSUME IInv, PInv, NEW p \in {TaskA, ShellTask, TaskC}, p \in Linked
               PROVE  state[p] \in {"ready", "running", "sleeping"}
    BY DEF ProtectedAlive
  <2>1. p \in Procs /\ rank[p] > 0 /\ state[p] \in States
    BY Distinct, Tasks5 DEF Linked, IInv, TypeOK
  <2>2. state[p] # "free"
    BY <2>1 DEF IInv, ListInv
  <2>3. state[p] # "zombie"
    BY DEF IInv, CpuInv, PInv, GuardedInv
  <2> QED BY <2>1, <2>2, <2>3 DEF States
<1> QED BY <1>1, <1>2, <1>3, Invariance, PTL DEF Spec

-----------------------------------------------------------------------------
(* The keyboard.  The live processes whose flag is set are at most the one foreground_process *)
(* names: one store of kernel_main, between the flag of the shell and the pointer, is the     *)
(* only exception, and nobody else can move the focus then.  That the two copies agree        *)
(* takes unique pids, and that task_d does not adopt the process that already has the         *)
(* keyboard: its child is not the launcher's, and no parent is a child of task_d's.           *)

\* A creator holds the pid of a child it is about to give the keyboard to.
Adopting(c) == pc[c] = "adopt" /\ tmp[c] \notin {0, -1}

\* Until kernel_main has handed over the keyboard only it and the shell are in the list.
StartInv ==
  /\ booted <= 1 => \A p \in Procs : rank[p] > 0 => p \in {TaskA, ShellTask}
  /\ booted <= 1 /\ pc[TaskA] \in {"number", "insert", "flag", "point"} => tmp[TaskA] > 1
  /\ pc[TaskA] \in {"flag", "point"} =>
       booted = 1 /\ rank[ShellTask] > 0 /\ pid[ShellTask] = tmp[TaskA]
  /\ booted = 0 \/ pc[TaskA] = "flag" => foreground = NoProc /\ \A p \in Procs : ~focused[p]
  /\ pc[TaskA] = "point" =>
       /\ foreground = NoProc /\ focused[ShellTask]
       /\ \A p \in Procs : focused[p] => p = ShellTask

\* At most foreground_process is alive and flagged, and what is about to enter the list is not.
OwnerInv ==
  /\ pc[TaskA] # "point" =>
       \A p \in Procs : focused[p] /\ rank[p] > 0 /\ state[p] # "zombie" => p = foreground
  /\ \A c \in Creators : pc[c] = "insert" => ~focused[made[c]]

\* Children are programs and carry the pid their creator holds; parents are creators.
KinInv ==
  /\ state[TaskB] = "free"
  /\ \A c \in Creators : pc[c] = "insert" => pid[made[c]] = tmp[c]
  /\ \A c \in {TaskC, TaskD} : pc[c] = "insert" => made[c] \in Apps
  /\ \A c \in {TaskC, TaskD} : Adopting(c) => \E n \in Apps : rank[n] > 0 /\ pid[n] = tmp[c]
  /\ \A t \in Procs \ {TaskA} : state[t] # "free" =>
       \E c \in Creators : rank[c] > 0 /\ parent[t] = pid[c]

\* The two copies of the focus, as long as pids are unique.
AgreeInv ==
  UniquePid =>
    /\ foreground # NoProc => rank[foreground] > 0 /\ focused[foreground]
    /\ Adopting(TaskD) /\ foreground # NoProc => pid[foreground] # tmp[TaskD]
    /\ Adopting(TaskD) /\ Adopting(TaskC) => tmp[TaskC] # tmp[TaskD]

FInv == StartInv /\ OwnerInv /\ KinInv /\ AgreeInv

\* A step after which nobody has been created, adopted, revived or freed.
Calm ==
  /\ UNCHANGED <<pid, parent, rank, creation>>
  /\ \A p \in Procs : /\ state[p] = "zombie" => state'[p] = "zombie"
                      /\ state'[p] = "free" <=> state[p] = "free"
  /\ pc'[TaskA] = pc[TaskA]
  /\ \A c \in {TaskC, TaskD} : pc'[c] \in {"insert", "adopt"} => pc'[c] = pc[c]

-----------------------------------------------------------------------------

LEMMA FInit == Init => FInv
<1> SUFFICES ASSUME Init PROVE FInv
  OBVIOUS
<1> USE Distinct, Tasks5
<1>1. StartInv
  BY DEF Init, StartInv
<1>2. OwnerInv
  BY DEF Init, OwnerInv
<1>3. KinInv
  BY DEF Init, KinInv, Adopting, Creators
<1>4. AgreeInv
  BY DEF Init, AgreeInv, Adopting
<1> QED BY <1>1, <1>2, <1>3, <1>4 DEF FInv

\* Pids that are unique afterwards were unique before: nothing leaves the list, and what is
\* in it keeps its pid.
LEMMA UniqueBefore ==
  ASSUME \A p \in Procs : rank[p] > 0 => rank'[p] > 0 /\ pid'[p] = pid[p],
         UniquePid'
  PROVE  UniquePid
BY DEF UniquePid, Linked

\* A calm step leaves who is related to whom.
LEMMA CalmKin ==
  ASSUME IInv, FInv, Calm
  PROVE  /\ KinInv'
         /\ \A c \in {TaskC, TaskD} : Adopting(c)' => Adopting(c)
         /\ UniquePid' = UniquePid
<1> USE Distinct, Tasks5
<1>1. \A c \in Creators : pc'[c] = "insert" => pc[c] = "insert"
  BY DEF Calm, Creators
<1>2. \A c \in {TaskC, TaskD} : Adopting(c)' => Adopting(c)
  BY DEF Calm, Adopting, creation
<1>3. /\ state'[TaskB] = "free"
      /\ \A c \in Creators : pc'[c] = "insert" => pid'[made'[c]] = tmp'[c]
      /\ \A c \in {TaskC, TaskD} : pc'[c] = "insert" => made'[c] \in Apps
  BY <1>1 DEF FInv, KinInv, Calm, creation, Creators
<1>4. \A c \in {TaskC, TaskD} : Adopting(c)' => \E n \in Apps : rank'[n] > 0 /\ pid'[n] = tmp'[c]
  BY <1>2 DEF FInv, KinInv, Calm, creation
<1>5. \A t \in Procs \ {TaskA} : state'[t] # "free" =>
        \E c \in Creators : rank'[c] > 0 /\ parent'[t] = pid'[c]
  BY DEF FInv, KinInv, Calm
<1>6. KinInv'
  BY <1>3, <1>4, <1>5 DEF KinInv
<1>7. UniquePid' = UniquePid
  BY DEF Calm, UniquePid, Linked
<1> QED BY <1>2, <1>6, <1>7

\* A calm step that does not touch the focus.
LEMMA CalmFocus ==
  ASSUME IInv, FInv, Calm, UNCHANGED focus
  PROVE  FInv'
<1> USE Distinct, Tasks5
<1>1. StartInv'
  BY DEF FInv, StartInv, Calm, focus, creation
<1>2. OwnerInv'
  BY DEF FInv, OwnerInv, Calm, focus, creation, Creators
<1>3. AgreeInv'
  BY CalmKin DEF FInv, AgreeInv, Calm, focus, creation
<1> QED BY <1>1, <1>2, <1>3, CalmKin DEF FInv

LEMMA BootedNat == TypeOK => booted \in Nat
<1>1. Len(Boot) \in Nat
  BY DEF Boot
<1> QED BY <1>1 DEF TypeOK

\* Once a creator other than kernel_main runs, the boot has handed over the keyboard.
LEMMA Later ==
  ASSUME IInv, PInv, FInv,
         \/ \E c \in {TaskC, TaskD} : current = c /\ pc[c] \in {"number", "insert", "adopt"}
         \/ \E t \in Procs : rank[t] > 0 /\ pid[t] > 3
  PROVE  /\ booted > 1
         /\ pc[TaskA] \notin {"flag", "point"}
<1>1. booted \in Nat /\ pid \in [Procs -> Nat] /\ rank \in [Procs -> Nat]
  BY BootedNat DEF IInv, TypeOK
<1>2. ~(booted <= 1)
  <2>1. booted <= 1 => /\ pc[TaskC] \in {"off", "read"} /\ pc[TaskD] = "off"
                       /\ \A t \in Procs : rank[t] > 0 => t \in {TaskA, ShellTask}
    BY DEF PInv, AloneInv, FInv, StartInv
  <2>2. pid[TaskA] = 1 /\ pid[ShellTask] <= 3
    BY DEF IInv, CpuInv, PInv, GuardedInv
  <2> QED BY <1>1, <2>1, <2>2
<1> QED BY <1>1, <1>2 DEF FInv, StartInv

\* A killed process that had the keyboard leaves it to its parent.
LEMMA KillFocus ==
  ASSUME IInv, PInv, FInv, Calm,
         NEW t \in Procs, rank[t] > 0, pid[t] > 3,
         state[t] # "zombie", state'[t] = "zombie", FocusParent(t)
  PROVE  FInv'
<1> USE Distinct, Tasks5
<1>0. /\ focused \in [Procs -> BOOLEAN] /\ pid \in [Procs -> Nat] /\ rank \in [Procs -> Nat]
      /\ booted \in Nat
  BY BootedNat DEF IInv, TypeOK
<1>1. booted > 1 /\ pc[TaskA] \notin {"flag", "point"}
  BY Later
<1>2. CASE UNCHANGED focus
  BY <1>2, CalmFocus
<1>3. ASSUME focused[t], NEW q \in Found(parent[t]),
             focused' = [focused EXCEPT ![q] = TRUE], foreground' = q
      PROVE  FInv'
  <2>1. q \in Procs /\ rank[q] > 0 /\ pid[q] = parent[t]
    BY <1>3 DEF Found, Linked
  <2>2. StartInv'
    BY <1>0, <1>1 DEF FInv, StartInv, Calm, creation
  <2>3. t = foreground
    BY <1>1, <1>3 DEF FInv, OwnerInv
  <2>4. OwnerInv'
    <3>1. ASSUME NEW p \in Procs, focused'[p], rank'[p] > 0, state'[p] # "zombie"
          PROVE  p = foreground'
      BY <1>0, <1>1, <1>3, <2>3, <3>1 DEF FInv, OwnerInv, Calm
    <3>2. ASSUME NEW c \in Creators, pc'[c] = "insert"
          PROVE  ~focused'[made'[c]]
      <4>1. pc[c] = "insert" /\ made'[c] = made[c]
        BY <3>2 DEF Calm, Creators, creation
      <4>2. made[c] \in Procs /\ rank[made[c]] = 0
        BY <4>1 DEF IInv, MadeInv
      <4> QED BY <1>0, <1>3, <2>1, <4>1, <4>2 DEF FInv, OwnerInv
    <3> QED BY <3>1, <3>2 DEF OwnerInv
  <2>5. AgreeInv'
    <3> SUFFICES ASSUME UniquePid
                 PROVE  /\ rank'[q] > 0 /\ focused'[q]
                        /\ Adopting(TaskD)' => pid'[q] # tmp'[TaskD]
                        /\ Adopting(TaskD)' /\ Adopting(TaskC)' => tmp'[TaskC] # tmp'[TaskD]
      BY <1>3, CalmKin DEF AgreeInv
    <3>1. rank'[q] > 0 /\ focused'[q]
      BY <1>0, <1>3, <2>1 DEF Calm
    <3>2. ASSUME Adopting(TaskD) PROVE pid[q] # tmp[TaskD]
      <4>1. PICK n \in Apps : rank[n] > 0 /\ pid[n] = tmp[TaskD]
        BY <3>2 DEF FInv, KinInv
      <4>2. t # TaskA /\ state[t] # "free"
        BY DEF IInv, CpuInv, ListInv
      <4>3. PICK c \in Creators : rank[c] > 0 /\ parent[t] = pid[c]
        BY <4>2 DEF FInv, KinInv
      <4>4. c # n
        BY DEF Creators
      <4> QED BY <2>1, <4>1, <4>3, <4>4 DEF UniquePid, Linked
    <3>3. Adopting(TaskD) /\ Adopting(TaskC) => tmp[TaskC] # tmp[TaskD]
      BY DEF FInv, AgreeInv
    <3> QED BY <3>1, <3>2, <3>3, CalmKin DEF Calm, creation
  <2> QED BY <2>2, <2>4, <2>5, CalmKin DEF FInv
<1> QED BY <1>2, <1>3 DEF FocusParent

\* An interrupt leaves everybody's relations alone.
LEMMA HandlerCalm ==
  ASSUME IInv,
         NEW STATE st, st \in [Procs -> States],
         NEW STATE lf, lf \in [Procs -> Nat],
         \A p \in Procs : p # current => st[p] = state[p],
         st[current] # "free", st[TaskA] \in {"ready", "running"},
         TimerHandler(st, lf), UNCHANGED creation,
         \/ UNCHANGED pc
         \/ \E p \in Programs, l \in {"run", "dead"} : pc' = [pc EXCEPT ![p] = l]
  PROVE  Calm
<1> USE Distinct
<1>0. pc \in [Procs -> Labels] /\ current \in Procs /\ state[current] \in {"ready", "running"}
  BY DEF IInv, TypeOK, CpuInv
<1>1. UNCHANGED <<pid, parent, rank>>
  BY Handler DEF IInv
<1>2. ASSUME NEW p \in Procs
      PROVE  /\ state[p] = "zombie" => state'[p] = "zombie"
             /\ state'[p] = "free" <=> state[p] = "free"
  <2>1. /\ state'[p] = "zombie" <=> st[p] = "zombie"
        /\ state'[p] = "free" => st[p] = "free"
        /\ rank[p] = 0 => state'[p] = st[p]
    BY Handler DEF IInv
  <2>2. CASE p = current
    BY <1>0, <2>1, <2>2
  <2>3. CASE p # current
    BY <2>1, <2>3 DEF IInv, ListInv
  <2> QED BY <2>2, <2>3
<1>3. /\ pc'[TaskA] = pc[TaskA]
      /\ \A c \in {TaskC, TaskD} : pc'[c] \in {"insert", "adopt"} => pc'[c] = pc[c]
  BY <1>0
<1> QED BY <1>1, <1>2, <1>3 DEF Calm

\* Interrupts, and the death of programs.
LEMMA FSwitch ==
  ASSUME IInv, PInv, FInv,
         \/ TimerInterrupt
         \/ \E p \in Programs : \/ \E ms \in Nat : SysSleep(p, ms)
                                \/ SysExit(p)
                                \/ \E x \in Nat : KillSelf(p, x)
  PROVE  FInv'
<1> USE Distinct, Tasks5
<1>0. /\ state \in [Procs -> States] /\ left \in [Procs -> Nat] /\ current \in Procs
      /\ state[current] \in {"ready", "running"} /\ state[TaskA] \in {"ready", "running"}
      /\ rank[current] > 0 /\ pid \in [Procs -> Nat]
  BY DEF IInv, TypeOK, CpuInv
<1>1. CASE TimerInterrupt
  BY <1>0, <1>1, HandlerCalm, CalmFocus DEF TimerInterrupt
<1>2. ASSUME NEW p \in Programs, NEW ms \in Nat, SysSleep(p, ms)
      PROVE  FInv'
  <2> DEFINE st == [state EXCEPT ![p] = "sleeping"]
             lf == [left EXCEPT ![p] = SleepTicks(ms)]
  <2>1. SleepTicks(ms) \in Nat
    BY DEF SleepTicks
  <2>2. /\ TimerHandler(st, lf) /\ UNCHANGED <<creation, focus>>
        /\ pc' = [pc EXCEPT ![p] = "run"]
        /\ st \in [Procs -> States] /\ lf \in [Procs -> Nat]
        /\ \A q \in Procs : q # current => st[q] = state[q]
        /\ st[current] # "free" /\ st[TaskA] \in {"ready", "running"}
    BY <1>0, <1>2, <2>1 DEF SysSleep, Calls, Runs, Goto
  <2> HIDE DEF st, lf
  <2>3. Calm
    BY <2>2, HandlerCalm
  <2> QED BY <2>2, <2>3, CalmFocus
<1>4. ASSUME NEW p \in Programs, SysExit(p) \/ \E x \in Nat : KillSelf(p, x)
      PROVE  FInv'
  <2> DEFINE st == [state EXCEPT ![p] = "zombie"]
  <2>1. /\ TimerHandler(st, left) /\ UNCHANGED creation /\ p = current
        /\ pc' = [pc EXCEPT ![p] = "dead"]
        /\ st \in [Procs -> States]
        /\ \A q \in Procs : q # current => st[q] = state[q]
        /\ st[current] # "free" /\ st[TaskA] \in {"ready", "running"}
        /\ st[p] = "zombie"
    BY <1>0, <1>4 DEF SysExit, KillSelf, Calls, Runs, Goto
  <2> HIDE DEF st
  <2>2. Calm
    BY <1>0, <2>1, HandlerCalm
  <2>3. CASE SysExit(p)
    BY <2>2, <2>3, CalmFocus DEF SysExit
  <2>4. ASSUME NEW x \in Nat, KillSelf(p, x) PROVE FInv'
    <3>1. state'[p] = "zombie"
      BY <1>0, <2>1, Handler DEF IInv
    <3>2. pid[p] > 3 /\ FocusParent(p)
      BY <1>0, <2>4 DEF KillSelf, Found, Protected
    <3> QED BY <1>0, <2>1, <2>2, <3>1, <3>2, KillFocus
  <2> QED BY <1>4, <2>3, <2>4
<1> QED BY <1>1, <1>2, <1>4

\* The keyboard changes hands between kernel_main, the launcher, task_d and the shell.
LEMMA FHands ==
  ASSUME IInv, PInv, FInv,
         FlagShell \/ PointShell \/ LaunchExplorer \/ AdoptChild
  PROVE  FInv'
<1> USE Distinct, Tasks5
<1>0. /\ focused \in [Procs -> BOOLEAN] /\ pid \in [Procs -> Nat] /\ rank \in [Procs -> Nat]
      /\ state \in [Procs -> States] /\ pc \in [Procs -> Labels] /\ tmp \in [Procs -> Int]
      /\ foreground \in Procs \cup {NoProc}
  BY DEF IInv, TypeOK
<1>a. booted \in Nat
  BY BootedNat DEF IInv
<1>b. \A c \in Creators : pc[c] = "insert" => made[c] \in Procs /\ rank[made[c]] = 0
  BY DEF IInv, MadeInv
<1>1. CASE FlagShell
  <2>1. /\ pc[TaskA] = "flag" /\ pc' = [pc EXCEPT ![TaskA] = "point"]
        /\ UNCHANGED <<table, foreground, creation>>
    BY <1>1 DEF FlagShell, Runs, Goto
  <2>2. PICK p \in Found(tmp[TaskA]) : focused' = [focused EXCEPT ![p] = TRUE]
    BY <1>1 DEF FlagShell
  <2>3. p = ShellTask
    <3>1. p \in Procs /\ rank[p] > 0 /\ pid[p] = tmp[TaskA]
      BY <2>2 DEF Found, Linked
    <3>2. p \in {TaskA, ShellTask} /\ tmp[TaskA] > 1
      BY <2>1, <3>1 DEF FInv, StartInv
    <3> QED BY <3>1, <3>2 DEF IInv, CpuInv
  <2>4. StartInv'
    BY <1>0, <1>a, <2>1, <2>2, <2>3 DEF FInv, StartInv, table, creation
  <2>5. OwnerInv'
    <3>1. \A c \in Creators : pc'[c] = "insert" => pc[c] = "insert"
      BY <1>0, <2>1 DEF Creators
    <3>2. ShellTask \in Procs /\ rank[ShellTask] > 0
      BY <2>1 DEF FInv, StartInv
    <3>3. ASSUME NEW c \in Creators, pc'[c] = "insert" PROVE ~focused'[made'[c]]
      BY <1>0, <1>b, <2>1, <2>2, <2>3, <3>1, <3>2, <3>3 DEF FInv, OwnerInv, creation
    <3>4. pc'[TaskA] = "point"
      BY <1>0, <2>1
    <3> QED BY <3>3, <3>4 DEF OwnerInv
  <2>6. KinInv' /\ AgreeInv'
    BY <1>0, <2>1 DEF FInv, StartInv, KinInv, AgreeInv, Adopting, UniquePid, Linked, Creators,
                      table, creation
  <2> QED BY <2>4, <2>5, <2>6 DEF FInv
<1>2. CASE PointShell
  <2>0. AfterBoot(booted) \in {"read", "idle"}
    BY DEF AfterBoot
  <2>1. /\ pc[TaskA] = "point" /\ pc' = [pc EXCEPT ![TaskA] = AfterBoot(booted)]
        /\ UNCHANGED <<table, focused, creation>>
    BY <1>2 DEF PointShell, Runs, Goto
  <2>2. PICK p \in Found(tmp[TaskA]) : foreground' = p
    BY <1>2 DEF PointShell
  <2>3. p = ShellTask
    <3>1. p \in Procs /\ rank[p] > 0 /\ pid[p] = tmp[TaskA]
      BY <2>2 DEF Found, Linked
    <3>2. p \in {TaskA, ShellTask} /\ tmp[TaskA] > 1
      BY <2>1, <3>1 DEF FInv, StartInv
    <3> QED BY <3>1, <3>2 DEF IInv, CpuInv
  <2>4. booted = 1 /\ pc'[TaskA] \in {"read", "idle"}
    BY <1>0, <2>0, <2>1 DEF FInv, StartInv
  <2>5. StartInv'
    BY <2>1, <2>4 DEF FInv, StartInv, table, creation
  <2>6. OwnerInv'
    <3>1. \A c \in Creators : pc'[c] = "insert" => pc[c] = "insert"
      BY <1>0, <2>0, <2>1 DEF Creators
    <3> QED BY <2>1, <2>2, <2>3, <3>1 DEF FInv, StartInv, OwnerInv, table, creation
  <2>7. /\ pc[TaskC] # "adopt" /\ pc[TaskD] # "adopt"
        /\ pc'[TaskC] = pc[TaskC] /\ pc'[TaskD] = pc[TaskD]
    BY <1>0, <2>1, <2>4 DEF PInv, AloneInv
  <2>8. KinInv'
    BY <1>0, <2>1, <2>4, <2>7 DEF FInv, KinInv, Adopting, Creators, table, creation
  <2>9. AgreeInv'
    BY <2>1, <2>2, <2>3, <2>7 DEF FInv, StartInv, AgreeInv, Adopting, table
  <2> QED BY <2>5, <2>6, <2>8, <2>9 DEF FInv
<1>3. CASE LaunchExplorer
  <2>1. /\ current = TaskC /\ pc[TaskC] = "adopt" /\ pc' = [pc EXCEPT ![TaskC] = "idle"]
        /\ tmp' = [tmp EXCEPT ![TaskC] = 0]
        /\ UNCHANGED <<table, booted, made>>
    BY <1>3 DEF LaunchExplorer, Runs, Goto
  <2>2. booted > 1 /\ pc[TaskA] \notin {"flag", "point"}
    BY <2>1, Later
  <2>3. /\ pc'[TaskA] = pc[TaskA]
        /\ \A c \in Creators : pc'[c] = "insert" => pc[c] = "insert" /\ tmp'[c] = tmp[c]
        /\ Adopting(TaskD)' = Adopting(TaskD) /\ ~Adopting(TaskC)' /\ tmp'[TaskD] = tmp[TaskD]
    BY <1>0, <2>1 DEF Creators, Adopting
  <2>4. StartInv'
    BY <1>a, <2>1, <2>2, <2>3 DEF StartInv
  <2>5. KinInv'
    BY <2>1, <2>3 DEF FInv, KinInv, table, Creators
  <2>6. CASE UNCHANGED focus
    <3>1. OwnerInv'
      BY <2>1, <2>3, <2>6 DEF FInv, OwnerInv, focus, table
    <3>2. AgreeInv'
      BY <2>1, <2>3, <2>6 DEF FInv, AgreeInv, UniquePid, Linked, focus, table
    <3> QED BY <2>4, <2>5, <3>1, <3>2 DEF FInv
  <2>7. ASSUME NEW p \in Found(tmp[TaskC]), tmp[TaskC] # -1, FocusExplorer(p)
        PROVE  FInv'
    <3>1. p \in Procs /\ rank[p] > 0 /\ pid[p] = tmp[TaskC]
      BY <2>7 DEF Found, Linked
    <3>2. /\ foreground' = p
          /\ \A q \in Procs : focused'[q] <=> q = p \/ (q # foreground /\ focused[q])
      BY <1>0, <2>7 DEF FocusExplorer
    <3>3. OwnerInv'
      <4>1. ASSUME NEW q \in Procs, focused'[q], rank[q] > 0, state[q] # "zombie" PROVE q = p
        BY <2>2, <3>2, <4>1 DEF FInv, OwnerInv
      <4>2. ASSUME NEW c \in Creators, pc[c] = "insert" PROVE ~focused'[made[c]]
        BY <1>b, <3>1, <3>2, <4>2 DEF FInv, OwnerInv
      <4> QED BY <2>1, <2>3, <3>2, <4>1, <4>2 DEF OwnerInv, table
    <3>4. AgreeInv'
      <4> SUFFICES ASSUME UniquePid, Adopting(TaskD) PROVE pid[p] # tmp[TaskD]
        BY <2>1, <2>3, <3>1, <3>2 DEF AgreeInv, UniquePid, Linked, table
      <4>1. CASE tmp[TaskC] = 0
        BY <3>1, <4>1 DEF Adopting
      <4>2. CASE tmp[TaskC] # 0
        <5>1. Adopting(TaskC)
          BY <2>1, <2>7, <4>2 DEF Adopting
        <5> QED BY <3>1, <5>1 DEF FInv, AgreeInv
      <4> QED BY <4>1, <4>2
    <3> QED BY <2>4, <2>5, <3>3, <3>4 DEF FInv
  <2> QED BY <1>3, <2>6, <2>7 DEF LaunchExplorer
<1>4. CASE AdoptChild
  <2>1. /\ current = TaskD /\ pc[TaskD] = "adopt" /\ pc' = [pc EXCEPT ![TaskD] = "clear"]
        /\ tmp' = [tmp EXCEPT ![TaskD] = 0]
        /\ UNCHANGED <<pid, parent, rank, booted, made>>
    BY <1>4 DEF AdoptChild, Runs, Goto
  <2>2. booted > 1 /\ pc[TaskA] \notin {"flag", "point"}
    BY <2>1, Later
  <2>3. /\ pc'[TaskA] = pc[TaskA]
        /\ \A c \in Creators : pc'[c] = "insert" => pc[c] = "insert" /\ tmp'[c] = tmp[c]
        /\ Adopting(TaskC)' = Adopting(TaskC) /\ ~Adopting(TaskD)' /\ tmp'[TaskC] = tmp[TaskC]
    BY <1>0, <2>1 DEF Creators, Adopting
  <2>4. StartInv'
    BY <1>a, <2>1, <2>2, <2>3 DEF StartInv
  <2>5. ASSUME \A q \in Procs : state'[q] = "free" <=> state[q] = "free"
        PROVE  KinInv'
    BY <2>1, <2>3, <2>5 DEF FInv, KinInv, Creators
  <2>6. CASE UNCHANGED <<focus, state>>
    <3>1. OwnerInv'
      BY <2>1, <2>3, <2>6 DEF FInv, OwnerInv, focus
    <3>2. AgreeInv'
      BY <2>1, <2>3, <2>6 DEF FInv, AgreeInv, UniquePid, Linked, focus
    <3> QED BY <2>4, <2>5, <2>6, <3>1, <3>2 DEF FInv
  <2>7. ASSUME NEW p \in Found(tmp[TaskD]), tmp[TaskD] \notin {0, -1}, FocusChild(p),
               state' = [state EXCEPT ![p] = "ready"]
        PROVE  FInv'
    <3>1. p \in Procs /\ rank[p] > 0 /\ pid[p] = tmp[TaskD]
      BY <2>7 DEF Found, Linked
    <3>2. /\ foreground' = p
          /\ \A q \in Procs : focused'[q] <=> q # foreground /\ (q = p \/ focused[q])
      BY <1>0, <2>7 DEF FocusChild
    <3>3. OwnerInv'
      <4>1. ASSUME NEW q \in Procs, focused'[q], rank[q] > 0, state'[q] # "zombie" PROVE q = p
        <5> SUFFICES ASSUME q # p PROVE FALSE
          OBVIOUS
        <5>1. focused[q] /\ q # foreground /\ state[q] # "zombie"
          BY <1>0, <2>7, <3>2, <4>1
        <5> QED BY <2>2, <4>1, <5>1 DEF FInv, OwnerInv
      <4>2. ASSUME NEW c \in Creators, pc[c] = "insert" PROVE ~focused'[made[c]]
        BY <1>b, <3>1, <3>2, <4>2 DEF FInv, OwnerInv
      <4> QED BY <2>1, <2>3, <3>2, <4>1, <4>2 DEF OwnerInv
    <3>4. AgreeInv'
      <4> SUFFICES ASSUME UniquePid PROVE p # foreground
        BY <2>1, <2>3, <3>1, <3>2 DEF AgreeInv, UniquePid, Linked
      <4>1. Adopting(TaskD)
        BY <2>1, <2>7 DEF Adopting
      <4> QED BY <3>1, <4>1 DEF FInv, AgreeInv
    <3>5. \A q \in Procs : state'[q] = "free" <=> state[q] = "free"
      <4>1. state[p] # "free"
        BY <3>1 DEF IInv, ListInv
      <4> QED BY <1>0, <2>7, <4>1
    <3> QED BY <2>4, <2>5, <3>3, <3>4, <3>5 DEF FInv
  <2> QED BY <1>4, <2>6, <2>7 DEF AdoptChild
<1> QED BY <1>1, <1>2, <1>3, <1>4

\* create_process: the new process enters the list without the keyboard, carrying a pid that
\* either nobody in the list has or that is no longer unique.
LEMMA FCreate ==
  ASSUME ~Reaper, IInv, PInv, FInv, NEW c \in Creators, Create(c)
  PROVE  FInv'
<1> USE Distinct, Tasks5
<1>0. /\ focused \in [Procs -> BOOLEAN] /\ pid \in [Procs -> Nat] /\ rank \in [Procs -> Nat]
      /\ parent \in [Procs -> Nat]
      /\ state \in [Procs -> States] /\ pc \in [Procs -> Labels] /\ tmp \in [Procs -> Int]
      /\ made \in [Procs -> Procs \cup {NoProc}]
      /\ foreground \in Procs \cup {NoProc} /\ links \in Nat /\ c \in Procs
      /\ rank[current] > 0
  BY DEF IInv, TypeOK, CpuInv
<1>a. booted \in Nat
  BY BootedNat DEF IInv
<1>b. \A d \in Creators : pc[d] = "insert" =>
        /\ made[d] \in Procs /\ rank[made[d]] = 0 /\ state[made[d]] = "ready"
        /\ \A e \in Creators : pc[e] = "insert" /\ made[e] = made[d] => e = d
  BY DEF IInv, MadeInv
<1>c. c # TaskA /\ current = c /\ pc[c] \in {"read", "number", "insert", "adopt"} => ~(booted <= 1)
  <2>1. booted <= 1 => rank[TaskC] = 0 /\ pc[TaskD] = "off"
    BY DEF PInv, AloneInv
  <2> QED BY <1>0, <2>1 DEF Creators
<1>1. CASE ReadNextPid(c)
  <2>1. /\ current = c /\ pc[c] = "read" /\ pc' = [pc EXCEPT ![c] = "number"]
        /\ tmp' = [tmp EXCEPT ![c] = next_pid]
        /\ UNCHANGED <<table, focus, booted, made>>
    BY <1>1 DEF ReadNextPid, Runs, Goto
  <2>2. /\ \A d \in Creators : pc'[d] = "insert" => pc[d] = "insert" /\ tmp'[d] = tmp[d]
        /\ \A d \in {TaskC, TaskD} : Adopting(d)' => Adopting(d) /\ tmp'[d] = tmp[d]
    BY <1>0, <2>1 DEF Creators, Adopting
  <2>3. StartInv'
    <3>1. c = TaskA /\ booted <= 1 => next_pid > 1
      BY <1>a, <2>1 DEF PInv, AloneInv
    <3>2. c # TaskA => booted > 1
      BY <1>a, <1>c, <2>1
    <3> QED BY <1>0, <1>a, <2>1, <3>1, <3>2 DEF FInv, StartInv, table, focus
  <2>4. OwnerInv'
    <3>1. pc'[TaskA] # "point" => pc[TaskA] # "point"
      BY <1>0, <2>1
    <3> QED BY <2>1, <2>2, <3>1 DEF FInv, OwnerInv, table, focus
  <2>5. KinInv' /\ AgreeInv'
    BY <2>1, <2>2 DEF FInv, KinInv, AgreeInv, UniquePid, Linked, table, focus
  <2> QED BY <2>3, <2>4, <2>5 DEF FInv
<1>2. ASSUME NEW n \in Procs, NumberProcess(c, n)
      PROVE  FInv'
  <2>1. /\ current = c /\ pc[c] = "number" /\ state[n] = "free"
        /\ pid' = [pid EXCEPT ![n] = tmp[c]]
        /\ parent' = [parent EXCEPT ![n] = pid[c]]
        /\ state' = [state EXCEPT ![n] = "ready"]
        /\ focused' = [focused EXCEPT ![n] = FALSE]
        /\ made' = [made EXCEPT ![c] = n]
        /\ pc' = [pc EXCEPT ![c] = "insert", ![n] = Entry(n)]
        /\ UNCHANGED <<rank, foreground, booted, tmp>>
        /\ IF c = TaskA THEN n = Boot[booted + 1] ELSE n \in Apps
    BY <1>2 DEF NumberProcess, Runs
  <2>2. rank[n] = 0 /\ n # c /\ n # TaskA /\ rank[c] > 0
    BY <1>0, <2>1 DEF IInv, ListInv, CpuInv
  <2>3. n # TaskB
    <3>1. CASE c = TaskA
      <4>1. booted < Len(Boot) /\ Len(Boot) = 3
        BY <2>1, <3>1 DEF IInv, BootInv, Boot
      <4>2. booted = 0 \/ booted = 1 \/ booted = 2
        BY <1>a, <4>1
      <4>3. n \in {ShellTask, TaskC, TaskD}
        BY <2>1, <3>1, <4>2, BootFacts
      <4> QED BY <4>3
    <3>2. CASE c # TaskA
      BY <2>1, <3>2, ProcsAssumption DEF Tasks
    <3> QED BY <3>1, <3>2
  <2>4. Entry(n) \in {"read", "idle", "reap", "run"}
    BY DEF Entry
  <2>5. /\ pc'[c] = "insert"
        /\ pc'[n] \in {"read", "idle", "reap", "run"}
        /\ \A d \in Procs : d # c /\ d # n => pc'[d] = pc[d]
    BY <1>0, <2>1, <2>2, <2>4
  <2>6. \A d \in Creators : pc'[d] = "insert" /\ d # c =>
          pc[d] = "insert" /\ made'[d] = made[d] /\ made[d] # n
    <3> SUFFICES ASSUME NEW d \in Creators, pc'[d] = "insert", d # c
                 PROVE  pc[d] = "insert" /\ made'[d] = made[d] /\ made[d] # n
      OBVIOUS
    <3>1. d # n /\ d \in Procs
      BY <2>5
    <3>2. pc[d] = "insert"
      BY <2>5, <3>1
    <3> QED BY <1>0, <1>b, <2>1, <3>1, <3>2
  <2>7. made'[c] = n /\ pid'[n] = tmp[c] /\ ~focused'[n] /\ parent'[n] = pid[c]
    BY <1>0, <2>1
  <2>8. \A q \in Procs : q # n => /\ pid'[q] = pid[q] /\ parent'[q] = parent[q]
                                  /\ state'[q] = state[q] /\ focused'[q] = focused[q]
    BY <1>0, <2>1
  <2>9. StartInv'
    <3>1. c # TaskA => booted > 1
      BY <1>a, <1>c, <2>1
    <3>2. c # TaskA => pc'[TaskA] = pc[TaskA]
      BY <2>2, <2>5
    <3>3. c = TaskA => pc[TaskA] = "number" /\ pc'[TaskA] = "insert"
      BY <2>1, <2>5
    <3> QED BY <1>0, <1>a, <2>1, <2>7, <2>8, <3>1, <3>2, <3>3 DEF FInv, StartInv
  <2>10. OwnerInv'
    <3>1. pc'[TaskA] # "point" => pc[TaskA] # "point"
      BY <2>1, <2>2, <2>5
    <3>2. ASSUME NEW d \in Creators, pc'[d] = "insert" PROVE ~focused'[made'[d]]
      <4>1. CASE d = c
        BY <2>7, <4>1
      <4>2. CASE d # c
        BY <1>b, <2>6, <2>8, <3>2, <4>2 DEF FInv, OwnerInv
      <4> QED BY <4>1, <4>2
    <3>3. ASSUME pc'[TaskA] # "point",
                 NEW p \in Procs, focused'[p], rank'[p] > 0, state'[p] # "zombie"
          PROVE  p = foreground'
      <4>1. rank' = rank /\ foreground' = foreground
        BY <2>1
      <4>2. p # n
        BY <2>2, <3>3, <4>1
      <4>3. focused[p] /\ state[p] # "zombie"
        BY <2>8, <3>3, <4>2
      <4> QED BY <3>1, <3>3, <4>1, <4>3 DEF FInv, OwnerInv
    <3> QED BY <3>2, <3>3 DEF OwnerInv
  <2>11. \A d \in {TaskC, TaskD} : Adopting(d)' => Adopting(d) /\ tmp'[d] = tmp[d]
    BY <2>1, <2>5 DEF Adopting
  <2>12. KinInv'
    <3>1. state'[TaskB] = "free"
      BY <2>3, <2>8 DEF FInv, KinInv
    <3>2. \A d \in Creators : pc'[d] = "insert" => pid'[made'[d]] = tmp'[d]
      <4> SUFFICES ASSUME NEW d \in Creators, pc'[d] = "insert" PROVE pid'[made'[d]] = tmp'[d]
        OBVIOUS
      <4>1. CASE d = c
        BY <2>1, <2>7, <4>1
      <4>2. CASE d # c
        <5>1. pc[d] = "insert" /\ made'[d] = made[d] /\ made[d] # n
          BY <2>6, <4>2
        <5>2. pid[made[d]] = tmp[d] /\ made[d] \in Procs
          BY <1>b, <5>1 DEF FInv, KinInv
        <5>3. pid'[made[d]] = pid[made[d]]
          BY <2>8, <5>1, <5>2
        <5>4. tmp' = tmp
          BY <2>1
        <5> QED BY <5>1, <5>2, <5>3, <5>4
      <4> QED BY <4>1, <4>2
    <3>3. \A d \in {TaskC, TaskD} : pc'[d] = "insert" => made'[d] \in Apps
      <4> SUFFICES ASSUME NEW d \in {TaskC, TaskD}, pc'[d] = "insert" PROVE made'[d] \in Apps
        OBVIOUS
      <4>1. CASE d = c
        BY <2>1, <2>7, <4>1
      <4>2. CASE d # c
        BY <2>6, <4>2 DEF FInv, KinInv, Creators
      <4> QED BY <4>1, <4>2
    <3>4. \A d \in {TaskC, TaskD} : Adopting(d)' => \E m \in Apps : rank'[m] > 0 /\ pid'[m] = tmp'[d]
      <4> SUFFICES ASSUME NEW d \in {TaskC, TaskD}, Adopting(d)'
                   PROVE  \E m \in Apps : rank'[m] > 0 /\ pid'[m] = tmp'[d]
        OBVIOUS
      <4>1. PICK m \in Apps : rank[m] > 0 /\ pid[m] = tmp[d]
        BY <2>11 DEF FInv, KinInv
      <4>2. m # n
        BY <2>2, <4>1
      <4> QED BY <2>1, <2>8, <4>1, <4>2
    <3>5. \A t \in Procs \ {TaskA} : state'[t] # "free" =>
            \E d \in Creators : rank'[d] > 0 /\ parent'[t] = pid'[d]
      <4> SUFFICES ASSUME NEW t \in Procs \ {TaskA}, state'[t] # "free"
                   PROVE  \E d \in Creators : rank'[d] > 0 /\ parent'[t] = pid'[d]
        OBVIOUS
      <4>1. CASE t = n
        BY <2>1, <2>2, <2>7, <2>8, <4>1
      <4>2. CASE t # n
        <5>1. PICK d \in Creators : rank[d] > 0 /\ parent[t] = pid[d]
          BY <2>8, <4>2 DEF FInv, KinInv
        <5>2. d # n
          BY <2>2, <5>1
        <5> QED BY <2>1, <2>8, <4>2, <5>1, <5>2
      <4> QED BY <4>1, <4>2
    <3> QED BY <3>1, <3>2, <3>3, <3>4, <3>5 DEF KinInv
  <2>13. AgreeInv'
    <3> SUFFICES ASSUME UniquePid'
                 PROVE  /\ foreground # NoProc => rank[foreground] > 0 /\ focused'[foreground]
                        /\ Adopting(TaskD)' /\ foreground # NoProc => pid'[foreground] # tmp[TaskD]
                        /\ Adopting(TaskD)' /\ Adopting(TaskC)' => tmp[TaskC] # tmp[TaskD]
      BY <2>1 DEF AgreeInv
    <3>1. UniquePid
      <4>1. \A p \in Procs : rank[p] > 0 => rank'[p] > 0 /\ pid'[p] = pid[p]
        BY <2>1, <2>2, <2>8
      <4> QED BY <4>1, UniqueBefore
    <3>2. foreground # NoProc => foreground # n
      BY <2>2, <3>1 DEF FInv, AgreeInv
    <3> QED BY <1>0, <2>8, <2>11, <3>1, <3>2 DEF FInv, AgreeInv
  <2> QED BY <2>9, <2>10, <2>12, <2>13 DEF FInv
<1>3. CASE InsertProcess(c)
  <2>1. /\ current = c /\ pc[c] = "insert"
        /\ rank' = [rank EXCEPT ![made[c]] = links + 1]
        /\ made' = [made EXCEPT ![c] = NoProc]
        /\ UNCHANGED <<state, pid, parent, focus, tmp>>
        /\ \/ /\ c = TaskA /\ booted' = booted + 1
              /\ pc' = [pc EXCEPT ![TaskA] = IF made[c] = ShellTask THEN "flag"
                                             ELSE AfterBoot(booted + 1)]
           \/ /\ c # TaskA /\ booted' = booted
              /\ pc' = [pc EXCEPT ![c] = "adopt"]
    BY <1>3 DEF InsertProcess, Runs, Goto
  <2>2. /\ made[c] \in Procs /\ rank[made[c]] = 0 /\ ~focused[made[c]] /\ pid[made[c]] = tmp[c]
    BY <1>b, <2>1 DEF FInv, OwnerInv, KinInv
  <2>3. /\ rank'[made[c]] > 0
        /\ \A q \in Procs : rank[q] > 0 => rank'[q] > 0
        /\ \A q \in Procs : rank'[q] > 0 => rank[q] > 0 \/ q = made[c]
    BY <1>0, <2>1, <2>2
  <2>4. AfterBoot(booted + 1) \in {"read", "idle"}
    BY DEF AfterBoot
  <2>5. pc'[c] # "insert" /\ \A d \in Procs : d # c => pc'[d] = pc[d]
    BY <1>0, <2>1, <2>4
  <2>6. StartInv'
    <3>1. CASE c = TaskA
      <4>1. made[c] = Boot[booted + 1] /\ booted + 1 <= 3
        <5>1. booted < 3
          BY <1>a, <2>1, <3>1 DEF IInv, BootInv, Boot
        <5> QED BY <1>a, <2>1, <3>1, <5>1 DEF PInv, OrderInv
      <4>2. made[c] = ShellTask <=> booted = 0
        BY <1>a, <4>1, BootFacts
      <4>3. pc'[TaskA] \in {"flag", "read", "idle"} /\ (pc'[TaskA] = "flag" <=> booted = 0)
        BY <1>0, <2>1, <2>4, <3>1, <4>2
      <4>4. tmp[TaskA] > 1 \/ booted > 1
        BY <1>a, <2>1, <3>1 DEF FInv, StartInv
      <4>5. booted' = booted + 1
        BY <2>1, <3>1
      <4>6. booted' <= 1 => \A p \in Procs : rank'[p] > 0 => p \in {TaskA, ShellTask}
        BY <1>a, <2>3, <4>2, <4>5 DEF FInv, StartInv
      <4>7. booted' <= 1 => tmp'[TaskA] > 1
        BY <1>a, <2>1, <4>4, <4>5
      <4>8. pc'[TaskA] = "flag" =>
              booted' = 1 /\ rank'[ShellTask] > 0 /\ pid'[ShellTask] = tmp'[TaskA]
        BY <2>1, <2>2, <2>3, <3>1, <4>2, <4>3, <4>5
      <4>9. booted' = 0 \/ pc'[TaskA] = "flag" =>
              foreground' = NoProc /\ \A p \in Procs : ~focused'[p]
        BY <1>a, <2>1, <4>3, <4>5 DEF FInv, StartInv, focus
      <4> QED BY <4>3, <4>6, <4>7, <4>8, <4>9 DEF StartInv
    <3>2. CASE c # TaskA
      <4>1. c \in {TaskC, TaskD}
        BY <3>2 DEF Creators
      <4>2. booted > 1 /\ pc[TaskA] \notin {"flag", "point"}
        BY <2>1, <4>1, Later
      <4> QED BY <1>a, <2>1, <2>5, <3>2, <4>2 DEF StartInv
    <3> QED BY <3>1, <3>2
  <2>7. OwnerInv'
    <3>1. pc'[TaskA] # "point" => pc[TaskA] # "point"
      BY <2>1, <2>5
    <3>2. ASSUME NEW d \in Creators, pc'[d] = "insert" PROVE ~focused'[made'[d]]
      <4>1. d # c /\ pc[d] = "insert" /\ made'[d] = made[d]
        BY <1>0, <2>1, <2>5, <3>2
      <4> QED BY <2>1, <4>1 DEF FInv, OwnerInv, focus
    <3> QED BY <2>1, <2>2, <2>3, <3>1, <3>2 DEF FInv, OwnerInv, focus
  <2>8. \A d \in {TaskC, TaskD} : d # c /\ Adopting(d)' => Adopting(d)
    BY <2>1, <2>5 DEF Adopting
  <2>9. c \in {TaskC, TaskD} => made[c] \in Apps
    BY <2>1 DEF FInv, KinInv
  <2>10. KinInv'
    <3>1. \A d \in Creators : pc'[d] = "insert" =>
            d # c /\ pc[d] = "insert" /\ made'[d] = made[d]
      BY <1>0, <2>1, <2>5
    <3>2. \A d \in {TaskC, TaskD} : Adopting(d)' => \E m \in Apps : rank'[m] > 0 /\ pid'[m] = tmp'[d]
      <4> SUFFICES ASSUME NEW d \in {TaskC, TaskD}, Adopting(d)'
                   PROVE  \E m \in Apps : rank'[m] > 0 /\ pid'[m] = tmp'[d]
        OBVIOUS
      <4>1. CASE d = c
        BY <2>1, <2>2, <2>3, <2>9, <4>1
      <4>2. CASE d # c
        BY <2>1, <2>3, <2>8, <4>2 DEF FInv, KinInv
      <4> QED BY <4>1, <4>2
    <3>3. \A t \in Procs \ {TaskA} : state'[t] # "free" =>
            \E d \in Creators : rank'[d] > 0 /\ parent'[t] = pid'[d]
      BY <2>1, <2>3 DEF FInv, KinInv
    <3> QED BY <2>1, <3>1, <3>2, <3>3 DEF FInv, KinInv, Creators
  <2>11. AgreeInv'
    <3> SUFFICES ASSUME UniquePid'
                 PROVE  /\ foreground # NoProc => rank'[foreground] > 0 /\ focused[foreground]
                        /\ Adopting(TaskD)' /\ foreground # NoProc => pid[foreground] # tmp[TaskD]
                        /\ Adopting(TaskD)' /\ Adopting(TaskC)' => tmp[TaskC] # tmp[TaskD]
      BY <2>1 DEF AgreeInv, focus
    <3>1. UniquePid
      BY <2>1, <2>3, UniqueBefore
    <3>2. \A p, q \in Procs : rank'[p] > 0 /\ rank'[q] > 0 /\ pid[p] = pid[q] => p = q
      BY <2>1 DEF UniquePid, Linked
    <3>3. foreground # NoProc => rank[foreground] > 0 /\ focused[foreground] /\ foreground \in Procs
      BY <1>0, <3>1 DEF FInv, AgreeInv
    <3>4. ASSUME Adopting(TaskD)', foreground # NoProc PROVE pid[foreground] # tmp[TaskD]
      <4>1. CASE c = TaskD
        <5>1. foreground # made[c]
          BY <2>2, <3>3, <3>4
        <5> QED BY <2>2, <2>3, <3>2, <3>3, <3>4, <4>1, <5>1
      <4>2. CASE c # TaskD
        BY <2>8, <3>1, <3>4, <4>2 DEF FInv, AgreeInv
      <4> QED BY <4>1, <4>2
    <3>5. ASSUME Adopting(TaskD)', Adopting(TaskC)' PROVE tmp[TaskC] # tmp[TaskD]
      <4>1. CASE c = TaskA
        BY <2>8, <3>1, <3>5, <4>1 DEF FInv, AgreeInv
      <4>2. ASSUME NEW d \in {TaskC, TaskD}, c \in {TaskC, TaskD}, d # c
            PROVE  tmp[d] # tmp[c]
        <5>1. PICK m \in Apps : rank[m] > 0 /\ pid[m] = tmp[d]
          BY <2>8, <3>5, <4>2 DEF FInv, KinInv
        <5> QED BY <2>2, <2>3, <3>2, <5>1
      <4> QED BY <4>1, <4>2 DEF Creators
    <3> QED BY <2>3, <3>3, <3>4, <3>5
  <2> QED BY <2>6, <2>7, <2>10, <2>11 DEF FInv
<1>4. CASE LoadFails(c) \/ StackFails(c)
  <2>1. /\ c # TaskA /\ current = c /\ pc[c] \in {"read", "number"}
        /\ pc' = [pc EXCEPT ![c] = "adopt"]
        /\ tmp'[c] \in {0, -1} /\ \A d \in Procs : d # c => tmp'[d] = tmp[d]
        /\ UNCHANGED <<table, focus, booted, made>>
    BY <1>0, <1>4 DEF LoadFails, StackFails, Runs, Goto, table
  <2>2. booted > 1
    BY <1>a, <1>c, <2>1
  <2>3. /\ \A d \in Procs : d # c => pc'[d] = pc[d]
        /\ pc'[c] = "adopt"
    BY <1>0, <2>1
  <2>4. StartInv'
    BY <1>a, <2>1, <2>2, <2>3 DEF FInv, StartInv, table, focus
  <2>5. OwnerInv'
    <3>1. \A d \in Creators : pc'[d] = "insert" => pc[d] = "insert"
      BY <2>3
    <3> QED BY <2>1, <2>3, <3>1 DEF FInv, OwnerInv, table, focus
  <2>6. /\ \A d \in Creators : pc'[d] = "insert" => pc[d] = "insert" /\ tmp'[d] = tmp[d]
        /\ \A d \in {TaskC, TaskD} : Adopting(d)' => Adopting(d) /\ tmp'[d] = tmp[d]
    BY <2>1, <2>3 DEF Adopting, Creators
  <2>7. KinInv' /\ AgreeInv'
    BY <2>1, <2>6 DEF FInv, KinInv, AgreeInv, UniquePid, Linked, table, focus
  <2> QED BY <2>4, <2>5, <2>7 DEF FInv
<1> QED BY <1>1, <1>2, <1>3, <1>4 DEF Create

\* The calls that keep the CPU, and task_d's flag.
LEMMA FOther ==
  ASSUME IInv, PInv, FInv,
         \/ TakeExec \/ ClearPending \/ Reap
         \/ \E p \in Programs : SysExec(p) \/ \E x \in Nat : KillOther(p, x)
         \/ ShellChecksFocus \/ ShellReturns \/ ShellTestsExec \/ ShellPostsExec
  PROVE  FInv'
<1> USE Distinct, Tasks5
<1>0. /\ pc \in [Procs -> Labels] /\ state \in [Procs -> States] /\ pid \in [Procs -> Nat]
  BY DEF IInv, TypeOK
<1>1. CASE TakeExec \/ ClearPending
  <2>1. Calm /\ UNCHANGED focus
    BY <1>0, <1>1 DEF TakeExec, ClearPending, Goto, Calm, table
  <2> QED BY <2>1, CalmFocus
<1>2. CASE \/ ShellChecksFocus \/ ShellReturns \/ ShellTestsExec \/ ShellPostsExec
           \/ \E p \in Programs : SysExec(p)
  <2>1. Calm /\ UNCHANGED focus
    BY <1>0, <1>2 DEF ShellChecksFocus, ShellReturns, ShellTestsExec, ShellPostsExec, SysExec,
                      Goto, Calm, table
  <2> QED BY <2>1, CalmFocus
<1>3. CASE Reap
  <2>1. rank[TaskB] = 0 /\ rank[current] > 0
    BY DEF IInv, ListInv, CpuInv, FInv, KinInv
  <2> QED BY <1>3, <2>1 DEF Reap, Runs
<1>4. ASSUME NEW p \in Programs, NEW x \in Nat, KillOther(p, x)
      PROVE  FInv'
  <2>1. PICK t \in Procs : /\ rank[t] > 0 /\ pid[t] = x /\ ~(x <= 3)
                           /\ state[t] # "zombie"
                           /\ state' = [state EXCEPT ![t] = "zombie"]
                           /\ FocusParent(t)
    BY <1>4 DEF KillOther, Found, Linked, Protected
  <2>2. UNCHANGED <<pid, parent, rank, creation>> /\ pc' = [pc EXCEPT ![p] = "run"]
    BY <1>4 DEF KillOther, Goto
  <2>3. state[t] # "free"
    BY <2>1 DEF IInv, ListInv
  <2>4. Calm
    BY <1>0, <2>1, <2>2, <2>3 DEF Calm
  <2>5. state'[t] = "zombie" /\ pid[t] > 3
    BY <1>0, <2>1
  <2> QED BY <2>1, <2>4, <2>5, KillFocus
<1> QED BY <1>1, <1>2, <1>3, <1>4

LEMMA FStep == ~Reaper /\ IInv /\ PInv /\ FInv /\ [Next]_vars => FInv'
<1> SUFFICES ASSUME ~Reaper, IInv, PInv, FInv, [Next]_vars PROVE FInv'
  OBVIOUS
<1>0. \A x \in KillPids \cup {10} \cup SleepMs : x \in Nat
  BY NumbersAssumption
<1>1. CASE UNCHANGED vars
  <2>1. Calm /\ UNCHANGED focus
    BY <1>1 DEF vars, table, Calm
  <2> QED BY <2>1, CalmFocus
<1>2. CASE TimerInterrupt
  BY <1>2, FSwitch
<1>3. ASSUME NEW c \in Creators, Create(c) PROVE FInv'
  BY <1>3, FCreate
<1>4. CASE FlagShell \/ PointShell \/ LaunchExplorer \/ AdoptChild
  BY <1>4, FHands
<1>5. ASSUME NEW p \in Programs, Syscall(p) PROVE FInv'
  <2>1. CASE \/ \E ms \in Nat : SysSleep(p, ms)
             \/ SysExit(p)
             \/ \E x \in Nat : KillSelf(p, x)
    BY <2>1, FSwitch
  <2>2. CASE SysExec(p) \/ \E x \in Nat : KillOther(p, x)
    BY <2>2, FOther
  <2> QED BY <1>0, <1>5, <2>1, <2>2 DEF Syscall
<1> QED BY <1>1, <1>2, <1>3, <1>4, <1>5, FOther DEF Next

\* In the kernel as it is shipped, without the reaper: at most one live process believes it
\* has the keyboard, and, as long as pids are unique, foreground_process names it, through
\* every hand-over of kernel_main, the launcher, task_d and kill_process.
THEOREM KeyboardIsTrue == ~Reaper => (Spec => []FocusTrue)
<1> SUFFICES ASSUME ~Reaper PROVE Spec => []FocusTrue
  OBVIOUS
<1>1. Init => PInv /\ FInv
  BY PInit, FInit
<1>2. IInv /\ PInv /\ FInv /\ [Next]_vars => (PInv /\ FInv)'
  BY PStep, FStep
<1>3. IInv /\ FInv => FocusTrue
  <2> SUFFICES ASSUME IInv, FInv PROVE FocusTrue
    OBVIOUS
  <2>1. foreground \in Procs \cup {NoProc}
    BY DEF IInv, TypeOK
  <2>2. FocusOne
    BY DEF FInv, OwnerInv, StartInv, FocusOne, Linked
  <2>3. FocusAgrees
    BY <2>1 DEF FInv, AgreeInv, FocusAgrees, Linked
  <2> QED BY <2>2, <2>3 DEF FocusTrue
<1> QED BY <1>1, <1>2, <1>3, Invariance, PTL DEF Spec

-----------------------------------------------------------------------------
(* The process table implements the abstract queue: every step of Proc from a state of the   *)
(* inductive invariant is a step of ReadyQueue or leaves the queue alone.  The heart of it is *)
(* arithmetic on ranks: a dispatch subtracts the same amount, modulo the length of the list,  *)
(* from the places of all who go on waiting, and an insertion moves together all those that   *)
(* come after head.                                                                           *)

\* The place in the queue as a function of the ranks, to compare two states.
Place(rk, ln, cur, p) ==
  IF rk[p] < rk[cur] THEN rk[cur] - rk[p] ELSE rk[cur] - rk[p] + ln

-----------------------------------------------------------------------------

\* Places are different numbers, and the owner's own is the last.
LEMMA PlaceFacts ==
  ASSUME NEW rk \in [Procs -> Nat], NEW ln \in Nat, NEW cur \in Procs,
         \A p \in Procs : rk[p] <= ln,
         \A p, q \in Procs : rk[p] > 0 /\ rk[p] = rk[q] => p = q,
         rk[cur] > 0
  PROVE  /\ \A p \in Procs : Place(rk, ln, cur, p) \in Int
         /\ \A p \in Procs : rk[p] > 0 => Place(rk, ln, cur, p) <= ln
         /\ Place(rk, ln, cur, cur) = ln
         /\ \A p, q \in Procs :
              rk[p] > 0 /\ rk[q] > 0 /\ Place(rk, ln, cur, p) = Place(rk, ln, cur, q) => p = q
<1>1. \A p \in Procs : rk[p] \in Nat
  OBVIOUS
<1>2. \A p, q \in Procs :
        rk[p] > 0 /\ rk[q] > 0 /\ Place(rk, ln, cur, p) = Place(rk, ln, cur, q) => rk[p] = rk[q]
  BY <1>1 DEF Place
<1> QED BY <1>1, <1>2 DEF Place

\* After a dispatch to n, those who were behind n keep their order, and the
\* former owner is behind them all.
LEMMA PlaceAfterDispatch ==
  ASSUME NEW rk \in [Procs -> Nat], NEW ln \in Nat, NEW cur \in Procs, NEW n \in Procs,
         \A p \in Procs : rk[p] <= ln,
         rk[cur] > 0, rk[n] > 0,
         NEW p \in Procs, NEW q \in Procs, rk[p] > 0, rk[q] > 0,
         Place(rk, ln, cur, n) < Place(rk, ln, cur, p),
         Place(rk, ln, cur, n) < Place(rk, ln, cur, q)
  PROVE  Place(rk, ln, n, p) < Place(rk, ln, n, q)
           <=> Place(rk, ln, cur, p) < Place(rk, ln, cur, q)
<1>1. /\ rk[p] \in Nat /\ rk[q] \in Nat /\ rk[cur] \in Nat /\ rk[n] \in Nat
      /\ rk[p] <= ln /\ rk[q] <= ln /\ rk[cur] <= ln /\ rk[n] <= ln
  OBVIOUS
<1> QED BY <1>1 DEF Place

\* An insertion at head does not change who comes before whom.
LEMMA PlaceAfterInsert ==
  ASSUME NEW rk \in [Procs -> Nat], NEW ln \in Nat, NEW cur \in Procs, NEW m \in Procs,
         \A p \in Procs : rk[p] <= ln,
         rk[cur] > 0, m # cur,
         NEW p \in Procs, NEW q \in Procs, rk[p] > 0, rk[q] > 0, p # m, q # m
  PROVE  LET rk2 == [rk EXCEPT ![m] = ln + 1]
         IN  Place(rk2, ln + 1, cur, p) < Place(rk2, ln + 1, cur, q)
               <=> Place(rk, ln, cur, p) < Place(rk, ln, cur, q)
<1> DEFINE rk2 == [rk EXCEPT ![m] = ln + 1]
<1>1. /\ rk[p] \in Nat /\ rk[q] \in Nat /\ rk[cur] \in Nat
      /\ rk[p] <= ln /\ rk[q] <= ln /\ rk[cur] <= ln
      /\ rk2[p] = rk[p] /\ rk2[q] = rk[q] /\ rk2[cur] = rk[cur]
  OBVIOUS
<1> HIDE DEF rk2
<1>2. Place(rk2, ln + 1, cur, p) < Place(rk2, ln + 1, cur, q)
        <=> Place(rk, ln, cur, p) < Place(rk, ln, cur, q)
  BY <1>1 DEF Place
<1> QED BY <1>2 DEF rk2

\* Different numbers order a set.
LEMMA NumbersOrder ==
  ASSUME NEW W, NEW f, NEW R,
         \A p \in W : f[p] \in Int,
         \A p, q \in W : f[p] = f[q] => p = q,
         R \subseteq W \X W,
         \A p, q \in W : <<p, q>> \in R <=> f[p] < f[q]
  PROVE  Queue!Orders(R, W)
BY DEF Queue!Orders

\* The queue of a state, in terms of places; and the same of the next state.
LEMMA QueueFacts ==
  ASSUME IInv
  PROVE  /\ Waiting \subseteq Procs
         /\ \A p \in Procs :
              p \in Waiting <=> rank[p] > 0 /\ state[p] = "ready" /\ p # current
         /\ Ahead \subseteq Waiting \X Waiting
         /\ \A p, q \in Waiting :
              <<p, q>> \in Ahead <=> Place(rank, links, current, p) < Place(rank, links, current, q)
BY DEF Waiting, Linked, Ahead, Turn, Place

LEMMA NextQueueFacts ==
  ASSUME IInv'
  PROVE  /\ Waiting' \subseteq Procs
         /\ \A p \in Procs :
              p \in Waiting' <=> rank'[p] > 0 /\ state'[p] = "ready" /\ p # current'
         /\ Ahead' \subseteq Waiting' \X Waiting'
         /\ \A p, q \in Waiting' : <<p, q>> \in Ahead' <=>
              Place(rank', links', current', p) < Place(rank', links', current', q)
         /\ Queue!Orders(Ahead', Waiting')
<1>1. /\ Waiting' \subseteq Procs
      /\ \A p \in Procs :
           p \in Waiting' <=> rank'[p] > 0 /\ state'[p] = "ready" /\ p # current'
      /\ Ahead' \subseteq Waiting' \X Waiting'
      /\ \A p, q \in Waiting' : <<p, q>> \in Ahead' <=>
           Place(rank', links', current', p) < Place(rank', links', current', q)
  BY DEF Waiting, Linked, Ahead, Turn, Place
<1>2. /\ rank' \in [Procs -> Nat] /\ links' \in Nat /\ current' \in Procs
      /\ \A p \in Procs : rank'[p] <= links'
      /\ \A p, q \in Procs : rank'[p] > 0 /\ rank'[p] = rank'[q] => p = q
      /\ rank'[current'] > 0
  BY DEF IInv, TypeOK, ListInv, CpuInv
<1> DEFINE f == [p \in Procs |-> Place(rank', links', current', p)]
<1>3. /\ \A p \in Waiting' : f[p] \in Int
      /\ \A p, q \in Waiting' : f[p] = f[q] => p = q
      /\ \A p, q \in Waiting' : <<p, q>> \in Ahead' <=> f[p] < f[q]
  BY <1>1, <1>2, PlaceFacts
<1> HIDE DEF f
<1>4. Queue!Orders(Ahead', Waiting')
  BY <1>1, <1>3, NumbersOrder
<1> QED BY <1>1, <1>4

\* A step that leaves the owner and those who wait in their places.
LEMMA SameQueue ==
  ASSUME IInv, IInv',
         Waiting' = Waiting, current' = current, links' = links,
         \A p \in Waiting \cup {current} : rank'[p] = rank[p]
  PROVE  UNCHANGED Queue!queue
<1>1. \A p \in Waiting : Place(rank', links', current', p) = Place(rank, links, current, p)
  BY DEF Place
<1>2. \A p, q \in Waiting : <<p, q>> \in Ahead' <=> <<p, q>> \in Ahead
  BY <1>1, QueueFacts, NextQueueFacts
<1>3. Ahead' = Ahead
  <2>1. \A x \in Waiting \X Waiting : x \in Ahead' <=> x \in Ahead
    BY <1>2
  <2>2. Ahead' \subseteq Waiting \X Waiting /\ Ahead \subseteq Waiting \X Waiting
    BY QueueFacts, NextQueueFacts
  <2> QED BY <2>1, <2>2
<1> QED BY <1>3 DEF Queue!queue

\* A step that touches neither the list nor the owner, and makes ready, or
\* kills, at most one process.
LEMMA OneMoves ==
  ASSUME IInv, IInv', UNCHANGED <<rank, links, current>>,
         NEW t \in Procs, rank[t] > 0,
         \A p \in Procs : p # t => state'[p] = state[p],
         t = TaskA => state'[t] \in {"ready", "running"}
  PROVE  [Queue!Next]_(Queue!queue)
<1>1. /\ \A p \in Waiting \cap Waiting', q \in Waiting \cap Waiting' :
           <<p, q>> \in Ahead' <=> <<p, q>> \in Ahead
      /\ Queue!Orders(Ahead', Waiting')
  BY QueueFacts, NextQueueFacts DEF Place
<1>2. Queue!KeepsOrder
  BY <1>1 DEF Queue!KeepsOrder
<1>3. \A p \in Procs : p # t => (p \in Waiting' <=> p \in Waiting)
  BY QueueFacts, NextQueueFacts
<1>4. CASE t \in Waiting' /\ t \notin Waiting
  <2>1. Waiting' = Waiting \cup {t} /\ t # current
    BY <1>3, <1>4, QueueFacts, NextQueueFacts
  <2> QED BY <1>2, <1>4, <2>1 DEF Queue!Next, Queue!Arrive
<1>5. CASE t \notin Waiting' /\ t \in Waiting
  <2>1. Waiting' = Waiting \ {t} /\ t # TaskA
    BY <1>3, <1>5, QueueFacts, NextQueueFacts DEF IInv, CpuInv
  <2> QED BY <1>2, <1>5, <2>1 DEF Queue!Next, Queue!Leave
<1>6. CASE t \in Waiting' <=> t \in Waiting
  <2>1. Waiting' = Waiting
    BY <1>3, <1>6, QueueFacts, NextQueueFacts
  <2> QED BY <2>1, SameQueue
<1> QED BY <1>4, <1>5, <1>6

\* An interrupt is a Dispatch.
LEMMA HandlerDispatches ==
  ASSUME IInv, IInv',
         NEW STATE st, st \in [Procs -> States],
         NEW STATE lf, lf \in [Procs -> Nat],
         \A p \in Procs : p # current => st[p] = state[p],
         st[TaskA] \in {"ready", "running"},
         TimerHandler(st, lf)
  PROVE  Queue!Dispatch
<1> DEFINE lf1 == [p \in Procs |-> IF lf[p] > 0 THEN lf[p] - 1 ELSE 0]
           woken == Woken(st, lf1)
           ready == {p \in Linked : woken[p] = "ready"}
           place(p) == Place(rank, links, current, p)
<1>1. PICK n \in Procs :
        /\ Selects(woken, n)
        /\ current' = n
        /\ state' = [woken EXCEPT ![n] = "running"]
  BY DEF TimerHandler
<1>2. /\ woken \in [Procs -> States]
      /\ \A p \in Procs : woken[p] = IF \/ p \in Linked /\ st[p] = "sleeping" /\ lf1[p] = 0
                                        \/ p = current /\ st[p] = "running"
                                     THEN "ready" ELSE st[p]
  <2>1. \A p \in Procs : woken[p] = IF \/ p \in Linked /\ st[p] = "sleeping" /\ lf1[p] = 0
                                       \/ p = current /\ st[p] = "running"
                                    THEN "ready" ELSE st[p]
    BY DEF Woken
  <2>2. woken = [p \in Procs |-> woken[p]]
    BY DEF Woken
  <2> HIDE DEF woken, lf1
  <2> QED BY <2>1, <2>2 DEF States
<1>3. UNCHANGED <<rank, links>>
  BY DEF TimerHandler
<1> HIDE DEF lf1, woken
<1>4. TaskA \in Procs /\ TaskA \in ready
  <2>1. TaskA \in Procs /\ rank[TaskA] > 0 /\ (st[TaskA] = "running" => TaskA = current)
    BY Distinct DEF IInv, CpuInv
  <2> QED BY <1>2, <2>1 DEF Linked
<1>5. n \in ready /\ \A p \in ready : Turn(n) <= Turn(p)
  BY <1>1, <1>4 DEF Selects
<1>6. /\ \A p \in Procs : rank[p] \in Nat /\ rank[p] <= links
      /\ rank \in [Procs -> Nat] /\ links \in Nat /\ current \in Procs
      /\ \A p, q \in Procs : rank[p] > 0 /\ rank[p] = rank[q] => p = q
      /\ rank[current] > 0 /\ rank[n] > 0
  BY <1>5 DEF IInv, TypeOK, ListInv, CpuInv, Linked
<1>7. /\ \A p \in Procs : place(p) \in Int
      /\ \A p \in Procs : rank[p] > 0 => place(p) <= links
      /\ place(current) = links
      /\ \A p, q \in Procs : rank[p] > 0 /\ rank[q] > 0 /\ place(p) = place(q) => p = q
  BY <1>6, PlaceFacts
<1>8. Waiting \subseteq ready
  <2>1. \A p \in Waiting : p \in Procs /\ rank[p] > 0 /\ state[p] = "ready" /\ p # current
    BY QueueFacts
  <2> QED BY <1>2, <2>1 DEF Linked
<1>9. Waiting' = ready \ {n}
  <2>1. \A p \in Procs : p # n => state'[p] = woken[p]
    BY <1>1, <1>2
  <2>2. \A p \in Procs : p \in Waiting' <=> p \in ready \ {n}
    BY <1>1, <1>3, <2>1, NextQueueFacts DEF Linked
  <2>3. ready \subseteq Procs /\ Waiting' \subseteq Procs
    BY NextQueueFacts DEF Linked
  <2> QED BY <2>2, <2>3
<1>10. \A p \in ready : /\ p \in Procs /\ rank[p] > 0
                        /\ p # n => place(n) < place(p)
  <2>1. \A p \in ready : p \in Procs /\ rank[p] > 0 /\ place(n) <= place(p)
    BY <1>5 DEF Linked, Turn, Place
  <2> HIDE DEF place
  <2>2. n \in Procs /\ rank[n] > 0
    BY <1>6
  <2> QED BY <1>7, <2>1, <2>2
<1> HIDE DEF ready
<1>11. Waiting' \in SUBSET (Procs \ {current'}) /\ Waiting \subseteq Waiting' \cup {current'}
  BY <1>1, <1>8, <1>9, <1>10
<1>12. current = TaskA => TaskA \in Waiting' \cup {current'}
  BY <1>1, <1>4, <1>9
<1>13. current' \in Waiting => \A p \in Waiting \ {current'} : <<current', p>> \in Ahead
  BY <1>1, <1>8, <1>10, QueueFacts
<1>14. current' = current => Waiting' = {}
  <2>1. ASSUME n = current, NEW p \in ready, p # n PROVE FALSE
    BY <1>7, <1>10, <2>1
  <2> QED BY <1>1, <1>9, <2>1
<1>15. ASSUME NEW p \in Waiting' \cap ready, NEW q \in Waiting' \cap ready
       PROVE  <<p, q>> \in Ahead' <=> place(p) < place(q)
  <2>1. /\ p \in Procs /\ q \in Procs /\ rank[p] > 0 /\ rank[q] > 0
        /\ place(n) < place(p) /\ place(n) < place(q)
    BY <1>9, <1>10
  <2>2. Place(rank, links, n, p) < Place(rank, links, n, q) <=> place(p) < place(q)
    BY <1>6, <2>1, PlaceAfterDispatch
  <2> HIDE DEF place
  <2> QED BY <1>1, <1>3, <2>2, NextQueueFacts
<1>16. current \in Waiting' => \A p \in Waiting \ {current'} : <<p, current>> \in Ahead'
  <2> SUFFICES ASSUME current \in Waiting', NEW p \in Waiting, p # n
               PROVE  <<p, current>> \in Ahead'
    BY <1>1
  <2>1. p \in Waiting' \cap ready /\ current \in Waiting' \cap ready /\ p # current
    BY <1>8, <1>9, QueueFacts
  <2>2. p \in Procs /\ rank[p] > 0
    BY <2>1, <1>10
  <2>3. place(p) < place(current)
    <3> HIDE DEF place
    <3>1. place(p) <= links /\ place(p) # place(current) /\ place(current) = links
      BY <1>6, <1>7, <2>1, <2>2
    <3>2. place(p) \in Int /\ links \in Int
      BY <1>6, <1>7, <2>2
    <3> QED BY <3>1, <3>2
  <2> QED BY <1>15, <2>1, <2>3
<1>17. Queue!KeepsOrder
  <2>1. ASSUME NEW p \in Waiting \cap Waiting', NEW q \in Waiting \cap Waiting'
        PROVE  <<p, q>> \in Ahead' <=> <<p, q>> \in Ahead
    BY <1>8, <1>15, QueueFacts
  <2> QED BY <2>1, NextQueueFacts DEF Queue!KeepsOrder
<1> QED BY <1>11, <1>12, <1>13, <1>14, <1>16, <1>17 DEF Queue!Dispatch

\* An insertion at head is an Arrive.
LEMMA InsertArrives ==
  ASSUME IInv, IInv', NEW c \in Creators, InsertProcess(c)
  PROVE  Queue!Next
<1> DEFINE m == made[c]
<1>1. /\ m \in Procs /\ rank[m] = 0 /\ state[m] = "ready"
      /\ rank' = [rank EXCEPT ![m] = links + 1] /\ links' = links + 1
      /\ UNCHANGED <<state, current>>
  BY DEF InsertProcess, Runs, IInv, MadeInv
<1> HIDE DEF m
<1>2. /\ rank \in [Procs -> Nat] /\ links \in Nat /\ current \in Procs
      /\ \A p \in Procs : rank[p] <= links
      /\ rank[current] > 0
  BY DEF IInv, TypeOK, ListInv, CpuInv
<1>0. m # current
  BY <1>1, <1>2
<1>3. Waiting' = Waiting \cup {m} /\ m \notin Waiting \cup {current}
  <2>1. \A p \in Procs : rank'[p] = IF p = m THEN links + 1 ELSE rank[p]
    BY <1>1, <1>2
  <2>2. \A p \in Procs : p \in Waiting' <=> p \in Waiting \cup {m}
    BY <1>0, <1>1, <1>2, <2>1, QueueFacts, NextQueueFacts
  <2> QED BY <1>0, <1>1, <1>2, <2>2, QueueFacts, NextQueueFacts
<1>4. ASSUME NEW p \in Waiting \cap Waiting', NEW q \in Waiting \cap Waiting'
      PROVE  <<p, q>> \in Ahead' <=> <<p, q>> \in Ahead
  <2>1. p \in Procs /\ q \in Procs /\ rank[p] > 0 /\ rank[q] > 0 /\ p # m /\ q # m
    BY <1>3, QueueFacts
  <2>2. Place(rank', links', current', p) < Place(rank', links', current', q)
          <=> Place(rank, links, current, p) < Place(rank, links, current, q)
    BY <1>0, <1>1, <1>2, <2>1, PlaceAfterInsert
  <2> QED BY <2>2, QueueFacts, NextQueueFacts
<1>5. Queue!KeepsOrder
  BY <1>4, NextQueueFacts DEF Queue!KeepsOrder
<1> QED BY <1>1, <1>3, <1>5 DEF Queue!Next, Queue!Arrive

\* Every step of the process table is a step of the abstract queue.
LEMMA StepSimulates ==
  ASSUME IInv, IInv', [Next]_vars
  PROVE  [Queue!Next]_(Queue!queue)
<1> USE Distinct
<1>0. /\ state \in [Procs -> States] /\ left \in [Procs -> Nat] /\ current \in Procs
      /\ state[TaskA] \in {"ready", "running"} /\ rank[current] > 0 /\ pid[TaskA] = 1
  BY DEF IInv, TypeOK, CpuInv
<1>1. ASSUME UNCHANGED <<state, rank, links, current>>
      PROVE  UNCHANGED Queue!queue
  <2>1. Waiting' = Waiting
    BY <1>1, QueueFacts, NextQueueFacts
  <2> QED BY <1>1, <2>1, SameQueue
<1>2. CASE TimerInterrupt
  BY <1>0, <1>2, HandlerDispatches DEF TimerInterrupt, Queue!Next
<1>3. ASSUME NEW c \in Creators, Create(c)
      PROVE  [Queue!Next]_(Queue!queue)
  <2>1. CASE InsertProcess(c)
    BY <2>1, InsertArrives
  <2>2. ASSUME NEW n \in Procs, NumberProcess(c, n)
        PROVE  UNCHANGED Queue!queue
    <3>1. /\ state[n] = "free" /\ rank[n] = 0
          /\ state' = [state EXCEPT ![n] = "ready"]
          /\ UNCHANGED <<rank, links, current>>
      BY <2>2 DEF NumberProcess, IInv, ListInv
    <3>2. \A p \in Procs : p # n => state'[p] = state[p]
      BY <1>0, <3>1
    <3>3. \A p \in Procs : p \in Waiting' <=> p \in Waiting
      BY <3>1, <3>2, QueueFacts, NextQueueFacts
    <3>4. Waiting' = Waiting
      BY <3>3, QueueFacts, NextQueueFacts
    <3> QED BY <3>1, <3>4, SameQueue
  <2>3. CASE ReadNextPid(c) \/ LoadFails(c) \/ StackFails(c)
    BY <1>1, <2>3 DEF ReadNextPid, LoadFails, StackFails, table
  <2> QED BY <1>3, <2>1, <2>2, <2>3 DEF Create
<1>4. CASE \/ FlagShell \/ PointShell \/ LaunchExplorer \/ TakeExec \/ ClearPending
           \/ ShellChecksFocus \/ ShellReturns \/ ShellTestsExec \/ ShellPostsExec
           \/ UNCHANGED vars
  BY <1>1, <1>4 DEF FlagShell, PointShell, LaunchExplorer, TakeExec, ClearPending,
                    ShellChecksFocus, ShellReturns, ShellTestsExec, ShellPostsExec,
                    vars, table
<1>5. CASE AdoptChild
  <2>1. CASE UNCHANGED state
    BY <1>1, <1>5, <2>1 DEF AdoptChild
  <2>2. ASSUME NEW p \in Procs, rank[p] > 0, state' = [state EXCEPT ![p] = "ready"]
        PROVE  [Queue!Next]_(Queue!queue)
    <3>1. state'[p] = "ready" /\ \A q \in Procs : q # p => state'[q] = state[q]
      BY <1>0, <2>2
    <3>2. UNCHANGED <<rank, links, current>>
      BY <1>5 DEF AdoptChild
    <3> QED BY <2>2, <3>1, <3>2, OneMoves
  <2> QED BY <1>5, <2>1, <2>2 DEF AdoptChild, Found, Linked
<1>6. CASE Reap
  <2>1. /\ \A p \in Procs : state'[p] = IF p \in Reaped THEN "free" ELSE state[p]
        /\ \A p \in Procs : rank'[p] = IF p \in Reaped THEN 0 ELSE rank[p]
        /\ links' = links /\ current' = current
    BY <1>6 DEF Reap
  <2>2. \A p \in Reaped : p \in Procs /\ state[p] = "zombie" /\ p # current
    BY DEF Reaped, Linked
  <2> HIDE DEF Reaped
  <2>3. \A p \in Procs : p \in Waiting' <=> p \in Waiting
    BY <2>1, <2>2, QueueFacts, NextQueueFacts
  <2>4. Waiting' = Waiting
    BY <2>3, QueueFacts, NextQueueFacts
  <2>5. \A p \in Waiting \cup {current} : rank'[p] = rank[p]
    BY <1>0, <2>1, <2>2, QueueFacts
  <2> QED BY <2>1, <2>4, <2>5, SameQueue
<1>7. ASSUME NEW p \in Programs, Syscall(p)
      PROVE  [Queue!Next]_(Queue!queue)
  <2>0. p \in Procs /\ p # TaskA
    OBVIOUS
  <2>1. ASSUME NEW ms \in {10} \cup SleepMs, SysSleep(p, ms)
        PROVE  Queue!Dispatch
    <3>1. SleepTicks(ms) \in Nat
      BY NumbersAssumption DEF SleepTicks
    <3> DEFINE st == [state EXCEPT ![p] = "sleeping"]
               lf == [left EXCEPT ![p] = SleepTicks(ms)]
    <3>2. /\ TimerHandler(st, lf) /\ p = current
          /\ st \in [Procs -> States] /\ lf \in [Procs -> Nat]
          /\ \A q \in Procs : q # current => st[q] = state[q]
          /\ st[TaskA] \in {"ready", "running"}
      BY <1>0, <2>0, <2>1, <3>1 DEF SysSleep, Calls, Runs, States
    <3> HIDE DEF st, lf
    <3> QED BY <3>2, HandlerDispatches
  <2>3. ASSUME SysExit(p) \/ \E x \in KillPids : KillSelf(p, x)
        PROVE  Queue!Dispatch
    <3> DEFINE st == [state EXCEPT ![p] = "zombie"]
    <3>1. /\ TimerHandler(st, left) /\ p = current
          /\ st \in [Procs -> States]
          /\ \A q \in Procs : q # current => st[q] = state[q]
          /\ st[TaskA] \in {"ready", "running"}
      BY <1>0, <2>0, <2>3 DEF SysExit, KillSelf, Calls, Runs, States
    <3> HIDE DEF st
    <3> QED BY <1>0, <3>1, HandlerDispatches
  <2>4. ASSUME NEW x \in KillPids, KillOther(p, x)
        PROVE  [Queue!Next]_(Queue!queue)
    <3>0. x \in Nat
      BY NumbersAssumption
    <3>1. PICK t \in Procs : /\ rank[t] > 0 /\ pid[t] = x /\ ~Protected(x)
                             /\ state' = [state EXCEPT ![t] = "zombie"]
                             /\ UNCHANGED <<rank, links, current>>
      BY <2>4 DEF KillOther, Found, Linked
    <3>2. t # TaskA /\ \A q \in Procs : q # t => state'[q] = state[q]
      BY <1>0, <3>0, <3>1 DEF Protected
    <3> QED BY <3>1, <3>2, OneMoves
  <2>5. CASE SysExec(p)
    BY <1>1, <2>5 DEF SysExec, table
  <2> QED BY <1>7, <2>1, <2>3, <2>4, <2>5 DEF Syscall, Queue!Next
<1> QED BY <1>2, <1>3, <1>4, <1>5, <1>6, <1>7 DEF Next

\* The kernel's list and schedule implement the abstract queue: those who wait
\* for the CPU are served first come first, and nobody overtakes.
THEOREM Refinement == Spec => ServesInTurn
<1>1. Init => Queue!Init
  BY Distinct DEF Init, Queue!Init, Waiting, Ahead, Linked
<1>2. IInv /\ IInv' /\ [Next]_vars => [Queue!Next]_(Queue!queue)
  BY StepSimulates
<1> QED BY <1>1, <1>2, Invariance, PTL DEF Spec, ServesInTurn, Queue!Spec

=============================================================================
