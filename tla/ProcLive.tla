------------------------------ MODULE ProcLive ------------------------------
(***************************************************************************)
(* What must happen in the process table (Proc) when the PIT goes on       *)
(* firing.                                                                 *)
(*                                                                         *)
(* Fairness.  The PIT is programmed once and never stopped, and no thread  *)
(* keeps interrupts disabled: weak fairness of TimerInterrupt.  A thread   *)
(* can only execute between two interrupts, so its steps are disabled and  *)
(* enabled for ever; a tick is 10 ms (55 ms before timer_init), longer     *)
(* than any step, so a thread that gets the CPU again and again does make  *)
(* its next step: strong fairness of the steps of the kernel tasks.        *)
(* Nothing is assumed of the programs: they may loop without a call, or    *)
(* exit and kill at any moment.                                            *)
(***************************************************************************)
EXTENDS ProcQueue

\* The next step of a kernel task: it has at most one.
Step(c) ==
  \/ Create(c)
  \/ c = TaskA /\ (FlagShell \/ PointShell)
  \/ c = TaskC /\ LaunchExplorer
  \/ c = TaskD /\ (TakeExec \/ AdoptChild \/ ClearPending)

KernelSteps == (\A c \in Creators : SF_vars(Step(c))) /\ SF_vars(Reap)

LiveSpec == Spec /\ WF_vars(TimerInterrupt) /\ KernelSteps

\* As much of it as the dead need.
ReaperSpec == Spec /\ WF_vars(TimerInterrupt) /\ SF_vars(Step(TaskA)) /\ SF_vars(Reap)

\* Nobody starves and no sleeper is forgotten: a process that is READY or
\* SLEEPING gets the CPU, or is killed first, whoever else is created, wakes,
\* sleeps or yields meanwhile.
NoStarvation ==
  \A p \in Procs :
    (p \in Linked /\ state[p] \in {"ready", "sleeping"})
      ~> (current = p \/ state[p] = "zombie")

\* As long as nobody kills task_d, the flag of SYS_EXEC comes down again
\* whatever becomes of the request: the load may fail, the child may exit, be
\* killed or be reaped before task_d looks for it.
ExecServed == [](state[TaskD] # "zombie") => [](pending => <>~pending)

\* With a task_b that nobody kills, the dead are unlinked and freed, unless
\* task_d revives them.
ZombieLeaves ==
  [](state[TaskB] # "zombie") =>
    \A p \in Apps : (state[p] = "zombie") ~> (state[p] # "zombie")

=============================================================================
