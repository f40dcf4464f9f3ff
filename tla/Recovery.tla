------------------------------ MODULE Recovery ------------------------------
(***************************************************************************)
(* The protected blocks of the kernel: K_TRY, K_EXCEPT and what            *)
(* exception_handler does with a fault of ring 0 (kernel_try.h, k_setjmp,  *)
(* idt.c), over the phases of the boot and the threads that come after     *)
(* it.  There is one recovery point for all of them.  A block is left      *)
(* through K_EXCEPT, or by a return from its middle that leaves the point  *)
(* armed on a frame that is gone.  The address space is Memory's.          *)
(***************************************************************************)
EXTENDS Integers, Sequences, FiniteSets

CONSTANTS
    KernelThreads,   \* the shell and task_d, once the boot is over
    MaxDepth         \* bound: blocks nested in one thread

ASSUME RecoveryAssumption ==
    MaxDepth \in Nat \ {0} /\ "boot" \notin KernelThreads /\ "call" \notin KernelThreads

\* "call" is whichever program is in a system call: those run with interrupts off.
Runners == {"boot", "call"} \cup KernelThreads

\* kernel_main; pmm_init has a block of its own before the others.
BootPhases == << "frames", "memory", "video", "buses", "storage", "audio", "processes" >>
Up == Len(BootPhases) + 1

VARIABLES
    env,         \* g_k_exception_env: [owner, level, live, active]
    depth,       \* blocks each thread is in
    setting,     \* threads between k_setjmp and active = 1
    bootAt,      \* the phase
    entered,     \* its block was opened
    stopped,     \* "no", "panic", "memory" or "wild"
    sole,        \* history: the thread that set the point and what it did, with nobody since
    strayed,     \* history: since the point was last set or cleared a block was left by a
                 \* return, or a thread armed a point it had not set
    verdict      \* history: of the last fault

recoveryvars ==
    <<env, depth, setting, bootAt, entered, stopped, sole, strayed, verdict>>

NoVerdict == [own |-> FALSE, sure |-> FALSE, stray |-> FALSE, other |-> FALSE, wild |-> FALSE]

RecoveryInit ==
    /\ env = [owner |-> "boot", level |-> 0, live |-> FALSE, active |-> FALSE]
    /\ depth = [t \in Runners |-> 0] /\ setting = {}
    /\ bootAt = 1 /\ entered = FALSE /\ stopped = "no"
    /\ sole = << "boot", "none" >> /\ strayed = FALSE /\ verdict = NoVerdict

\* The boot runs alone; after it a system call keeps the others out until it is done.
CanRun(t) ==
    /\ stopped = "no"
    /\ t = "boot" <=> bootAt < Up
    /\ depth["call"] > 0 \/ "call" \in setting => t = "call"

-----------------------------------------------------------------------------
(* The macros *)

\* k_setjmp: the registers of this thread go over whatever was there; the point is disarmed.
Sets(t) ==
    /\ CanRun(t) /\ t \notin setting /\ depth[t] < MaxDepth
    /\ env' = [owner |-> t, level |-> depth[t] + 1, live |-> TRUE, active |-> FALSE]
    /\ setting' = setting \cup {t} /\ depth' = [depth EXCEPT ![t] = @ + 1]
    /\ entered' = (entered \/ t = "boot")
    /\ sole' = << t, "set" >> /\ strayed' = FALSE
    /\ UNCHANGED <<bootAt, stopped, verdict>>

\* g_k_exception_env.active = 1, on whatever point is there by now.
Arms(t) ==
    /\ CanRun(t) /\ t \in setting
    /\ env' = [env EXCEPT !.active = TRUE]
    /\ setting' = setting \ {t}
    /\ sole' = << t, IF sole = << t, "set" >> THEN "armed" ELSE "none" >>
    /\ strayed' = (strayed \/ sole # << t, "set" >>)
    /\ UNCHANGED <<depth, bootAt, entered, stopped, verdict>>

\* The frame of the block goes; the point may be on it.
LeavesFrame(e, t) ==
    [e EXCEPT !.live = @ /\ ~(e.owner = t /\ e.level = depth[t])]

InBlock(t) == CanRun(t) /\ t \notin setting /\ depth[t] > 0

\* Mutant: the end of a block leaves the point armed.
BadDisarmed(e) == e
Disarmed(e) == [e EXCEPT !.active = FALSE]

\* K_EXCEPT from the end of the block: the point is disarmed, an outer block's with it.
Ends(t) ==
    /\ InBlock(t)
    /\ env' = Disarmed(LeavesFrame(env, t))
    /\ depth' = [depth EXCEPT ![t] = @ - 1]
    /\ sole' = << t, "none" >> /\ strayed' = FALSE
    /\ UNCHANGED <<setting, bootAt, entered, stopped, verdict>>

\* A return from the middle of a block: kernel_main has none in its own.
Leaves(t) ==
    /\ InBlock(t)
    /\ t = "boot" /\ BootPhases[bootAt] # "frames" => depth[t] > 1
    /\ env' = LeavesFrame(env, t)
    /\ depth' = [depth EXCEPT ![t] = @ - 1]
    /\ sole' = << t, "none" >> /\ strayed' = TRUE
    /\ UNCHANGED <<setting, bootAt, entered, stopped, verdict>>

-----------------------------------------------------------------------------
(* exception_handler, for a fault of ring 0 *)

Verdict(t) ==
    [own   |-> env.active /\ env.owner = t /\ env.live,
     sure  |-> sole = << t, "armed" >> /\ depth[t] > 0,
     stray |-> strayed,
     other |-> env.owner # t,
     wild  |-> env.active /\ ~(env.owner = t /\ env.live)]

\* Back into the block the point is on, whose K_EXCEPT goes on after it; that of the memory
\* phase stops the machine.
Recovers(t) ==
    /\ CanRun(t) /\ t \notin setting
    /\ env.active /\ env.owner = t /\ env.live
    /\ env' = [env EXCEPT !.active = FALSE, !.live = FALSE]
    /\ depth' = [depth EXCEPT ![t] = env.level - 1]
    /\ stopped' = IF t = "boot" /\ env.level = 1 /\ BootPhases[bootAt] = "memory"
                  THEN "memory" ELSE "no"
    /\ sole' = << t, "none" >> /\ strayed' = FALSE /\ verdict' = Verdict(t)
    /\ UNCHANGED <<setting, bootAt, entered>>

\* No point is armed: KERNEL PANIC.
Panics(t) ==
    /\ CanRun(t) /\ t \notin setting /\ ~env.active
    /\ stopped' = "panic" /\ verdict' = Verdict(t)
    /\ UNCHANGED <<env, depth, setting, bootAt, entered, sole, strayed>>

\* The point is on a frame that is gone, or on another thread's stack: nothing is followed.
GoesWild(t) ==
    /\ CanRun(t) /\ t \notin setting
    /\ env.active /\ ~(env.owner = t /\ env.live)
    /\ stopped' = "wild" /\ verdict' = Verdict(t)
    /\ UNCHANGED <<env, depth, setting, bootAt, entered, sole, strayed>>

\* kernel_main goes on to its next phase, whatever came of this one.
NextBootPhase ==
    /\ CanRun("boot") /\ entered /\ depth["boot"] = 0 /\ setting = {}
    /\ bootAt' = bootAt + 1 /\ entered' = FALSE
    /\ UNCHANGED <<env, depth, setting, stopped, sole, strayed, verdict>>

RecoveryNext ==
    \/ NextBootPhase
    \/ \E t \in Runners :
          Sets(t) \/ Arms(t) \/ Ends(t) \/ Leaves(t) \/ Recovers(t) \/ Panics(t) \/ GoesWild(t)

RecoverySpec == RecoveryInit /\ [][RecoveryNext]_recoveryvars

-----------------------------------------------------------------------------
(* Properties *)

RecoveryTypeOK ==
    /\ env.owner \in Runners /\ env.level \in 0 .. MaxDepth
    /\ depth \in [Runners -> 0 .. MaxDepth] /\ setting \subseteq Runners /\ bootAt \in 1 .. Up

\* The innermost block of a thread catches its fault as long as nobody, the thread itself
\* included, has opened, ended or left a block since it was opened; a fault goes wild only
\* after a return from the middle of a block, over another thread's point, or when a thread
\* armed one it had not set; and a point on a frame that is there is within the blocks of
\* its thread (kernel_try.h, exception_handler).
RecoveryTrue ==
    /\ verdict.sure => verdict.own
    /\ verdict.wild => verdict.stray \/ verdict.other
    /\ env.active /\ env.live => env.level <= depth[env.owner]
=============================================================================
