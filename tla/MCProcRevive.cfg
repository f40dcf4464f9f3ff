CONSTANTS
  Typed = {"kill", "exec"}
  TaskA = TaskA
  ShellTask = ShellTask
  TaskB = TaskB
  TaskC = TaskC
  TaskD = TaskD
  Apps = {a1, a2}
  NoProc = NoProc
  Reaper = FALSE
  MaxPid = 6
  SleepMs = {20}
  KillPids = {4, 6}
SYMMETRY Symmetry
SPECIFICATION Spec
PROPERTY ZombieStaysDead
