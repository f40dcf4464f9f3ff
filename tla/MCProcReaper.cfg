CONSTANTS
  Typed = {}
  TaskA = TaskA
  ShellTask = ShellTask
  TaskB = TaskB
  TaskC = TaskC
  TaskD = TaskD
  Apps = {a1}
  NoProc = NoProc
  Reaper = TRUE
  MaxPid = 6
  SleepMs = {}
  KillPids = {1, 4, 5, 6}
SPECIFICATION ReaperSpec
PROPERTIES
  ServesInTurn
  ZombieLeaves
