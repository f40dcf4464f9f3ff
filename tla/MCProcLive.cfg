CONSTANTS
  Typed = {}
  TaskA = TaskA
  ShellTask = ShellTask
  TaskB = TaskB
  TaskC = TaskC
  TaskD = TaskD
  Apps = {a1}
  NoProc = NoProc
  Reaper = FALSE
  MaxPid = 6
  SleepMs = {20}
  KillPids = {1, 4, 5, 6}
SPECIFICATION LiveSpec
PROPERTIES
  NoStarvation
  ExecServed
