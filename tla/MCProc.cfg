CONSTANTS
  Typed = {"kill", "exec"}
  TaskA = TaskA
  ShellTask = ShellTask
  TaskB = TaskB
  TaskC = TaskC
  TaskD = TaskD
  Apps = {a1, a2}
  NoProc = NoProc
  Reaper = FALSE
  MaxPid = 6
  SleepMs = {20}
  KillPids = {1, 3, 6}
SYMMETRY Symmetry
SPECIFICATION Spec
INVARIANTS
  TypeOK
  AlwaysSomeone
  ProtectedAlive
  FocusTrue
  BusyWhileServing
PROPERTIES
  NeverRunsDead
  OnlyAdoptionRevives
