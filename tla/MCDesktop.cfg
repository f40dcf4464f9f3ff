CONSTANTS
  Last = 2
  Apps = {p1, p2}
  Keyboards = {p2}
  Managers = {p1}
  Scanned = {1}
  Explorer = Explorer
  NoApp = NoApp
  NoSlot = NoSlot
SPECIFICATION Spec
INVARIANTS
  TypeOK
  LockExcludes
  OpenHasOwner
  FocusOnTop
  GrabsWhileHeld
CHECK_DEADLOCK TRUE
