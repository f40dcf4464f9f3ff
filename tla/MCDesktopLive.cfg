CONSTANTS
  Last = 1
  Apps = {p1, p2}
  Keyboards = {p2}
  Managers = {p1}
  Scanned = {1}
  Explorer = Explorer
  NoApp = NoApp
  NoSlot = NoSlot
SPECIFICATION LiveSpec
PROPERTIES
  ExplorerLives
  ClosedIsFreed
  ClosedEnds
