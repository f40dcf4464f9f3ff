CONSTANTS
  LastCluster = 4
  Slots = {1, 2}
  FileNames = {a, b}
  ClusterSize = 4
  Lengths = {0, 3}
  Dirs = {"sub"}
  Sectors = {"s", "t"}
  Contents = {"x", "y"}
  Threads = {"shell"}
  Blocks = {a, b}
  Counts = {2, 3}
  MaxCount = 2
  Tries = 1
SPECIFICATION Spec
CONSTRAINT StateConstraint
INVARIANTS
  StorageTypeOK
  ChainsSound
  NothingLeaks
  FatLockExact
  VolumesKept
  SectorsTrueAlone
  UsbTrue
PROPERTIES
  OthersUntouched
SYMMETRY Symmetry
CHECK_DEADLOCK FALSE
