CONSTANTS
  TextLimit = 2
  CaptionSize = 2
  FirstSize = 3
  LastSize = 6
  CommandSize = 4
  ReadLimit = 2
  FileLimit = 3
  RowsShown = 2
  MemoPrograms = {"terminal", "editor"}
  FirstItems = 2
  LastItems = 5
  RowsOfList = 2
  RollItems = 3
  GridWidth = 4
  GridHeight = 2
  StartX = 2
  StartY = 0
  StartLength = 3
  MaxLength = 5
  FoodsToWin = 2
  ArenaWidth = 4
  ArenaHeight = 5
  Pieces = {"I", "L", "O"}
  MaxEntries = 2
  Games = {"space", "tetris", "snake"}
  Sizes = {0, 1, 3}
  Cooldown = 3
  LockFrames = 2
  AlienRows = 1
  AlienColumns = 2
  MaxLasers = 2
  Shields = {1}
  Strength = 1
  LastPhase = 3
  Bricks = {1, 2, 3}
  StackDepth = 2
  Addresses = {0, 1}
  Pads = {1, 2}
  Hold = 2
  Cycles = 2
  TimerTop = 1
  RingSize = 3
  Ports = {1, 2, 3}
  FifoDepth = 1
  Apps = {a1, a2}
  a1 = a1
  a2 = a2
SPECIFICATION Spec
CONSTRAINT StateConstraint
SYMMETRY Symmetry
INVARIANTS
  UserTypeOK
  FormsTrue
  TextsTrue
  ListsHold
  SoundTrue
  SerialTrue
  GamesWhole
PROPERTIES
  SavesWhatItRead
CHECK_DEADLOCK FALSE
