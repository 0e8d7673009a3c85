CONSTANTS
  Parts = {"buffers"}
  None = None
  Null = Null
  Words = {"prog", "--help", "--f", "-v", "--l", "--m", "x", "x-y"}
  Dash1 = {"--help", "--f", "-v", "--l", "--m"}
  Dash2 = {"--help", "--f", "--l", "--m", "x-y"}
  Argv0 = "prog"
  Help = "--help"
  Tables <- MCTables
  MaximumArguments = 4
  Inputs <- MCInputs
  Presets <- MCPresets
  LongestCommands = {6, 70, 75}
  HelpLength = 10
  Word = 256
  Keys = {1, 2, 3, 4}
  Vals = {1, 2}
  Values <- MCValues
  Junk = Junk
  BlockElems = 2
  TypeSize = 1
  Capacity = 1
  PrefetchCount = 2
  MaxSize = 5
  Programs <- MCPrograms
  Addr = {1, 2, 3, 4, 5}
  BlockKeys = {1, 2}
  Data = {a, b}
  Size <- MCSize
  MaxCap = 3
  Free = Free
  UserBlockSizes = {1, 3, 4, 6}
  TypeSizes = {1, 2, 3}
  DsTags = {0, 1}
  MaxIndex = 4
  Half = 3
  Mod = 3
  Sizes = {1, 2}
  Operands <- MCOperands
  CellsInBlock = 4
SPECIFICATION LibrarySpec
INVARIANTS
  BufferOutlivesMessage
