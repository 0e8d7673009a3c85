CONSTANTS
  Values = {1, 2}
  Junk = Junk
  None = None
  BlockElems = 2
  TypeSize = 1
  Capacity = 2
  PrefetchCount = 2
  MaxSize = 5
  Programs <- Assigning
SPECIFICATION SortSpec
PROPERTIES
  IsSequence
