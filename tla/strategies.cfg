CONSTANTS
  Keys = {k1, k2, k3, k4}
  Data = {a, b}
  Capacity = 3
  Nodes = {n1, n2, n3, n4, n5}
  None = None
  Reuse = TRUE
  MaxFreq = 3
  MaxCount = 5
SYMMETRY Symmetry
SPECIFICATION Spec
INVARIANTS
  TypeOK
  ListPlaceIsCurrent
  NeverBroken
  LfuQueuesAgree
  LfuHoldsLatest
  PlruCrashesOnlyWhenAllGot
PROPERTIES
  ListKeepsRecency
  ListEvictedGoToWorkers
  LfuEvictsLeastFrequent
  PlruSparesLastGot
  ManageResidents
