SPECIFICATION Spec
CONSTANTS
  keys = keys
  input = input
  b0 = b0
  b1 = b1
  b2 = b2
  Buttons = {b0, b1, b2}
  Codes <- Mapped
  MaxInputs = 4
  Groups = {0}
  Threads = {keys, input}
  ScaleMin = 2
  ScaleMax = 4
  ScaleDefault = 3
  Requests = {0, 60}
  AtStart = {2}
  Moves <- Movement
  Faults = TRUE
INVARIANTS
  LossIsBounded
  ChangeIsSaved
  MappedAreConsumed
