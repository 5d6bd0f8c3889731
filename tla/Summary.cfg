SPECIFICATION SummarySpec
CONSTANTS
  Counts = {0, 1, 2, 3}
  ParamSets <- TapTuning
  DragHold = 2
  TapMax <- TapMax120
  Gap <- Gap120
  Grace = 1
  RelMax = 1
  LeadMax = 1
  Reentry = 0
  HistSize = 5
  AgeMax = 3
  Late = 1
  ContactMax = 5
  IdleMin = 1
  IdleMargin = 1
  IdleMax = 8
  ContactCap = 2
INVARIANTS
  AttemptCovers
PROPERTIES
  TapIsShort
  SummaryIsComplete
  ReleasedWhenUntouched
  AttemptEnds
