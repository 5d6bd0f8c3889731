SPECIFICATION FairSpec
CONSTANTS
  Counts = {0, 1}
  ParamSets <- Tuning
  DragHold = 4
  TapMax <- TapMax60
  Gap <- Gap60
  Grace = 1
  RelMax = 2
  LeadMax = 2
  Reentry = 0
  HistSize = 5
  AgeMax = 5
  Late = 1
PROPERTIES
  ReleasedWhenUntouched
