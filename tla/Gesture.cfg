SPECIFICATION Spec
CONSTANTS
  Counts = {0, 1, 2, 3, 4}
  ParamSets <- TapTuning
  TapMax <- TapMax30
  DragHold = 8
  Gap <- Gap30
  Grace = 2
  RelMax = 5
  LeadMax = 4
  Reentry = 1
  HistSize = 5
  AgeMax = 9
  Late = 1
INVARIANTS
  TypeOK
  HoldOwned
  TimersArmed
  PinchReported
  LiftClosesSessions
  StagedReentryAlone
PROPERTIES
  DragKeepsButton
  SwipeFindsNoHold
  ThreeFingerDragHasButton
  ButtonsSpec
