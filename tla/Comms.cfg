SPECIFICATION Spec
CONSTANTS
  Counts = {0, 1, 2}
  Builds = {FALSE, TRUE}
  PollMax = 1
  FaultMax = 2
INVARIANTS
  WindowIsServed
  QuietMeansAgreed
  RunsWhenReady
PROPERTIES
  CommsMovesOn
