SPECIFICATION FairSpec
CONSTANTS
  p1 = p1
  p2 = p2
  dflt = dflt
  new = new
  shell = shell
  main = main
  Params = {p1, p2}
  Values = {dflt, new}
  Default <- DefaultIs
  PowerOn <- DefaultIs
  Threads = {shell, main}
  Faults = TRUE
INVARIANTS
  UpdatesLand
  ConfigurationLands
PROPERTIES
  SettlesWhenQuiet
