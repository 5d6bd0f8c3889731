SPECIFICATION FairSpec
CONSTANTS
  p1 = p1
  dflt = dflt
  new = new
  old = old
  shell = shell
  relay = relay
  Main = Main
  NoBlob = NoBlob
  Foreign = Foreign
  Nobody = Nobody
  Params = {p1}
  Values = {dflt, new}
  Stale = {old}
  Default <- OneDefault
  Commanders = {shell}
  Faults = FALSE
PROPERTIES
  SaveAnswered
CHECK_DEADLOCK FALSE
