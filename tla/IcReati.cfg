SPECIFICATION FairSpec
CONSTANTS
  p1 = p1
  p2 = p2
  dflt = dflt
  new = new
  shell = shell
  main = main
  Params = {p1}
  Values = {dflt, new}
  Default <- OneDefault
  PowerOn <- OneDefault
  Threads = {shell}
  Faults = FALSE
PROPERTIES
  ReatiIsQueued
