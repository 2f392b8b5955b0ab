SPECIFICATION FairSpec
CONSTANTS
  Nil = Nil
  wFits = wFits
  wBig = wBig
  Wasms = {wFits}
  WasmSize <- MCWasmSize
  JunkSizes = {}
  MaxSize = 1
  MaxWasmSize = 1
  GzipOverhead = 0
  Sources = {s1}
  Nodes = {n1, n2}
  MaxTxs = 2
  MaxBlocks = 2
  MaxCrashes = 1
  MaxChanges = 1
CHECK_DEADLOCK FALSE
PROPERTIES
  CatchUp
