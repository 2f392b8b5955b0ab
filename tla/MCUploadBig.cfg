SPECIFICATION Spec
CONSTANTS
  Nil = Nil
  wFits = wFits
  wBig = wBig
  Wasms = {wFits, wBig}
  WasmSize <- MCWasmSize
  JunkSizes = {}
  MaxSize = 4
  MaxWasmSize = 5
  GzipOverhead = 1
  Sources = {}
  Nodes = {n1}
  MaxTxs = 1
  MaxBlocks = 1
  MaxCrashes = 0
  MaxChanges = 0
CHECK_DEADLOCK FALSE
INVARIANTS
  BigOutputRefused
