SPECIFICATION Spec
CONSTANTS
  Nil = Nil
  wFits = wFits
  wBig = wBig
  Wasms = {wFits, wBig}
  WasmSize <- MCWasmSize
  JunkSizes = {0}
  MaxSize = 4
  MaxWasmSize = 5
  GzipOverhead = 1
  Sources = {}
  Nodes = {n1, n2}
  MaxTxs = 2
  MaxBlocks = 2
  MaxCrashes = 2
  MaxChanges = 0
SYMMETRY Symmetry
CHECK_DEADLOCK FALSE
INVARIANTS
  ReplicasAgree
  GoodUploadIsStored
