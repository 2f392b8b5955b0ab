SPECIFICATION Spec
CONSTANTS
  Nil = Nil
  wFits = wFits
  wBig = wBig
  Wasms = {wFits}
  WasmSize <- MCWasmSize
  JunkSizes = {}
  MaxSize = 4
  MaxWasmSize = 5
  GzipOverhead = 1
  Sources = {s1}
  Nodes = {n1, n2}
  MaxTxs = 1
  MaxBlocks = 1
  MaxCrashes = 0
  MaxChanges = 1
SYMMETRY Symmetry
CHECK_DEADLOCK FALSE
INVARIANTS
  ReplicasAgree
