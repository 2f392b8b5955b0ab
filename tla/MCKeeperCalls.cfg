SPECIFICATION Spec
CONSTANTS
  Users = {u1}
  ModuleAccts = {}
  Wasms = {w1}
  Keys = {k1}
  Vals = {v1}
  InitMsgs = {i1}
  Nil = Nil
  IdSpan = 2
  WordSize = 64
  GasMultiplier = 2
  MaxGas = 1
  GasLimits = {5}
  StoreCosts = {1}
  Amounts = {0}
  UserFunds = 0
  MaxEmit = 2
  MaxMsgs = 1
  MaxCodes = 1
  MaxInstances = 2
INVARIANTS
  ContractsRunnable
  PendingHidden
  NoOrphanState
  DepthBoundedByGas
PROPERTIES
  OnlyOwnerWrites
