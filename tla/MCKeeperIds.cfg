SPECIFICATION FairSpec
CONSTANTS
  Users = {u1}
  ModuleAccts = {}
  Wasms = {w1}
  Keys = {}
  Vals = {}
  InitMsgs = {i1}
  Nil = Nil
  IdSpan = 2
  WordSize = 16
  GasMultiplier = 4
  MaxGas = 9
  GasLimits = {3, 5}
  StoreCosts = {1}
  Amounts = {0}
  UserFunds = 0
  MaxEmit = 1
  MaxMsgs = 1
  MaxCodes = 2
  MaxInstances = 3
INVARIANTS
  CodesContiguous
  GrantIsCovered
PROPERTIES
  LedgerSpec
  Termination
