SPECIFICATION Spec
CONSTANTS
  Users = {u1, u2}
  ModuleAccts = {m1}
  Wasms = {w1}
  Keys = {k1}
  Vals = {}
  InitMsgs = {i1}
  Nil = Nil
  IdSpan = 2
  WordSize = 64
  GasMultiplier = 2
  MaxGas = 1
  GasLimits = {4}
  StoreCosts = {1}
  Amounts = {0, 1}
  UserFunds = 1
  MaxEmit = 1
  MaxMsgs = 1
  MaxCodes = 1
  MaxInstances = 2
SYMMETRY Symmetry
INVARIANTS
  TypeOK
  SupplyConserved
  ModuleAcctsUntouched
PROPERTIES
  OnlyActorPays
  LedgerSpec
