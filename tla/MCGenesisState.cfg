SPECIFICATION GenesisSpec
CONSTANTS
  Users = {u1}
  ModuleAccts = {}
  Wasms = {w1}
  Keys = {kBin, kFffd}
  Vals = {vText}
  InitMsgs = {iFffd}
  Nil = Nil
  IdSpan = 3
  WordSize = 64
  GasMultiplier = 2
  MaxGas = 1
  GasLimits = {3}
  StoreCosts = {1}
  Amounts = {0}
  UserFunds = 0
  MaxEmit = 1
  MaxMsgs = 1
  MaxCodes = 1
  MaxInstances = 1
  Utf8 = {kFffd, vText, iFffd}
  MangledKey = kFffd
  MangledVal = vText
  MangledMsg = iFffd
  Failed = Failed
  MaxImports = 1
PROPERTIES
  StateSurvives
