SPECIFICATION GenesisSpec
CONSTANTS
  Users = {u1}
  ModuleAccts = {}
  Wasms = {w1, w2}
  Keys = {kText, kBin, kFffd}
  Vals = {vText}
  InitMsgs = {iBin, iFffd}
  Nil = Nil
  IdSpan = 3
  WordSize = 64
  GasMultiplier = 2
  MaxGas = 1
  GasLimits = {2}
  StoreCosts = {1}
  Amounts = {0}
  UserFunds = 0
  MaxEmit = 0
  MaxMsgs = 1
  MaxCodes = 2
  MaxInstances = 1
  Utf8 = {kText, kFffd, vText, iFffd}
  MangledKey = kFffd
  MangledVal = vText
  MangledMsg = iFffd
  Failed = Failed
  MaxImports = 1
SYMMETRY Symmetry
INVARIANTS
  ExportNeverPanics
  DuplicateOnlyOnOverflowOrImport
  ListedIsServed
  AnswersLast
PROPERTIES
  RegistrySurvives
  
