SPECIFICATION Spec
CONSTANTS
  v1 = v1
  v2 = v2
  v3 = v3
  d1 = d1
  Validators = {v1, v2, v3}
  Rank <- MCRank
  Delegations <- MCDelegations
  MaxValidators = 2
  Unit = 4
  Fee = 2
  CommissionShare = 2
  RewardShare = 5
  MaxHeight = 4
  MaxExports = 1
CHECK_DEADLOCK FALSE
INVARIANTS
  Solvent
  HistoryComplete
  NoFutureHeights
  BarredStayOut
PROPERTIES
  NothingForfeited
