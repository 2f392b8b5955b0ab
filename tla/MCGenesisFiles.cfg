SPECIFICATION Spec
CONSTANTS
  Nil = Nil
  Cut = Cut
  Prefixes = {p1, p2}
  NoIP = NoIP
  HostIP = HostIP
  StartIPs = {1}
  ByteSize = 2
  Users = {a1}
  Coins = {1}
  Vestings = {1, 2}
  Times = {0, 1, 2}
  MaxNodes = 3
  MaxRuns = 2
SYMMETRY Symmetry
CHECK_DEADLOCK FALSE
INVARIANTS
  OneGenesis
  KeysFit
  RefusedOnlyForLeftovers
  GenesisUsable
