SPECIFICATION MockSpec
CONSTANTS
  NoKey = NoKey
  Key = {k1}
  Caller = {c1, c2}
  MaxCreates = 2
  MaxConfigs = 0
SYMMETRY Symmetric
INVARIANT ZeroDoubleRefundsAtRest
