SPECIFICATION MockSpec
CONSTANTS
  NoKey = NoKey
  Key = {k1, k2}
  Caller = {c1, c2, c3}
  MaxCreates = 5
  MaxConfigs = 2
SYMMETRY Symmetric
INVARIANTS DoublesAreRaces OneRefundPerKey
PROPERTY KeepsContract
