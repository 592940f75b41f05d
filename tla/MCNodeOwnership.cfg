SPECIFICATION Spec
CONSTANTS
  t1 = t1
  t2 = t2
  o1 = o1
  Tx <- MCTx
  Operators <- MCOperators
  RunID <- MCRunID
  None = None
  Odd = Odd
  acquireAttempts = 2
  resolveAttempts = 2
  MaxEdits = 1
  MaxCommands = 2
  MaxUID = 1
INVARIANT CleanMeansExclusive
INVARIANT NothingLeftUnnamed
INVARIANT ResidueExplainsHold
PROPERTY ImplementsLease
CHECK_DEADLOCK FALSE
SYMMETRY MCSymmetry
