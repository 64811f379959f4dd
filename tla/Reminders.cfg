SPECIFICATION Spec
CONSTANTS
  Installments = {i1}
  Days = {1, 2}
  Workers = {w1, w2}
  Ahead = 2
  Back = 2
  Attempts = 2
  MaxStalls = 1
  MaxChanges = 1
  MaxMishaps = 2
  None = None
INVARIANTS
  TypeOK
  ResentOnlyAfterMishap
  RowTellsWhatHappened
PROPERTY
  EventuallyOver
CHECK_DEADLOCK FALSE
