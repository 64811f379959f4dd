SPECIFICATION Spec
CONSTANTS
  Clerks = {c1, c2}
  Days = {1, 2, 3}
  Keys = {k1}
  Accounts = {a1}
  Amounts = {1, 2}
  MaxClosures = 2
  None = None
SYMMETRY Symmetry
INVARIANTS
  TypeOK
  CheckedAgainstClosures
  ReserveMatchesPostings
PROPERTIES
  PostedStays
  
CHECK_DEADLOCK FALSE
