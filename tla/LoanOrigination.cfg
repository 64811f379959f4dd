SPECIFICATION Spec
CONSTANTS
  Users = {officer, checker, manager, teller}
  Makers = {officer, manager}
  Approvers = {officer, checker, manager}
  Disbursers = {officer, checker, teller}
  Managers = {manager}
  Tellers = {teller}
  Reviewers = {officer}
  Amounts = {1, 2}
  Keys = {d1, d2}
  NoAmount = NoAmount
  NoDisbursement = NoDisbursement
  Nobody = Nobody
  MaxVersion = 5
  MaxInFlight = 2
SYMMETRY Symmetry
INVARIANTS
  TypeOK
  RowsAgree
  OneStandingApproval
  OnePayout
PROPERTY
  ThreeHandsKept
CHECK_DEADLOCK FALSE
