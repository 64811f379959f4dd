SPECIFICATION Spec
CONSTANTS
  Requests = {r1, r2}
  Users = {officer, checker, manager, canceller}
  Repayments = {p1}
  Reversers = {checker, manager}
  DirectCancellers = {canceller}
  CancelRequesters = {officer}
  Managers = {manager}
  NoRequest = NoRequest
  Nobody = Nobody
  NoTarget = NoTarget
  MaxInFlight = 2
SYMMETRY Symmetry
INVARIANTS
  TypeOK
  ApprovedHasEffects
  PaymentCancelledOnce
PROPERTIES
  EffectsOnlyWhilePending
  FourEyesKept
CHECK_DEADLOCK FALSE
