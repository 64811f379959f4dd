SPECIFICATION Spec
CONSTANTS
  N = 2
  Schedule <- MCSchedule
  DueDay <- MCDueDay
  NewDates <- Postponed
  LateFeeRule <- FlatFee
  Lookback = 1
  Payout = 1
  Keys = {k1, k2}
  NoPayment = NoPayment
  MaxAmount = 2
  MaxSavings = 1
  MaxInFlight = 1
  Horizon = 1
INVARIANT
  UndoneScheduleNeverAllocated
