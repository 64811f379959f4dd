SPECIFICATION Spec
CONSTANTS
  Commitments = {c1}
  Donations = {d1}
  Invoices = {i1, i2}
  Amounts = {1}
  Requests = {r1, r2}
  Handlers = {h1}
  Scanner = scanner
  MaxInvoices = 1
  MaxFailures = 1
  None = None
INVARIANTS
  TypeOK
  PaidRowWasPaid
  CommitmentFollowsInvoice
  ReceivedOnce
  PaidDonationSucceeded
PROPERTIES
  ListedIsSettled
  FundedOnceKept
CHECK_DEADLOCK FALSE
