SPECIFICATION Spec
CONSTANTS
  Workers = {w1, w2}
  Loans = {l1, l2}
  Borrowers = {alice}
  l1 = l1
  l2 = l2
  alice = alice
  Platform = platform
  Owner <- OwnerDef
  Amount <- AmountDef
  Principal <- PrincipalDef
  Seed <- SeedDef
  Scale = 1
  Faults = {"db", "ack", "crash", "inject"}
  PatchStatuses = {"APPROVED", "CLOSED"}
  Funding = 3
  PayDays = {}
  PayAmounts = {}
  DailyInterest = 0
  Error = {0}
  Month = 30
  GracePeriodDays = 3
  FlatLateFee = 25
  MaxPayments = 0
  Ops = {"create", "approve", "patch", "disburse", "rollback"}
INVARIANTS
  ClaimInv
  FundedOnce
  CompletedMeansPaid
PROPERTIES
  ImplementsDisbursal
CHECK_DEADLOCK FALSE
