SPECIFICATION ServicingSpec
CONSTANTS
  Loans = {l1}
  Borrowers = {alice}
  l1 = l1
  alice = alice
  MaxDrift = 0
  Platform = platform
  Owner <- OwnerDef
  Amount <- AmountDef
  Principal <- PrincipalDef
  Seed <- SeedDef
  PatchStatuses = {"APPROVED"}
  Funding = 3
  Month = 2
  GracePeriodDays = 1
  FlatLateFee = 1
  Workers = {w1}
  Scale = 1
  Faults = {}
  PayDays = {1, 2, 4}
  PayAmounts = {0, 1, 2}
  DailyInterest = 0
  Error = {0}
  MaxPayments = 3
  Ops = {"rollback", "refund", "pay"}
INVARIANTS
  CoveredMeansPaid
CHECK_DEADLOCK FALSE
