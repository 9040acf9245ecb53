SPECIFICATION Spec
CONSTANTS
  Workers = {w1}
  Loans = {l1, l2}
  Borrowers = {alice}
  l1 = l1
  l2 = l2
  alice = alice
  Platform = platform
  Owner <- OwnerDef
  Amount <- AmountDef
  Principal <- PrincipalDef
  Seed <- SeedDef
  Scale = 1
  Faults = {"db"}
  PatchStatuses = {"APPROVED"}
  Funding = 6
  PayDays = {}
  PayAmounts = {}
  DailyInterest = 0
  Error = {0}
  Month = 30
  GracePeriodDays = 3
  FlatLateFee = 25
  MaxPayments = 0
  Ops = {"create", "approve", "disburse", "rollback"}
INVARIANTS
  FailedMeansMoneyBack
CHECK_DEADLOCK FALSE
