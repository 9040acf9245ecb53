SPECIFICATION ServicingSpec
CONSTANTS
  Loans = {l1}
  Borrowers = {alice}
  l1 = l1
  alice = alice
  MaxDrift = 0
  Platform = platform
  Owner <- OwnerDef
  Amount <- AmountDef
  Principal <- PrincipalDef
  Seed <- SeedDef
  PatchStatuses = {"APPROVED"}
  Funding = 3
  Month = 2
  GracePeriodDays = 1
  FlatLateFee = 1
  Workers = {w1, w2}
  Scale = 1
  Faults = {}
  PayDays = {4}
  PayAmounts = {0}
  DailyInterest = 0
  Error = {0}
  MaxPayments = 2
  Ops = {"refund", "pay"}
INVARIANTS
  UndoneOnce
CHECK_DEADLOCK FALSE
