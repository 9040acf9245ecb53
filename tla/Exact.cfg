SPECIFICATION LifeSpec
CONSTANTS
  Loans = {l1}
  Borrowers = {alice}
  l1 = l1
  alice = alice
  MaxDrift = 2
  Platform = platform
  Owner <- OwnerDef
  Amount <- AmountDef
  Principal <- PrincipalDef
  Seed <- SeedDef
  PatchStatuses = {"APPROVED", "ACTIVE"}
  Funding = 3
  Month = 2
  GracePeriodDays = 1
  FlatLateFee = 1
  Workers = {w1}
  Scale = 12
  Faults = {"db", "crash"}
  PayDays = {2, 4, 6}
  PayAmounts = {0}
  DailyInterest = 3
  Error <- ErrorDef
  MaxPayments = 3
  Ops = {"create", "approve", "patch", "disburse", "rollback", "refund", "pay"}
INVARIANTS
  TypeOK
  OutstandingExplained
  ClosedOwesNothing
  ClosedMeansPaidUp
  ChargedOnce
PROPERTIES
  ImplementsLoanAccount
CHECK_DEADLOCK FALSE
