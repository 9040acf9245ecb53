SPECIFICATION RoundingSpec
CONSTANTS
  Loans = {l1}
  Borrowers = {alice}
  l1 = l1
  alice = alice
  MaxDrift = 2
  Platform = platform
  Owner <- OwnerDef
  Amount <- AmountDef
  Principal <- PrincipalDef
  Seed <- SeedDef
  PatchStatuses = {"APPROVED"}
  Funding = 3
  Month = 2
  GracePeriodDays = 1
  FlatLateFee = 1
  Workers = {w1}
  Scale = 12
  Faults = {"db", "crash"}
  PayDays = {1, 2, 3, 4}
  PayAmounts = {0, 1, 2}
  DailyInterest = 3
  Error <- ErrorDef
  MaxPayments = 3
  Ops = {"rollback", "refund", "pay"}
INVARIANTS
  InstallmentNotOverpaid
  PaidMeansCovered
  PaymentsInDateOrder
  NoPaymentOnReversedLoan
  UnfundedOwesNothing
  OwesWhatIsLacking
  NoRecordWithoutMoney
PROPERTIES
  RoundedInFavour
CHECK_DEADLOCK FALSE
