# A TLA+ model of the admin loans system

This directory models the backend of the admin loans system (NestJS, Prisma,
PostgreSQL) and the dialogs and lists of its admin application: how loans are
disbursed, repaid and rolled back when requests run side by side, statements
fail, answers are lost and the process restarts, and what one browser tab shows
of it and sends. TLC checks the model on small instances. TLAPS proves for all
instances what the runs check, but for liveness and the invariants section 5
names, with two refinements and the bounds of rounding: what concurrent requests
may do to disbursements and to money as it is, and what repayment promises under
the condition that requests come one at a time, without which TLC violates it.

    tlc -config Disburse.cfg MCDisburse     # a run; PROJECT.json lists them all
    tlapm LoanProofs.tla                    # proofs; eight modules hold them

## 1. The system

| Component | State it keeps | Operations |
|---|---|---|
| Loans (`loans/loans.service.ts`) | `loans`: status, outstanding principal | create, patch status |
| Disbursements (`disbursements/disbursements.service.ts`) | `disbursements` (unique `loan_id`): status | `disburseLoan` |
| Available funds (`transactions/transactions.service.ts`) | `transactions` | `getAvailableFunds` |
| Account transfers (`accounts/accounts.service.ts`) | `accounts`: balance | `transferFunds` and its two wrappers |
| Repayment schedules (`repayments/`) | `repayment_schedules`: amounts, due dates, status | built by a disbursement, deleted by its rollback |
| Payments (`payments/payments.service.ts`) | `payments`: amounts, date, status | `processPayment` |
| Rollback (`rollback/rollback.service.ts`) | `rollback_records` | `rollbackDisbursement`, `rollbackPayment`, `logRollback` |
| Transaction wrapper (`rollback/helpers/`) | none | runs a callback in a transaction, records its failure |
| Audit log, logger (`audit/`, `logger/`) | `audit_logs` | awaited and fire-and-forget entries |
| Read endpoints (`*.controller.ts`, `*.repository.ts`) | none | lists: in pages with a count, or whole |
| Admin pages (`frontend/src/resources/`, `dataProvider.ts`) | component state of the browser, cached lists | approve, disburse, pay, roll back, page through a list |
| Authentication, DTOs, bootstrap | none that loans depend on | not modelled |

**How they interact.** All backend components are objects of one Node process
and call each other directly. What they share is the database: a handler runs
its statements one after the other and every other handler may run between two
of them. Transactions are Prisma's interactive transactions at READ COMMITTED;
they hold a connection of the pool and their row locks until they end, at most
five seconds. Audit entries are written on other connections of the same pool.
The browser talks to the backend with one request per click and per list, and
answers arrive in any order.

**What is hard.** Reads made before a lock or a transaction and used after it;
a unique index as the only thing that keeps two disbursements apart; a
compensation that runs as a second transaction after the first has committed;
lost answers and restarts between those; handlers that lock rows in different
orders; a waterfall over installments that were paid in parts, refunded and
paid again, in amounts rounded to cents; audit entries that tell of a
transaction before it commits; late answers in the browser, buttons that stay
enabled while a request runs, choices that outlive the list they were made
from, pages that move while they are turned. PROJECT.json lists each under
"hazards", at its line.

**What makes each component correct.**

- *Disbursements*: a loan is claimed by one request and paid out at most once,
  never after its row left PENDING; COMPLETED has paid, FAILED has not (or has
  its money back); what is paid out is covered by what came in.
- *Rollback*: what is undone is undone once, and by overlapping requests at most
  once each; no payment stands on a disbursement that was undone; a loan without
  money owes nothing and has no schedule; a refund restores what the payment took.
- *Payments*: no installment records more principal than it has; PAID means
  covered and covered means PAID; outstanding principal is what the standing
  payments explain, and never more than what the installments lack, but for a
  cent of each payment; the loan is closed only while nothing is outstanding,
  and only with every installment paid; nothing is charged twice; the
  loop spends what the waterfall allocated and no more, oldest first.
- *Transfers*: money is neither created nor destroyed, but for the cent rounding
  may add; nothing is recorded that the platform did not get.
- *Schedules*: the last installment repays what is left; the rounded installments
  are level and add up to the amount, nearly; they fall due in the order of
  their numbers, also where a date runs over into the next month.
- *Audit*: an answered request has its entry; entries are true; auditing makes
  no request fail and none wait for ever.
- *Admin pages*: what is undone was picked under the label shown and not
  offered again; what is disbursed or paid showed as selected; whoever pages to the end of a list has
  seen every row.

## 2. The modules

    Disbursal ................ abstract: what disbursement promises of a loan
    LoanAccount .............. abstract: the account a borrower keeps of a loan
    LoanDatabase ............. tables, row locks, transactions, transfers, crash
      Loans .................. POST /loans, PATCH /loans/:id/status
        Rollback ............. rollbackDisbursement, rollbackPayment
          Disbursements ...... disburseLoan (its compensation calls Rollback)
      Waterfall .............. pure: what a payment pays, turn by turn
        Payments ............. processPayment
    LoanSystem ............... all of them side by side; the properties
    Distribution ............. the loop of processPayment on its own
    ScheduleBuilder .......... the loop that builds a schedule, with its dates
    AuditTrail ............... audit entries and the connection pool
    RollbackDialog ........... the dialog that undoes a transaction
    LoanDialogs .............. the dialogs that disburse and pay, and their list
    ListPages ................ paging through a list, and the endpoint behind it
      AdminPages ............. one tab: a list page or a dialog of the dashboard
    DataLemmas ............... facts about sequences, sums, counting and quotients
    LoanProofs ............... any requests: claims and payouts, the refinement of
                               Disbursal; one at a time: what is owed, dates
      MoneyProofs ............ types, the sum of the accounts, undoing by overlap,
                               closed loans
        RepaymentProofs ...... one at a time: installments, rounding
          AccountProofs ...... full payments: what is owed, closing, the
                               refinement of LoanAccount
    InstallmentProofs ........ the loops of ScheduleBuilder and Distribution
    AuditTrailProofs, AdminPagesProofs
    MCDisburse, MCServicing, MCDistribution, MCScheduleBuilder, MCAuditTrail,
    MCAdminPages ............. instances for TLC

### State

`LoanDatabase` holds the tables as functions of the loan: `loan` (status and
outstanding principal), `disb` (status of its disbursement row, at most one),
`sched` (statuses of its installments; what an installment costs is the constant
`Principal`), `payments` (a sequence of rows), `balance` of each account,
`disbTxns` (DISBURSEMENT rows in `transactions`, per loan), `repaid` (sum of the
REPAYMENT rows) and `reversals` (rollback records that moved money back;
`rolledBackAt` is set exactly with the first). `pc` and `req` are where each
request handler is and what its local variables hold; `wants` and `holds` are
the rows its transaction has yet to lock and has locked.

The modules of the admin pages keep what React keeps. `RollbackDialog` has the
type, list and selection of the dialog and the requests under way, and beside them
the status of every record (`status`) and the disbursements whose handler has not
ended (`running`): rows are created PENDING, completed, failed and rolled back by
others as well. `LoanDialogs` has the cached list of the loans (`listed`), the load
in progress (`query`), the two dialogs (`dis`, `pay`) and their requests (`sent`),
with `book` for what the backend has of each loan: its status, its disbursement,
whether it owes anything and how many payments stand. Its history variable
`changed` remembers whose status others have set by hand, or by a refund, since
the lists were read; only the property looks at it. `ListPages` has the page and
its size (`walk`), the two reads of the endpoint (`reads`) and the page shown (`list`).

### Actions

One action per statement, or per group of statements between which no other
handler can make a difference:

- Statements outside a transaction (the claim, COMPLETED, FAILED, the loan
  endpoints) are one action each. An update of a locked row waits.
- A transaction reads step by step: each read is an action, so that others run
  in between. Then its writes are prepared: it takes the row locks in the order
  the code updates the rows (`Lock`), and commits in one action
  (`CommitDisbursement`, `CommitPayment`, `CommitReversal`, `CommitRefund`) that
  applies all writes. Between its first lock and the commit nobody can read what
  it wrote and nobody can change a locked row, so applying the writes at the
  commit is what other handlers see. The values written are those the handler
  computed from its earlier reads; balances are incremented, as in the code.
- `TransactionFails` ends any open transaction: Prisma's timeout, the victim
  PostgreSQL picks in a circle of waiting transactions, or, with the fault "db",
  a failing statement. `Crash` ends every handler and releases its locks.
- The faults of a run: "db" (a statement fails), "ack" (it takes effect and
  the handler sees an error), "crash", and "inject" (the TEST_INJECT_ERROR hook
  after a disbursement).

Requests that fail their first checks change nothing and are stutters. The read
of the loan and of an existing disbursement, two statements in the code, are one
guard of `StartDisburse`: what was read is used only to refuse, and the claim
decides again.

### Abstractions to know about

- Amounts are whole cents, or parts of a cent (`Scale` parts each) where handlers
  compute with fractions before PostgreSQL rounds to `DECIMAL(…, 2)`. Interest per
  day is a constant number of parts per outstanding cent.
- processPayment computes with doubles. What their errors decide is modelled: the
  principal a payment pays is ((P + I + F) - I) - F in place of P, and misses it by
  some error e that `CommitPayment` carries through `newOutstanding === 0`. `Error` is the
  set of errors, less than a quarter of a cent each (`ErrorAssumption`); a twelfth of a cent
  stands for what is 10^-13 in the code. All other arithmetic is exact, and the
  proportion of the interest that an installment gets is cut to a part of a cent,
  the last one taking the rest.
- In the servicing model days are counted from the disbursement date and a month
  has a fixed number of days. Calendar months, with `setMonth` running over into
  the next, are in `ScheduleBuilder`, in a calendar where every fourth year is a
  leap year, as it is from 1901 to 2099.
- `ScheduleBuilder` computes exactly where the code uses floating point: rates are
  fractions and amounts are counted in the parts of a cent that every step of
  the loop divides. `Power` is the code's `Math.pow`.
- `LoanAccount` knows of a loan only what a borrower would: what was lent, what is
  owed, and which credits stand. `LoanSystem` maps to it (`phase`, `owedBy`,
  `standing`: the principal of each completed payment by its row).
- `schema.prisma` is taken as the database. The migrations lack the value
  ROLLED_BACK of the installment status, so on a database built from them
  `rollbackPayment` fails at its last update.
- Deleting a schedule sets `payments.repayment_schedule_id` to null; the row locks
  this takes on payments are left out, which only adds interleavings.
- `transferFunds` refuses amounts that are not positive; a `dto.amount` of zero means
  that none was given.
- In `MCServicing` the borrower starts with four cents of their own, the proceeds
  of another loan outside the instance, so that there is something to pay
  interest and fees from.
- `AuditTrail` reduces what a request does to one effect and one entry that reports
  it, and leaves out entries about start and progress and the injected error.
- `RollbackDialog` and `LoanDialogs` reduce a request at the backend to one step, and
  disburseLoan to its claim and the statements after its commit: races between
  handlers are those of `LoanSystem`. In `LoanDialogs` a payment of the dialog or of
  another client may cover any part of what is owed, and other clients set any
  status `UpdateLoanStatusDto` allows, refund, and roll back.
- `AdminPages` looks at one page or dialog at a time. What the others do to the
  database is among what other clients do; going to another page and back
  starts from the initial state.
- Definitions marked `mutant` are deliberately wrong variants of the definition
  that follows them. No specification uses them; substituting one must break the
  property PROJECT.json pairs it with.

## 3. The runs

| Run | Instance | What it shows |
|---|---|---|
| Disburse | two handlers, two loans, all faults, patched statuses | claimed once, paid at most once, COMPLETED has paid; implements `Disbursal` |
| Exact | one loan from creation, one handler, full payments with interest and errors of doubles, statuses patched to APPROVED and ACTIVE, db and crash | implements `LoanAccount`; what is owed is explained by the payments that stand; closed only while nothing is owed and with every installment paid; nothing is charged twice |
| Partial | the loan disbursed; partial and full payments, interest in quarters of a cent, errors of doubles, refunds, rollbacks, db and crash | installments, dates and loans rolled back stay consistent; a borrower never owes more than is lacking, but for a cent of each payment; no record without its money; rounding adds at most a cent a step |
| Races | the same, two handlers, full payments, fairness | money is conserved; nothing is undone more often than requests overlap; a closed loan owes nothing; every request ends although they wait in circles |
| Distribution | lists of up to three installments, small payments | the loop keeps its bounds |
| Builder | amounts to 40 cents, one to four months, four rates, all months of a year | rounding of schedules is bounded; installments fall due in order, at most two in a month |
| AuditTrail | rollback, loan change, payment and disbursement on two connections, all faults, fairness | answered means audited; nothing is reported early outside transactions; what is recorded as rolled back never succeeds; every request ends |
| AdminPages | a disbursement and a payment to undo, two lists and two rollbacks under way; a loan and its payments, two requests; lists of four rows; other clients throughout; answers reordered and lost | picked under the label shown; offered again only if FAILED; what is accepted showed as selected, unless overruled; paging misses no row |

Four runs named `…Violation` are disagreements between the code and what its
comments say; each is a finding in PROJECT.json with the line it quotes:

- `FundsViolation`: each disbursement raises the available funds
  (`transactions.service.ts:36`), so loans are funded beyond what came in.
- `FailedPaidViolation`: when the update to COMPLETED fails, the row ends FAILED
  with the money at the borrower (`disbursements.service.ts:321`).
- `CoveredViolation`: an installment completed by a second partial payment never
  becomes PAID (`payments.service.ts:362`).
- `UndoneTwiceViolation`: two concurrent refunds of one payment both pay
  (read at `rollback.service.ts:187`, checked at line 196, written at line 223).

**Bounds.** Two handlers are enough for every race found: each is between two
requests on one row, or two rows locked in opposite orders. Two loans make one
request wait for the platform's account while another's loan is untouched, and
make two payouts compete for funds. A loan of 2 + 1 cents over two installments
has a first and a last installment (the loop treats the last one apart), can be
paid in parts of one cent, and survives three payments (`MaxPayments`). Payment
days are before, on and after a due date and past the grace period. `Scale` is 12
and `DailyInterest` 3 in Exact and Partial, so that interest is rounded in both
directions and half cents occur, of interest and of principal, which are rounded
up on both sides of a transfer and on both sides of a refund, and so that an
error of one part (`ErrorDef` is -1..1) is less than any amount that is due. How
many cents transfers have added is bounded by `MaxDrift` (2), and
`RoundedInFavour` bounds what one step adds.
`Partial` uses one handler, because with two the disagreements of
section 4 are reached; what holds in spite of concurrency is checked in Races and
Disburse. `AuditTrail` has two connections: a rollback and the compensation of a
disbursement can then hold both and each wait for a third, and with one request
of each kind every way of writing an entry occurs. `AdminPages` has one record of
each type to undo, so that the label can disagree with the list, and two lists
under way, so that they can be answered in either order; one loan is enough for
a choice that outlives its option, since a choice concerns one loan and the
lists of all are read together, and two requests (`MaxSent`) for a double click;
two payments that stand (`MaxStanding`) let a refund leave one;
four rows (`MaxRows`) in pages of one or two, with two the most the backend
returns (`MaxTake`), make walks of several pages that other rows push on.
Where `CHECK_DEADLOCK FALSE` is set the system rests when the finite
set of requests, payments or turns is done.

**Fairness.** `WF` on each handler's next step: Node resumes a handler when its
statement is answered; a transaction that cannot go on is ended by Prisma's
timeout or by PostgreSQL's deadlock detection, which is an action of the handler
it ends. In AuditTrail also on each entry handed to the logger: the event loop
settles its promise. Clients are under no obligation, a crash is never required.

## 4. Known disagreements not kept as runs

The following is also reached by the models, in instances that differ from a run
above as noted. What a property above comes close to is listed in PROJECT.json as
a hazard.

- *Outstanding principal after partial payments*
  (`payments.service.ts:231`, `387`). What a payment may pay is bounded by what the
  due installments had, and what it records is bounded by what they still lack, so
  the loan's outstanding principal and its installments diverge.
  `OutstandingExplained` in the instance of CoveredViolation.
- *Lost update* (`payments.service.ts:387`, `rollback.service.ts:228`). Outstanding
  principal is written from a read made before the transaction's locks; of two
  concurrent payments, or a payment and a refund, the later overwrites the
  earlier. `OutstandingExplained` in the instance of Races.
- *Interest moved without a record* (`payments.service.ts:378`). Before the first due
  date no installment is due, the loop records nothing, and the interest accrued is
  transferred all the same: `RecordedBalance` is then less than the platform has, in
  the instance of CoveredViolation with `DailyInterest = 1`. `NoRecordWithoutMoney`
  is the direction that holds.
- *Overdrawn borrower* (`accounts.service.ts:155`). The balance is compared before the
  row is locked; two transfers pass the comparison. A negative balance of `alice`
  is reached in the instance of Races.
- *Negative principal* (`payments.service.ts:317`). Of two concurrent payments, one in
  part and one in full, the part may be written last: the installment is
  PARTIALLY_PAID with more paid than it has, and the next payment records the
  difference as principal below zero. In the instance of CoveredViolation with two
  handlers, `FlatLateFee` 2, `PayDays` 2 and 4, `PayAmounts` 0 and 1, `MaxPayments` 4.
- *A payment on a reversed loan* (`rollback.service.ts:107`). A payment commits after
  the rollback looked for active payments. `NoPaymentOnReversedLoan` in the
  instance of Races.
- *Late fees* (`payments.service.ts:200`). The fee is flat for each late installment;
  the example in `payments/tests/late-fee-validation.ts:43` charges it once per
  month late.
- *Starving rollbacks* (`rollback.service.ts:261`, `audit.service.ts:48`). A rollback
  holds a connection while it waits for another one to write its audit entry. With
  as many rollbacks as connections none proceeds until the transactions time out.
  `EveryEndIsTold` shows that they do end; a request then fails although no
  statement did.
- *Entries about what did not happen* (`payments.service.ts:408`,
  `rollback.service.ts:170`). The entry is written before the transaction commits and
  stays when it fails. `ReportedAfterTheFact` is therefore stated for loans and
  disbursements.
- *Options of the wrong type* (`Rollback.tsx:51`). When the list asked for first
  arrives last, the dialog offers payments under "Disbursement". Nothing picked is
  sent under the wrong type if it was picked under the right one: `PickedAsShown`
  is about the type shown, not about the type of the record.
- *Charged twice* (`Payments.tsx:158`, `payments.service.ts:164`). The button stays
  enabled while a payment runs and requests have no identity. With two handlers
  both read an installment as due and both charge it: `ChargedOnce` in the
  instance of Races. One after the other, the second finds nothing due.
- *Half cents* (`schema.prisma:136`). A transfer of half a cent adds a cent to the
  sum of the accounts. Each step adds at most one, but payments before the first
  due date may be repeated at will: `RoundingSpec` without `MaxDrift` has no bound.
  When interest leaves half a cent of a payment for principal, the payment records
  a whole cent and the loan's outstanding principal loses none: the loan then asks
  for a cent more than its installments lack. `OwesWhatIsLacking` allows for a cent
  of each payment, and the instance of Partial needs it.
- *Loans that never close* (`payments.service.ts:392`). A loan is closed when the
  difference of what it owed and what was paid is exactly zero, of doubles. Interest
  of parts of a cent leaves an error in the principal paid; 0.00 is then stored,
  and the loan stays ACTIVE for good, since processPayment refuses a loan that
  owes nothing. An ACTIVE loan that owes nothing is reached in the instance of
  Exact, also without "patch". And installments are rounded one by one: with
  `ScheduleNearAmount` their sum may be a few cents off the amount, and a loan whose
  installments are all paid keeps those cents as its outstanding principal, or
  owes less than nothing. `ClosedOwesNothing` says what is true.
- *Due dates* (`repayments-scheduler.builder.ts:34`). A loan disbursed on the 29th,
  30th or 31st has installments on the first days of a month when the month before
  lacks that day: from January 31st, two in March and none in February.
  `DueInOrder` says what is true.
- *Totals and rows read apart* (`loans.repository.ts:18`). When the count of the
  last page is older than its rows the list ends one page early.
  `WalkMissesNothing` has a clause for it, and fails without.
- *Limits* (`loans.controller.ts:39`, `loans.repository.ts:16`). The number of rows to
  skip is computed from the limit asked for, the rows returned from the limit cut
  to 100: larger pages skip rows. The application's pages are not larger.
  Accounts, payments and audit logs ignore the page altogether, although
  `PERFORMANCE.md:25` says that all list endpoints support pagination.
- *The first hundred* (`Disbursements.tsx:43`, `Payments.tsx:43`). The dialogs load one page
  of loans and filter it by status: with more loans some cannot be chosen.
- *Breakdown of another payment* (`Payments.tsx:72`). The answer to a payment is shown in
  whatever state the dialog has by then, also after it was closed and opened
  for another loan.
- *What is not shown may be paid for* (`Payments.tsx:63`, `Disbursements.tsx:66`). A loan
  stays chosen when its option is gone. The backend refuses it as a rule, for a
  loan that is past APPROVED, or past ACTIVE, does not come back by itself; but when
  another client patches its status (`loans.service.ts:70`) or refunds one of its
  payments, a click disburses or pays a loan that no list shows as selected.
  `AcceptedWasShown` has a clause for it, and fails without.
- *Offered again* (`disbursements.service.ts:353`, `Rollback.tsx:50`). When disburseLoan
  fails after its commit, the compensation sets the row ROLLED_BACK and the outer
  catch overwrites it with FAILED; so it does with what an admin has rolled back
  in between. The dialog filters out ROLLED_BACK only and offers the record again;
  the backend then refuses it. `NotOfferedAgain` has a clause for it, and fails
  without.
- *Old values in the audit log* (`loans.service.ts:67`). They are read before the update
  and may be another request's by then.

## 5. The proofs

Every theorem is for all values of the constants that satisfy the named
assumptions of the modules (`DatabaseAssumption` and its like: amounts are natural
numbers, owners have accounts, the sets of loans and handlers are arbitrary), plus
the hypotheses it states. Each invariant was checked by TLC on the instances of
section 3 before it was proved.

### Any number of requests side by side

`LoanProofs`, for any loans and handlers, any requests and all faults:

- `Inv == DisbursementTypeOK /\ ClaimInv` is inductive (`InitInv`, `NextInv`). Being
  funded once is not inductive by itself: a payout is safe only because its
  handler *owns* the loan. `ClaimInv` says so: the handler whose INSERT passed the
  unique index is the only owner until it answers (`OneOwner`); up to its commit
  the row is PENDING and the loan unpaid (`StageInv`); who undoes a disbursement
  has read that the row is past PENDING, and no step returns it there
  (`LedgerInv`).
- From it: `DisbursementTypes`, `ClaimedByOne`, `FundedAtMostOnce`,
  `CompletedHasPaid`.
- `DisbursementRefines`: every step of the system is a step of `Disbursal` or a
  stutter under the mapping `claim` (open, claimed, settled) and `paid <- disbTxns`.
  Steps that only move a handler are dealt with once (`Move`), steps that settle a
  row once (`Settle`).

`MoneyProofs`, for the same:

- `SystemTypes`: every table keeps rows of the schema. What a handler computes is a
  number because of what it has read, so `MoneyInv` types the tables (`TablesOK`),
  the locals of every handler at every statement (`LocalsOK`: a plan names
  installments of its loan, its shares are integers) and the locks (`LocksOK`).
- `MoneyStays`: with whole cents no transfer makes or loses money, however
  transfers interleave, fail or are cut short. `HeldWithinACent`: with parts of a
  cent no step changes the sum of the accounts by more than a cent. Both rest on
  `TransferSum`, which holds since the code updates both balances by increments
  inside one transaction.
- `UndoneAtMostOncePerHandler`: what concurrency leaves of "undone once". A payment is
  refunded, a disbursement reversed, at most once by each of the handlers that
  overlap. `OverlapInv` counts, for each payment and disbursement, the times it was
  undone and the handlers that have read it as not undone and have yet to
  commit: together they are no more than `Workers`, and once it was undone no
  further handler starts.
- `ClosedNeverOwes`, while no client patches a status to CLOSED: a closed loan owes
  nothing, although status and principal are written from reads that other handlers have
  overtaken. Whoever writes the one writes the other with it, from the same
  reads, and a refund that leaves principal reopens its loan.

`AuditTrailProofs`, for any requests, any pool and all faults: `AnswersAudited`,
`ReportsAreTrue`, `RecordedFails`. None is inductive: an answer is safe because of
where its handler has been. `TrailInv` says of each request what its place implies
— a loan change that is being audited has committed, an undo that commits has
its entry (`Audited`), a recorded one is on its way to an error (`Recorded`) — and
`DoesItsKind` that the compensation of a disbursement is the only work a handler
does that its request did not ask for.

### One request at a time

What repayment and rollback promise is proved under the hypothesis `OneHandler`, that
there is one handler. TLC violates `OutstandingExplained`, `ClosedMeansPaidUp`,
`InstallmentNotOverpaid` and `UnfundedOwesNothing` in the instance of Races, with two,
and `PaymentsInDateOrder` there with `PayDays` 1, 2 and 4. Loans, dates, amounts,
requests, patched statuses and faults are arbitrary; a crash may come between any
two statements.

`LoanProofs`: `SerialUnfundedOwesNothing`, `SerialDateOrder`. `SerialInv` adds to `Inv`
what the tables imply of each other — a payment was refunded once or stands, a
loan without money owes nothing and has no standing payment (`PaymentTable`,
`LoanTable`) — and that what the handler has read still holds when it commits
(`HandlerOK`), which is what a second handler breaks.

`RepaymentProofs`, for partial payments and parts of a cent:

- `SerialNotOverpaid`, `SerialPaidMeansCovered`, `SerialOwesWhatIsLacking`. They are
  sums over payments that grow and shrink. `RepaymentInv` keeps for each installment
  what its standing payments record (`BooksOK`), and for the payment under way that
  each row of its plan fits what its installment lacked when it was read
  (`ReadsOK`). What a commit does to the sums is stated once per commit (`Disbursed`,
  `Reversed`, `Refunded`, `Paid`); the rest is arithmetic of rounding (`StoredNear`,
  `TwoRounded`).
- `SerialRounding`: no step loses money, or adds more than a cent, since each
  transfer is rounded the same way on both sides.

`AccountProofs`:

- `SerialOutstanding`, for clients that name no amount (`NoAmounts`), as the payment
  dialog does when its field is left empty: then a payment settles each
  installment it touches, whatever the errors of doubles. `WholeInv`: what was paid
  on a loan is the principal of its PAID installments, each by one standing
  payment (`WholeBook`); a plan pays whole installments that were pending
  (`WholePlan`). An installment partly paid breaks it: `OutstandingExplained` is false
  without `NoAmounts`.
- `SerialClosedMeansPaidUp`, for clients that name no amount and patch no status to
  CLOSED (`PATCH /loans/:id/status` takes any), with installments that have
  principal and are within the loan's amount (`WithinAmount`: the rounded
  installments of a schedule may ask for some cents more, and a loan may then
  come to zero with one of them open). `StatusInv` says that what is CLOSED owes
  nothing, and what a refund under way has read as CLOSED still does; `WholeInv`
  that only paid installments can have used up the amount.
- `SerialLoanAccount`, for clients that name no amount, whatever statuses they patch:
  the tables implement `LoanAccount`, from the invariants above. A commit of a
  payment is one `Credit`, however many rows it writes; a refund takes back
  exactly the credit it names; everything else is a stutter. That no installment
  is without principal is needed because a credit of nothing is none.

### The loops over installments

`InstallmentProofs`. Of the loop that builds a schedule, for all terms and without
hypotheses: `ScheduleRepays`, `ScheduleNearAmount`, `ScheduleLevel`,
`ScheduleInterestFalls`, `ScheduleInOrder`. That the last turn ends at zero is no
invariant of the loop's code but a fact of the annuity: `BuilderInv` carries the
closed form of the rest after k months (`Rest`), which each turn takes one month
on (`OneTurn`, `RestFalls`) because `MonthlyPayment` divides exactly. It also says
what each installment was rounded from, so that rounding keeps the order of
the unrounded values (`RoundedInOrder`) and adds up to half a cent each (`Near`).

Of the loop of processPayment, for any list of due installments and any payment:
the loop's state has its type (`LoopTypes`), it never gives away more than was
allocated (`LoopWithinPayment`) nor more than an installment lacks
(`LoopWithinInstallment`), assigns all interest by its last turn
(`LoopAssignsInterest`), and pays principal oldest first (`LoopOldestFirst`). The
invariant adds to these that what was spread is within what was allocated; the
rest is arithmetic about one turn (`ShareBounds`).

### The admin pages

`AdminPagesProofs`, for any records, loans, pages and network:

- `PickedUnderItsLabel`, `ReportedNotOffered`. `DialogInv` follows a record that was
  undone through every list and answer under way: it is ROLLED_BACK, or FAILED for
  good (`Settled`, `Failed`), whatever moves the table (`TableMoves`).
- `AcceptedShownSelected`. Why a choice that the list no longer offers is refused,
  while nobody sets the status of the loan: a loan only moves on (`Later`); a status
  that was read tells what the loan is past (`Tells`), so that a status that
  is gone does not come back (`Lost`); and what was chosen from a list (`Chosen`),
  or sent without showing (`Requests`), is for a loan that can no longer be
  accepted, or one whose status was set since. `DashboardInv` conjoins them.
- `PagesTypes`, `PagesShowAll`, from `WalkInv`: a walk has seen every row but those
  that rows created since its start can have pushed to later pages.
- `TabKeepsPromises` puts them together: each part of a tab behaves as its module
  says, or rests (`TabParts`).

### Data

`DataLemmas` has what these proofs need about sequences, sums and numbers. A sum is
a fold, which the prover sees as a `CHOOSE` of a recursive function: that the
function exists and is unique is proved for all subsets of a finite set from the
fact that a set of subsets without a smallest member is empty (`SmallestSet`,
`SetInduction`), and likewise for numbers (`LeastOf`, `Counting`), since the
library's induction theorems cannot be instantiated here. From it follow the few
facts that are cited (`SumUnfolds`, `SumWith`, `SumChanged`, `SumMoved`).

### Only model-checked

Liveness (`EveryRequestEnds`, `EveryEndIsTold`), which is beyond the prover used
here. `ChargedOnce` and `NoPaymentOnReversedLoan`, which hold of one request after
the other and are false of two at a time; a theorem with the hypothesis
`OneHandler` would leave out the case that matters. (What holds of `UndoneOnce` for
any number of handlers is `UndoneAtMostOncePerHandler`.) `NoRecordWithoutMoney`, whose
induction needs what each plan under way will transfer and record. With two
handlers, that the properties above fail where section 4 says so. That the days of
the servicing model and the calendar of `ScheduleBuilder` agree is not stated at
all: the two models share no state.

## 6. Not modelled

Authentication and throttling, routing and validation (stateless, in front of
the handlers); read endpoints other than lists; console and file logs; the
unused calculators under `payments/logic`; `LoggingInterceptor`, which nothing
registers; of the admin application the login, the form that creates a loan
and the detail pages, which send one request and keep nothing; slow-query
logging; seeds other than the accounts.

## 7. Plan

In the order of importance; done: 1 to 14.

1. LoanDatabase, Loans, Disbursements, Rollback with Disbursal and its refinement.
2. Waterfall, Payments, LoanSystem with the repayment properties.
3. Type correctness, funded once, and the refinement of Disbursal.
4. Distribution and its proofs.
5. ScheduleBuilder, with calendar months.
6. AuditTrail and RollbackDialog, and the proofs of both.
7. LoanAccount, the abstract account of a loan, which LoanSystem with one handler
   and full payments implements.
8. LoanDialogs and ListPages with AdminPages, and the proofs of all three.
9. Half cents: rounding adds at most a cent per step.
10. What repayment and rollback promise while requests come one at a time.
11. Sums: MoneyProofs, RepaymentProofs, AccountProofs.
12. The refinement of LoanAccount.
13. The annuity: the loop of ScheduleBuilder for all terms.
14. Errors of doubles, the dialogs beside clients that set statuses and refund, and
    what of undoing once is left to requests that overlap.
15. Proofs about locks: a row has one holder, a transaction that commits holds
    what it writes; then what of 10 and 11 survives two handlers that serve
    different loans.
16. The unused payment calculators against processPayment.
