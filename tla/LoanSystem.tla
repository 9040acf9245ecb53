----------------------------- MODULE LoanSystem -----------------------------
(***************************************************************************)
(* The backend as a whole: request handlers of the four services run side  *)
(* by side on one database.                                                *)
(***************************************************************************)
EXTENDS Loans, Disbursements, Payments

CONSTANTS Seed,    \* Seed[a]: the balance account a starts with
          Ops      \* the requests clients send

ASSUME SystemAssumption ==
  /\ Seed \in [Accounts -> Int]
  /\ Ops \subseteq {"create", "approve", "patch", "disburse", "rollback",
                    "refund", "pay"}

Init == DatabaseInit /\ balance = Seed

\* What the admin page sends: it offers to approve the loans it shows PENDING.
Approve(l) == loan[l].status = "PENDING" /\ UpdateLoanStatus(l, "APPROVED")

\* A request arrives.
Arrive(w) ==
  \/ "disburse" \in Ops /\ \E l \in Loans : StartDisburse(w, l)
  \/ "rollback" \in Ops /\ \E l \in Loans : StartRollbackDisbursement(w, l)
  \/ "refund" \in Ops /\ \E k \in DOMAIN payments : StartRollbackPayment(w, k)
  \/ /\ "pay" \in Ops
     /\ \E l \in Loans, d \in PayDays, a \in PayAmounts : StartPayment(w, l, d, a)

\* A request that has arrived goes on.
Step(w) ==
  \/ Lock(w) \/ TransactionFails(w)
  \/ DisburseStep(w) \/ RollbackStep(w) \/ PaymentStep(w)

Next ==
  \/ \E w \in Workers : Arrive(w) \/ Step(w)
  \/ "create" \in Ops /\ \E l \in Loans : CreateLoan(l)
  \/ "approve" \in Ops /\ \E l \in Loans : Approve(l)
  \/ "patch" \in Ops /\ \E l \in Loans, s \in PatchStatuses : UpdateLoanStatus(l, s)
  \/ Crash

Spec == Init /\ [][Next]_vars

(***************************************************************************)
(* A handler that can go on does: Node resumes it when its statement is    *)
(* answered, and a transaction that waits is ended by Prisma's timeout.    *)
(* Nothing obliges clients to send requests.                               *)
(***************************************************************************)
FairSpec == Spec /\ \A w \in Workers : WF_vars(Step(w))

-----------------------------------------------------------------------------
PaymentRows == [loan : Loans, inst : Nat, day : Nat, principal : Int,
                status : PaymentStatus, refunds : Nat]

\* Where a handler is between two statements.
Labels == InTransaction \cup {"idle", "claim", "complete", "fail"}

Rows == {AccountRow(a) : a \in Accounts} \cup {LoanRow(l) : l \in Loans}
        \cup {DisbRow(l) : l \in Loans}
        \cup {PaymentRow(k) : k \in DOMAIN payments}
        \cup UNION {{SchedRow(l, i) : i \in Installments(l)} : l \in Loans}

\* The labels between claim and answer of disburseLoan, of which those of
\* rollbackDisbursement are shared with the manual rollback.
Undoing == {"activePayments", "refundable", "reverse"}
Disbursing == {"claim", "funds", "fund", "complete", "rollback", "fail"}
Paying == {"lastPayment", "plan", "share", "pay"}

\* What a disbursement reads and writes has its type.
DisbursementTypeOK ==
  /\ disb \in [Loans -> DisbStatus \cup {"NONE"}]
  /\ disbTxns \in [Loans -> Nat] /\ reversals \in [Loans -> Nat]
  /\ pc \in [Workers -> Labels] /\ req = [w \in Workers |-> req[w]]
  /\ \A w \in Workers : pc[w] \in Disbursing \cup Undoing => req[w].loan \in Loans

\* Every table holds rows of the schema, every handler is at a statement of
\* its request and names a loan, and every lock is one on an existing key.
TypeOK ==
  /\ DisbursementTypeOK
  /\ loan \in [Loans -> [status : LoanStatus \cup {"NONE"}, outstanding : Int]]
  /\ DOMAIN sched = Loans
  /\ \A l \in Loans : sched[l] \in [Installments(l) -> ScheduleStatus \cup {"NONE"}]
  /\ payments \in Seq(PaymentRows)
  /\ balance \in [Accounts -> Int]
  /\ repaid \in Nat
  /\ \A w \in Workers : pc[w] # "idle" => req[w].loan \in Loans
  /\ wants \in [Workers -> Seq(Rows)]
  /\ holds \in [Workers -> SUBSET Rows]

-----------------------------------------------------------------------------
(***************************************************************************)
(* Disbursement.                                                           *)
(***************************************************************************)

\* The platform pays a loan out at most once, with any number of concurrent
\* requests, failures, lost answers and restarts (disburseLoan and the unique
\* index on disbursements.loan_id).
FundedOnce == \A l \in Loans : disbTxns[l] <= 1

\* Handler w created the disbursement row of its loan and has not answered.
Owns(w) == \/ pc[w] \in Disbursing \ {"claim"}
           \/ pc[w] \in Undoing /\ req[w].op = "disburse"

(***************************************************************************)
(* Why a loan is funded once.  The handler whose INSERT passes the unique  *)
(* index owns the loan until it answers; the row stays PENDING, and the    *)
(* loan unpaid, until its own commit; whoever undoes a disbursement has    *)
(* read that the row is past PENDING, to which it never returns.           *)
(***************************************************************************)
RequestInv ==
  \A w \in Workers :
    /\ pc[w] \in Disbursing => req[w].op = "disburse"
    /\ pc[w] \in Paying => "op" \in DOMAIN req[w] /\ req[w].op = "pay"
    /\ pc[w] = "refund" => req[w].op = "refund"

StageInv ==
  \A w \in Workers :
    LET l == req[w].loan IN
    /\ pc[w] \in {"funds", "fund"} => disb[l] = "PENDING" /\ disbTxns[l] = 0
    /\ pc[w] = "complete" => disb[l] = "PENDING" /\ disbTxns[l] = 1
    /\ pc[w] \in Undoing => disb[l] \notin {"NONE", "PENDING"}
    /\ Owns(w) => disb[l] # "NONE"

OneOwner ==
  \A v, w \in Workers :
    Owns(v) /\ Owns(w) /\ req[v].loan = req[w].loan => v = w

LedgerInv ==
  \A l \in Loans :
    /\ disb[l] = "NONE" => disbTxns[l] = 0
    /\ disb[l] \in {"NONE", "PENDING"} => reversals[l] = 0
    /\ disb[l] = "COMPLETED" => disbTxns[l] = 1 /\ reversals[l] = 0
    /\ disbTxns[l] <= 1

ClaimInv == RequestInv /\ StageInv /\ OneOwner /\ LedgerInv

\* The claim, payout and settlement of each loan, as the tables show them.
claim == [l \in Loans |-> CASE disb[l] = "NONE"    -> "open"
                             [] disb[l] = "PENDING" -> "claimed"
                             [] OTHER               -> "settled"]

Promise == INSTANCE Disbursal WITH paid <- disbTxns

\* disburseLoan implements the abstract disbursal: claimed by one request,
\* paid out by it at most once and never after the row left PENDING.
ImplementsDisbursal == Promise!DisbursalSpec

\* A disbursement shown COMPLETED has paid its loan and has not been taken
\* back, even when answers are lost and compensations run.
CompletedMeansPaid ==
  \A l \in Loans : disb[l] = "COMPLETED" => disbTxns[l] = 1 /\ reversals[l] = 0

\* When disburseLoan fails after its commit, the compensation has brought the
\* money back before the row is marked FAILED: the message of the post-commit
\* catch block.
FailedMeansMoneyBack ==
  \A l \in Loans : disb[l] = "FAILED" => disbTxns[l] = reversals[l]

\* Loans paid out never add up to more than what came in: the check of
\* available funds in disburseLoan (doc of getAvailableFunds).
FundsSuffice ==
  SumFunction([l \in Loans |-> disbTxns[l] * Amount[l]]) <= Inflow

-----------------------------------------------------------------------------
(***************************************************************************)
(* Repayment.                                                              *)
(***************************************************************************)
Funded(l) == disbTxns[l] > reversals[l]

\* Principal that completed payments of the loan have paid.
PrincipalPaid(l) ==
  SumFunction([k \in Completed(l) |-> payments[k].principal])

\* No installment records more principal than it has, over any sequence of
\* partial payments, late payments and refunds (the balance processPayment
\* computes from previous payments).
InstallmentNotOverpaid ==
  \A l \in Loans : \A i \in Installments(l) : PaidOn(l, i) <= Principal[l][i]

\* An installment shown PAID is covered, to the cent the comparison of
\* isPrincipalFullyPaid leaves, by payments that still stand.
PaidMeansCovered ==
  \A l \in Loans : \A i \in Installments(l) :
    sched[l][i] = "PAID" => Principal[l][i] - PaidOn(l, i) <= 1

\* And the converse: once its principal is fully paid, an installment is no
\* longer offered for payment (comment on isPrincipalFullyPaid).
CoveredMeansPaid ==
  \A l \in Loans : \A i \in Installments(l) :
    Principal[l][i] > 0 /\ PaidOn(l, i) = Principal[l][i] => sched[l][i] = "PAID"

\* The payments of a loan that stand are dated in the order they were made:
\* each accrues interest from the one before (the date check of step 2).
PaymentsInDateOrder ==
  \A l \in Loans : \A j, k \in Completed(l) :
    j < k => payments[j].day <= payments[k].day

\* What a loan still owes is its amount less the principal of the payments
\* that stand, through refunds and failures (loan.update of processPayment
\* and rollbackPayment).
OutstandingExplained ==
  \A l \in Loans :
    Funded(l) => loan[l].outstanding = Amount[l] - PrincipalPaid(l)

\* A closed loan owes nothing, though status and outstanding principal are each
\* written from a read that others may have overtaken: a refund that finds the
\* loan closed opens it again, and a payment that overwrites what a refund gave
\* back writes both.  (Not conversely: the test newOutstanding === 0 on doubles
\* can miss a loan that is repaid.  Nor when a client patches a loan to CLOSED.)
ClosedOwesNothing ==
  \A l \in Loans : loan[l].status = "CLOSED" => loan[l].outstanding <= 0

\* The same through a whole life, step by step: with one handler the tables
\* implement the account a borrower would keep (LoanAccount).
phase == [l \in Loans |->
  IF reversals[l] > 0 THEN "undone"
  ELSE IF disbTxns[l] = 0 THEN "none" ELSE "lent"]

owedBy == [l \in Loans |-> loan[l].outstanding]
standing == [l \in Loans |-> [k \in Completed(l) |-> payments[k].principal]]

Account == INSTANCE LoanAccount WITH owed <- owedBy, credits <- standing

ImplementsLoanAccount == Account!AccountSpec

\* A loan is closed only with every installment paid: one that was refunded is
\* never payable again, and keeps its loan open (selection of processPayment,
\* last update of rollbackPayment).
ClosedMeansPaidUp ==
  \A l \in Loans : loan[l].status = "CLOSED" =>
    \A i \in Installments(l) : sched[l][i] = "PAID"

\* A client that asks again for a payment whose answer it did not get, naming
\* no amount, charges no installment twice, once the first request has ended (no
\* request has an identity; processPayment computes what is due afresh).
ChargedOnce ==
  \A l \in Loans : \A j, k \in Completed(l) :
    j # k => payments[j].inst # payments[k].inst

\* Also with partial payments a borrower is never asked for more principal than
\* the installments still lack (totalPrincipalDue counts them in full), but for
\* a cent that each payment made may leave: with half a cent of principal both
\* what a payment records and what the loan still owes are rounded up.
Made(l) == {k \in DOMAIN payments : payments[k].loan = l}

OwesWhatIsLacking ==
  \A l \in Loans :
    Funded(l) => loan[l].outstanding
                   <= Amount[l] - PrincipalPaid(l) + Cardinality(Made(l))

\* What the records say the platform should have: what it started with and the
\* repayments recorded, less loans paid out and not reversed, less refunds.
RecordedBalance ==
  Seed[Platform] + repaid
  - SumFunction([l \in Loans |-> Amount[l] * (disbTxns[l] - reversals[l])])
  - SumFunction([k \in DOMAIN payments |->
                  payments[k].refunds * payments[k].principal])

\* No record without its money: whatever requests follow each other, fail and
\* are undone, the platform has what the records say, but for a cent of each
\* payment row that rounding may take.  It may have more: the whole amount of
\* a payment moves, recorded or not (transferFromBorrower in processPayment).
NoRecordWithoutMoney == RecordedBalance <= balance[Platform] + Len(payments)

\* No money appears or disappears between accounts, however transfers
\* interleave, fail or are cut short (transferFunds).
MoneyConserved == SumFunction(balance) = SumFunction(Seed)

\* Amounts with parts of a cent: the two updates of a transfer are rounded one
\* by one, and still no step makes money disappear, or adds more than a cent
\* (balance is DECIMAL(15,2)).
Held == SumFunction(balance)
RoundedInFavour == [][Held' \in Held..(Held + 1)]_vars

-----------------------------------------------------------------------------
(***************************************************************************)
(* Rollback.                                                               *)
(***************************************************************************)

\* The status checks of RollbackService let no handler undo twice what another
\* has undone before: a payment is refunded, a loan reversed, at most once by
\* each of the requests that overlap.
UndoneByOverlapOnly ==
  /\ \A k \in DOMAIN payments : payments[k].refunds <= Cardinality(Workers)
  /\ \A l \in Loans : reversals[l] <= Cardinality(Workers)

\* So nothing is undone twice while one request follows another.
UndoneOnce ==
  /\ \A k \in DOMAIN payments : payments[k].refunds <= 1
  /\ \A l \in Loans : reversals[l] <= 1

\* A disbursement that was rolled back leaves no payment standing (the check
\* of existing payments in rollbackDisbursement).
NoPaymentOnReversedLoan ==
  \A l \in Loans : disb[l] = "ROLLED_BACK" => Completed(l) = {}

\* A loan that carries no money has no schedule to pay and owes nothing.
UnfundedOwesNothing ==
  \A l \in Loans : ~Funded(l) =>
    /\ loan[l].outstanding = 0
    /\ \A i \in Installments(l) : sched[l][i] = "NONE"

-----------------------------------------------------------------------------
\* Every request ends, although requests lock rows in different orders and
\* may wait for each other in a circle.
EveryRequestEnds ==
  \A w \in Workers : pc[w] # "idle" ~> pc[w] = "idle"
=============================================================================
