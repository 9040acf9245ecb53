------------------------------ MODULE Rollback ------------------------------
(***************************************************************************)
(* RollbackService: what an administrator undoes.  rollbackDisbursement is *)
(* also the compensation disburseLoan runs when it fails after its commit. *)
(* Both read first, write later, and guard no write by what they read.     *)
(***************************************************************************)
EXTENDS LoanDatabase

-----------------------------------------------------------------------------
\* rollbackDisbursement.  rolledBackAt is set where reversals is counted.
RollbackableBeforeCompleted(l) ==   \* mutant
  disb[l] \in {"PENDING", "COMPLETED"} /\ reversals[l] = 0
RollbackableBackwards(l) ==   \* mutant
  disb[l] # "COMPLETED" /\ reversals[l] = 0
Rollbackable(l) == disb[l] = "COMPLETED" /\ reversals[l] = 0

StartRollbackDisbursement(w, l) ==
  /\ pc[w] = "idle"
  /\ Rollbackable(l)
  /\ Begin(w, "activePayments", [op |-> "rollback", loan |-> l], <<>>)

\* The same read, when disburseLoan compensates.
Compensate(w) ==
  /\ pc[w] = "rollback"
  /\ IF Rollbackable(req[w].loan) THEN Continue(w, "activePayments")
                                  ELSE RollBack(w)

FirstPaymentActive(l) ==   \* mutant
  payments # <<>> /\ payments[1].loan = l /\ payments[1].status = "COMPLETED"
HasActivePayment(l) ==
  \E k \in DOMAIN payments : /\ payments[k].loan = l
                             /\ payments[k].status = "COMPLETED"

ReadActivePayments(w) ==
  /\ pc[w] = "activePayments"
  /\ IF HasActivePayment(req[w].loan) THEN RollBack(w)
                                      ELSE Continue(w, "refundable")

\* transferFunds checks the balance of the borrower, then updates the rows.
CheckRefundable(w) ==
  LET l == req[w].loan IN
  /\ pc[w] = "refundable"
  /\ IF ~Affordable(Owner[l], Exact(Amount[l])) THEN RollBack(w)
     ELSE Begin(w, "reverse", req[w],
                <<AccountRow(Owner[l]), AccountRow(Platform),
                  DisbRow(l), LoanRow(l)>>
                \o [i \in Installments(l) |-> SchedRow(l, i)])

\* The schedule of the loan once its rows are deleted.
ScheduleKept(l) == sched[l]   \* mutant
ScheduleDeleted(l) == [i \in Installments(l) |-> "NONE"]

\* Deleting the schedules sets payments.repayment_schedule_id to NULL.
CommitReversal(w) ==
  LET l == req[w].loan IN
  /\ pc[w] = "reverse" /\ wants[w] = <<>>
  /\ balance' = Transferred(Owner[l], Platform, Exact(Amount[l]))
  /\ disb' = [disb EXCEPT ![l] = "ROLLED_BACK"]
  /\ loan' = [loan EXCEPT ![l] = [status |-> "APPROVED", outstanding |-> 0]]
  /\ sched' = [sched EXCEPT ![l] = ScheduleDeleted(l)]
  /\ payments' = [k \in DOMAIN payments |->
                   IF payments[k].loan = l THEN [payments[k] EXCEPT !.inst = 0]
                                           ELSE payments[k]]
  /\ reversals' = [reversals EXCEPT ![l] = @ + 1]
  /\ ReleaseAll(w)
  /\ AfterTransaction(w)
  /\ UNCHANGED <<disbTxns, repaid>>

-----------------------------------------------------------------------------
\* rollbackPayment: the principal goes back to the borrower, not the rest.
RefundableAgain(k) == payments[k].status \in PaymentStatus   \* mutant
Refundable(k) == payments[k].status = "COMPLETED"

StartRollbackPayment(w, k) ==
  LET p == payments[k] IN
  /\ pc[w] = "idle"
  /\ Refundable(k)
  /\ Begin(w, "refund",
           [op |-> "refund", payment |-> k, loan |-> p.loan, inst |-> p.inst,
            principal |-> p.principal, status |-> loan[p.loan].status,
            outstanding |-> loan[p.loan].outstanding],
           (IF p.principal > 0
            THEN <<AccountRow(Platform), AccountRow(Owner[p.loan])>> ELSE <<>>)
           \o <<PaymentRow(k), LoanRow(p.loan)>>
           \o (IF p.inst # 0 THEN <<SchedRow(p.loan, p.inst)>> ELSE <<>>))

\* The new values of the loan, from what the handler read of it.
OutstandingUnrestored(r) == r.outstanding   \* mutant
OutstandingAfterRefund(r) == r.outstanding + r.principal

StatusUnchanged(r) == r.status   \* mutant
StatusAfterRefund(r) == IF OutstandingAfterRefund(r) > 0 THEN "ACTIVE" ELSE r.status

CommitRefund(w) ==
  LET r == req[w] IN
  /\ pc[w] = "refund" /\ wants[w] = <<>>
  /\ balance' = IF r.principal > 0
                THEN Transferred(Platform, Owner[r.loan], Exact(r.principal))
                ELSE balance
  /\ payments' = [payments EXCEPT ![r.payment].status = "ROLLED_BACK",
                                  ![r.payment].refunds = @ + 1]
  /\ loan' = [loan EXCEPT ![r.loan] =
               [status |-> StatusAfterRefund(r),
                outstanding |-> OutstandingAfterRefund(r)]]
  /\ sched' = IF r.inst # 0
              THEN [sched EXCEPT ![r.loan][r.inst] = "ROLLED_BACK"] ELSE sched
  /\ ReleaseAll(w)
  /\ AfterTransaction(w)
  /\ UNCHANGED <<disb, disbTxns, repaid, reversals>>

RollbackStep(w) ==
  \/ Compensate(w) \/ ReadActivePayments(w) \/ CheckRefundable(w)
  \/ CommitReversal(w) \/ CommitRefund(w)
=============================================================================
