------------------------------ MODULE Payments ------------------------------
(***************************************************************************)
(* PaymentsService.processPayment: one transaction that accrues interest   *)
(* since the last payment, finds the installments due on the payment date, *)
(* splits the amount over them (module Waterfall), moves the money and     *)
(* reduces the outstanding principal of the loan.                          *)
(* Days are whole and counted from the disbursement date.                  *)
(***************************************************************************)
EXTENDS LoanDatabase, Waterfall

CONSTANTS PayDays,         \* the payment dates clients send
          PayAmounts,      \* the amounts they send, in cents; 0: none given
          DailyInterest,   \* parts of a cent a cent accrues per day
          Error,           \* the errors of doubles, in parts of a cent
          Month,           \* days between two due dates
          GracePeriodDays, FlatLateFee,   \* the fee in cents
          MaxPayments      \* bound on the rows of table payments

ASSUME PaymentsAssumption ==
  /\ PayDays \subseteq Nat /\ PayAmounts \subseteq Nat
  /\ {DailyInterest, Month, GracePeriodDays, FlatLateFee, MaxPayments} \subseteq Nat

\* An error is far below a cent.
ASSUME ErrorAssumption ==
  /\ 0 \in Error /\ Error \subseteq Int
  /\ \A e \in Error : 4 * e < Scale /\ -4 * e < Scale

\* What a handler keeps while it works on a payment.
NoPlan == [alloc |-> Nothing, principalDue |-> 0, amount |-> 0,
           due |-> {}, spread |-> Nothing, rows |-> <<>>]

Completed(l) == {k \in DOMAIN payments : /\ payments[k].loan = l
                                         /\ payments[k].status = "COMPLETED"}

\* Principal that completed payments have paid on an installment, in cents.
PaidOn(l, i) ==
  SumFunction([k \in {k \in Completed(l) : payments[k].inst = i} |->
                payments[k].principal])

\* The day of the last payment that stands, 0 before the first.
PaidDays(l) == {payments[k].day : k \in Completed(l)} \cup {0}
FirstPaymentDay(l) ==   \* mutant
  CHOOSE d \in PaidDays(l) : \A e \in PaidDays(l) : d <= e
LastPaymentDay(l) ==
  CHOOSE d \in PaidDays(l) : \A e \in PaidDays(l) : e <= d

DueDay(i) == i * Month

LateFee(i, day) ==
  IF day - DueDay(i) > GracePeriodDays THEN Exact(FlatLateFee) ELSE 0

\* The installments a payment on that day may go to.
DueUntilRefunded(l, day) ==   \* mutant
  {i \in Installments(l) : sched[l][i] # "ROLLED_BACK" /\ DueDay(i) <= day}
DueInstallments(l, day) ==
  {i \in Installments(l) : /\ sched[l][i] \in {"PENDING", "PARTIALLY_PAID"}
                           /\ DueDay(i) <= day}

\* They are served in the order of their due dates.
Oldest(due) == CHOOSE i \in due : \A j \in due : i <= j

\* What the handler writes as the loan's outstanding principal, before the
\* column rounds it: with the error of principalPaid.
OutstandingAsRead(r) == Exact(r.outstanding)   \* mutant
OutstandingAfterPayment(r) == Exact(r.outstanding) - r.plan.alloc.principal

-----------------------------------------------------------------------------
\* Step 1: the loan must be active and not repaid.
StartPayment(w, l, day, amount) ==
  /\ pc[w] = "idle"
  /\ Len(payments) < MaxPayments
  /\ loan[l].status = "ACTIVE" /\ disb[l] # "NONE" /\ loan[l].outstanding > 0
  /\ Begin(w, "lastPayment",
           [op |-> "pay", loan |-> l, day |-> day, amount |-> amount,
            outstanding |-> loan[l].outstanding, last |-> 0,
            plan |-> NoPlan], <<>>)

\* Step 2: the date of the last completed payment.
ReadLastPayment(w) ==
  LET last == LastPaymentDay(req[w].loan) IN
  /\ pc[w] = "lastPayment"
  /\ IF req[w].day < last THEN RollBack(w)
     ELSE Begin(w, "plan", [req[w] EXCEPT !.last = last], <<>>)

\* Steps 3 to 5: accrued interest, due installments, late fees, waterfall,
\* where the computation on doubles may err.
PlanPayment(w) ==
  LET r   == req[w]
      due == DueInstallments(r.loan, r.day)
      interest  == r.outstanding * DailyInterest * (r.day - r.last)
      fees      == SumFunction([i \in due |-> LateFee(i, r.day)])
      principal == SumFunction([i \in due |-> Exact(Principal[r.loan][i])])
      amount    == IF r.amount # 0 THEN Exact(r.amount)
                                   ELSE principal + interest + fees
  IN
  /\ pc[w] = "plan"
  /\ \E e \in Error :
       Begin(w, "share",
             [r EXCEPT !.plan =
               [NoPlan EXCEPT
                 !.alloc = Allocate(amount, interest, fees, principal, e),
                 !.principalDue = principal,
                 !.amount = amount,
                 !.due = due]], <<>>)

\* isPrincipalFullyPaid: this payment covers the installment to the cent.
CoveredByTotal(own, share) == Total(share) - own > -Scale   \* mutant
Covered(own, share) ==
  own - share.principal < Scale /\ share.principal - own < Scale

\* Step 6, one turn of the loop: read what earlier payments paid on the next
\* installment; if anything goes to it, a payment and a transaction are
\* created and the installment is updated, to PAID when this payment alone
\* covers its principal.
ShareOut(w) ==
  LET r     == req[w]
      p     == r.plan
      i     == Oldest(p.due)
      own   == Exact(Principal[r.loan][i])
      share == Share(p.alloc, p.spread, own, p.principalDue, p.due = {i},
                     LateFee(i, r.day), Exact(PaidOn(r.loan, i)))
      row   == [inst |-> i, principal |-> Stored(share.principal),
                total |-> Stored(Total(share)), covered |-> Covered(own, share)]
      pays  == Total(share) > 0
  IN
  /\ pc[w] = "share" /\ wants[w] = <<>> /\ p.due # {}
  /\ Begin(w, "share",
       [r EXCEPT !.plan =
         [p EXCEPT !.due = @ \ {i},
                   !.spread = Plus(@, share),
                   !.rows = IF pays THEN Append(@, row) ELSE @]],
       IF pays THEN <<SchedRow(r.loan, i)>> ELSE <<>>)

\* transferFunds: the whole amount, whatever the installments took of it.
CheckTransfer(w) ==
  LET r == req[w] IN
  /\ pc[w] = "share" /\ wants[w] = <<>> /\ r.plan.due = {}
  /\ IF r.plan.amount <= 0 \/ ~Affordable(Owner[r.loan], r.plan.amount)
     THEN RollBack(w)
     ELSE Begin(w, "pay", r, <<AccountRow(Owner[r.loan]),
                               AccountRow(Platform), LoanRow(r.loan)>>)

\* The loan is closed when the difference of two doubles is 0: a loan that is
\* repaid but for their error stores 0.00 and stays ACTIVE.
CommitPayment(w) ==
  LET r    == req[w]
      p    == r.plan
      rest == OutstandingAfterPayment(r)
      row(i) == CHOOSE x \in Range(p.rows) : x.inst = i
      touched == {x.inst : x \in Range(p.rows)}
  IN
  /\ pc[w] = "pay" /\ wants[w] = <<>>
  /\ payments' = payments \o
       [n \in DOMAIN p.rows |->
         [loan |-> r.loan, inst |-> p.rows[n].inst, day |-> r.day,
          principal |-> p.rows[n].principal, status |-> "COMPLETED",
          refunds |-> 0]]
  /\ repaid' = repaid + SumFunction([n \in DOMAIN p.rows |-> p.rows[n].total])
  /\ sched' = [sched EXCEPT ![r.loan] =
                [i \in Installments(r.loan) |->
                  IF i \notin touched THEN @[i]
                  ELSE IF row(i).covered THEN "PAID" ELSE "PARTIALLY_PAID"]]
  /\ balance' = Transferred(Owner[r.loan], Platform, p.amount)
  /\ loan' = [loan EXCEPT ![r.loan] =
               [status |-> IF rest = 0 THEN "CLOSED" ELSE "ACTIVE",
                outstanding |-> Stored(rest)]]
  /\ ReleaseAll(w)
  /\ AfterTransaction(w)
  /\ UNCHANGED <<disb, disbTxns, reversals>>

PaymentStep(w) ==
  \/ ReadLastPayment(w) \/ PlanPayment(w) \/ ShareOut(w)
  \/ CheckTransfer(w) \/ CommitPayment(w)
=============================================================================
