---------------------------- MODULE LoanDialogs ----------------------------
(***************************************************************************)
(* The dashboard's dialogs that disburse a loan and pay one.  Both choose  *)
(* from one cached list of the loans, which is loaded again when the       *)
(* window gets the focus and after each success; a choice stays when its   *)
(* loan is no longer offered.  Other clients of the API work on the same   *)
(* loans, and may set their status to any other.  The backend is one step   *)
(* a request, races being those of LoanSystem.  Of what a loan owes only    *)
(* whether it is anything is kept.                                         *)
(***************************************************************************)
EXTENDS Integers, SequencesExt

CONSTANTS ListedLoans,
          Unchosen,    \* the empty choice
          MaxStanding, \* bound: payments of a loan that stand
          MaxSent      \* bound: requests of the dialogs under way

ASSUME LoanDialogsAssumption ==
  /\ Unchosen \notin ListedLoans
  /\ MaxStanding \in Nat \ {0} /\ MaxSent \in Nat \ {0}

VARIABLES
  book,     \* book[l]: status, disbursement, whether it owes principal, and
            \* its payments that stand
  listed,   \* the status of each loan in the cached list
  query,    \* the list that is loading: whether it was asked for and read,
            \* and the statuses that were read
  dis,      \* DisburseDialog: open, and the loan selected
  pay,      \* PaymentDialog: the same, and whether it shows a breakdown
  sent,     \* requests of the dialogs: what, which loan, whether it was accepted,
            \* and whether the click could foresee that it may be accepted
  changed   \* history: whose status another client has set, or a refund of
            \* its has, since the list was read, since the list on its way
            \* was, and since the lists from which dis and pay were chosen

dashboard == <<book, listed, query, dis, pay, sent, changed>>

NewLoan == [status |-> "PENDING", disbursement |-> "NONE", owing |-> FALSE,
            standing |-> 0]

LoanStatuses == {"PENDING", "APPROVED", "ACTIVE", "CLOSED"}

Unknown == [l \in ListedLoans |-> "unknown"]
Idle == [state |-> "idle", data |-> Unknown]
Asked == [state |-> "asked", data |-> Unknown]

LoanDialogsInit ==
  /\ book = [l \in ListedLoans |-> NewLoan]
  /\ listed = Unknown
  /\ query = Asked
  /\ dis = [open |-> FALSE, loan |-> Unchosen]
  /\ pay = [open |-> FALSE, loan |-> Unchosen, breakdown |-> FALSE]
  /\ sent = <<>>
  /\ changed = [list |-> {}, query |-> {}, dis |-> FALSE, pay |-> FALSE]

(***************************************************************************)
(* The backend.                                                            *)
(***************************************************************************)
CanDisburseAgain(r) ==   \* mutant: what was rolled back may be disbursed anew
  r.status = "APPROVED" /\ r.disbursement \in {"NONE", "ROLLED_BACK"}
CanDisburse(r) == r.status = "APPROVED" /\ r.disbursement = "NONE"
DisburseLoan(r) == [r EXCEPT !.status = "ACTIVE", !.disbursement = "COMPLETED",
                             !.owing = TRUE]

\* What a disbursement leaves that fails or dies: its row, and a loan that got
\* the money or did not, or not any more.
FailedDisbursements(r) ==
  {[r EXCEPT !.disbursement = d] : d \in {"PENDING", "FAILED", "ROLLED_BACK"}}
  \cup {[DisburseLoan(r) EXCEPT !.disbursement = d] :
          d \in {"PENDING", "FAILED", "COMPLETED"}}

\* The date and the amount of a payment decide how many installments it covers,
\* each with a payment of its own; all, part or nothing of the principal may
\* be left, and the loan closes when the difference is exactly zero.
CanPay(r) == r.status = "ACTIVE" /\ r.disbursement # "NONE" /\ r.owing
Payments(r) ==
  {s \in [status : {"ACTIVE", "CLOSED"}, disbursement : {r.disbursement},
          owing : BOOLEAN, standing : r.standing..MaxStanding] :
     s.status = "CLOSED" => ~s.owing}

\* A refund gives principal back, or interest only; a loan is rolled back when
\* no payment stands.
Refunds(r) ==
  IF r.standing = 0 THEN {}
  ELSE {[r EXCEPT !.standing = @ - 1],
        [r EXCEPT !.standing = @ - 1, !.owing = TRUE, !.status = "ACTIVE"]}
LoanRollbacks(r) ==
  IF r.disbursement = "COMPLETED" /\ r.standing = 0
  THEN {[r EXCEPT !.status = "APPROVED", !.disbursement = "ROLLED_BACK",
                  !.owing = FALSE]}
  ELSE {}

\* PATCH /loans/:id/status looks at nothing.
StatusUpdates(r) == {[r EXCEPT !.status = status] : status \in LoanStatuses}

\* Some other client's request: a disbursement, a payment, a rollback of a loan.
Changes(r) ==
  (IF CanDisburse(r) THEN {DisburseLoan(r)} \cup FailedDisbursements(r) ELSE {})
  \cup (IF CanPay(r) THEN Payments(r) ELSE {})
  \cup LoanRollbacks(r)
OtherClient(l) ==
  /\ \E r \in Changes(book[l]) : book' = [book EXCEPT ![l] = r]
  /\ UNCHANGED <<listed, query, dis, pay, sent, changed>>

\* A status that is set by hand, or by a refund: what the dialogs have shown of
\* the loan says nothing any more.
OtherStatus(l) ==
  /\ \E r \in StatusUpdates(book[l]) \cup Refunds(book[l]) :
       book' = [book EXCEPT ![l] = r]
  /\ changed' = [list |-> changed.list \cup {l},
                 query |-> IF query.state = "read" THEN changed.query \cup {l} ELSE {},
                 dis |-> changed.dis \/ dis.loan = l,
                 pay |-> changed.pay \/ pay.loan = l]
  /\ sent' = [k \in DOMAIN sent |->
                [sent[k] EXCEPT !.foreseen = @ \/ sent[k].loan = l]]
  /\ UNCHANGED <<listed, query, dis, pay>>

\* A request of a dialog: accepted; or refused for the state of the loan, for
\* the amount, or because something fails, of which the dialog only tells.
Accept(k, r) ==
  /\ book' = [book EXCEPT ![sent[k].loan] = r]
  /\ sent' = [sent EXCEPT ![k].answer = "ok"]
Refuse(k, r) ==
  /\ book' = [book EXCEPT ![sent[k].loan] = r]
  /\ sent' = RemoveAt(sent, k)

ServeRequest(k) ==
  LET r == book[sent[k].loan] IN
  /\ sent[k].answer = "none"
  /\ \/ /\ sent[k].op = "disburse" /\ CanDisburse(r)
        /\ \/ Accept(k, DisburseLoan(r))
           \/ \E s \in FailedDisbursements(r) : Refuse(k, s)
     \/ /\ sent[k].op = "pay" /\ CanPay(r)
        /\ \E s \in Payments(r) : Accept(k, s)
     \/ Refuse(k, r)
  /\ UNCHANGED <<listed, query, dis, pay, changed>>

(***************************************************************************)
(* The cached list of the loans.                                           *)
(***************************************************************************)
Refetch ==
  /\ query = Idle /\ query' = Asked
  /\ UNCHANGED <<book, listed, dis, pay, sent, changed>>

ReadLoans ==
  /\ query = Asked
  /\ query' = [state |-> "read", data |-> [l \in ListedLoans |-> book[l].status]]
  /\ UNCHANGED <<book, listed, dis, pay, sent, changed>>

ShowLoans ==
  /\ query.state = "read"
  /\ listed' = query.data /\ query' = Idle
  /\ changed' = [changed EXCEPT !.list = changed.query, !.query = {}]
  /\ UNCHANGED <<book, dis, pay, sent>>

DropList(to) == query' = to /\ changed' = [changed EXCEPT !.query = {}]

LoadFails ==
  /\ query # Idle /\ DropList(Idle)
  /\ UNCHANGED <<book, listed, dis, pay, sent>>

(***************************************************************************)
(* The dialogs, of which one is open at a time.                            *)
(***************************************************************************)
Send(op, l, status, since) ==
  /\ Len(sent) < MaxSent
  /\ sent' = Append(sent, [op |-> op, loan |-> l, answer |-> "none",
                           foreseen |-> listed[l] = status \/ since])
  /\ UNCHANGED <<book, listed, query, dis, pay, changed>>

\* What a dialog offers, and the empty choice.
Offered(status) == {l \in ListedLoans : listed[l] = status} \cup {Unchosen}

OpenDisburse ==
  /\ ~dis.open /\ ~pay.open /\ dis' = [dis EXCEPT !.open = TRUE]
  /\ UNCHANGED <<book, listed, query, pay, sent, changed>>

ChooseToDisburse(l) ==
  /\ dis.open
  /\ l \in Offered("APPROVED")
  /\ dis' = [dis EXCEPT !.loan = l]
  /\ changed' = [changed EXCEPT !.dis = l \in changed.list]
  /\ UNCHANGED <<book, listed, query, pay, sent>>

\* The button is always enabled; without a loan there is no such route.
SendDisburse ==
  /\ dis.open /\ dis.loan # Unchosen
  /\ Send("disburse", dis.loan, "APPROVED", changed.dis)

\* The loan stays chosen, also after a success.
CloseDisburse ==
  /\ dis.open /\ dis' = [dis EXCEPT !.open = FALSE]
  /\ UNCHANGED <<book, listed, query, pay, sent, changed>>

OpenPay ==
  /\ ~dis.open /\ ~pay.open /\ pay' = [pay EXCEPT !.open = TRUE]
  /\ UNCHANGED <<book, listed, query, dis, sent, changed>>

ChooseToPay(l) ==
  /\ pay.open
  /\ l \in Offered("ACTIVE")
  /\ pay' = [pay EXCEPT !.loan = l]
  /\ changed' = [changed EXCEPT !.pay = l \in changed.list]
  /\ UNCHANGED <<book, listed, query, dis, sent>>

\* The button is gone while a breakdown is shown, not while a request runs.
SendPay ==
  /\ pay.open /\ pay.loan # Unchosen /\ ~pay.breakdown
  /\ Send("pay", pay.loan, "ACTIVE", changed.pay)

ClosePay ==
  /\ pay.open
  /\ pay' = [open |-> FALSE, loan |-> Unchosen, breakdown |-> FALSE]
  /\ changed' = [changed EXCEPT !.pay = FALSE]
  /\ UNCHANGED <<book, listed, query, dis, sent>>

\* Success is reported and everything loaded again, whatever the dialog shows
\* by now; a list on its way is dropped.
Reported(k) ==
  /\ sent[k].answer = "ok"
  /\ DropList(Asked)
  /\ IF sent[k].op = "disburse"
     THEN dis' = [dis EXCEPT !.open = FALSE] /\ UNCHANGED pay
     ELSE pay' = [pay EXCEPT !.breakdown = TRUE] /\ UNCHANGED dis
  /\ sent' = RemoveAt(sent, k)
  /\ UNCHANGED <<book, listed>>

\* The answer is lost: a message, and nothing else.
AnswerLost(k) ==
  /\ sent[k].answer = "ok"
  /\ sent' = RemoveAt(sent, k)
  /\ UNCHANGED <<book, listed, query, dis, pay, changed>>

LoanDialogsNext ==
  \/ \E l \in ListedLoans : OtherClient(l) \/ OtherStatus(l)
  \/ \E l \in ListedLoans \cup {Unchosen} : ChooseToDisburse(l) \/ ChooseToPay(l)
  \/ Refetch \/ ReadLoans \/ ShowLoans \/ LoadFails
  \/ OpenDisburse \/ SendDisburse \/ CloseDisburse
  \/ OpenPay \/ SendPay \/ ClosePay
  \/ \E k \in DOMAIN sent : ServeRequest(k) \/ Reported(k) \/ AnswerLost(k)

LoanDialogsSpec == LoanDialogsInit /\ [][LoanDialogsNext]_dashboard
-----------------------------------------------------------------------------
\* What a dialog gets disbursed or paid showed as selected when the button was
\* clicked: a choice that the list no longer offers, which the browser shows as
\* none, is refused (the checks of disburseLoan and processPayment against the
\* lists of DisburseDialog and PaymentDialog) - unless another client has set
\* the loan's status, or refunded a payment of it, since the list from which
\* it was chosen was read.
AcceptedWasShown ==
  \A k \in DOMAIN sent : sent[k].answer = "ok" => sent[k].foreseen
=============================================================================
