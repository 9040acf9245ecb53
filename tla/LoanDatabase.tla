---------------------------- MODULE LoanDatabase ----------------------------
(***************************************************************************)
(* The tables the backend keeps in PostgreSQL, and the way request         *)
(* handlers use them.                                                      *)
(*                                                                         *)
(* A worker is a request handler of the Node process.  Prisma runs its     *)
(* statements one by one at the isolation level READ COMMITTED: a read     *)
(* sees what is committed when it runs, an UPDATE or DELETE first takes    *)
(* the lock of its row and waits for the transaction that holds it.        *)
(* What a transaction writes becomes visible when it commits; since its    *)
(* rows are locked until then, the model applies all its writes in one     *)
(* commit step, with the values the handler computed from earlier reads.   *)
(* A balance is the exception the code makes: { increment: x } adds to     *)
(* the committed value.                                                    *)
(***************************************************************************)
EXTENDS Integers, Sequences, FiniteSets, Functions

CONSTANTS Workers,      \* request handlers that run at the same time
          Loans,        \* rows of the table loans
          Borrowers,    \* accounts of type USER
          Platform,     \* the account of type PLATFORM
          Owner,        \* Owner[l]: the account of loan l
          Amount,       \* Amount[l]: loans.amount, in cents
          Principal,    \* Principal[l][i]: principal of installment i, cents
          Scale,        \* parts of a cent that handlers compute with
          Faults        \* what may go wrong, see below

(***************************************************************************)
(* "db": a statement or a commit fails; "ack": a statement takes effect    *)
(* and its answer is lost, so that the handler sees an error; "crash": the *)
(* process dies and docker restarts it; "inject": TEST_INJECT_ERROR makes  *)
(* disburseLoan fail after it is done.                                     *)
(***************************************************************************)
Accounts == Borrowers \cup {Platform}

ASSUME DatabaseAssumption ==
  /\ IsFiniteSet(Loans) /\ IsFiniteSet(Borrowers) /\ Platform \notin Borrowers
  /\ Owner \in [Loans -> Borrowers]
  /\ Amount \in [Loans -> Nat \ {0}]
  /\ Principal \in [Loans -> Seq(Nat)]
  /\ Scale \in Nat \ {0}
  /\ Faults \subseteq {"db", "ack", "crash", "inject"}

LoanStatus     == {"PENDING", "APPROVED", "ACTIVE", "CLOSED"}
DisbStatus     == {"PENDING", "COMPLETED", "FAILED", "ROLLED_BACK"}
ScheduleStatus == {"PENDING", "PARTIALLY_PAID", "PAID", "ROLLED_BACK"}
PaymentStatus  == {"COMPLETED", "ROLLED_BACK"}

VARIABLES
  loan,       \* loan[l]: status ("NONE" before POST /loans), outstanding
  disb,       \* disb[l]: status of the disbursement of l, "NONE" if no row
  sched,      \* sched[l][i]: status of installment i, "NONE" if no row
  payments,   \* the rows of table payments, in order of creation
  balance,    \* balance[a]: in cents
  disbTxns,   \* disbTxns[l]: transactions of type DISBURSEMENT for loan l
  repaid,     \* sum of the transactions of type REPAYMENT
  reversals,  \* reversals[l]: rollback_records of transfers back for l
  pc, req,    \* per worker: the next statement, and the handler's locals
  wants,      \* wants[w]: the rows the transaction of w has yet to lock
  holds       \* holds[w]: the rows it has locked

tables  == <<loan, disb, sched, payments, balance, disbTxns, repaid, reversals>>
handler == <<pc, req>>
locks   == <<wants, holds>>
vars    == <<loan, disb, sched, payments, balance, disbTxns, repaid, reversals,
             pc, req, wants, holds>>

Installments(l) == DOMAIN Principal[l]

\* Keys of rows.
AccountRow(a)  == <<"account", a>>
LoanRow(l)     == <<"loan", l>>
DisbRow(l)     == <<"disbursement", l>>
PaymentRow(k)  == <<"payment", k>>
SchedRow(l, i) == <<"schedule", l, i>>

\* A worker that serves no request.
NoRequest == [op |-> "none"]

DatabaseInit ==
  /\ loan = [l \in Loans |-> [status |-> "NONE", outstanding |-> 0]]
  /\ disb = [l \in Loans |-> "NONE"]
  /\ sched = [l \in Loans |-> [i \in Installments(l) |-> "NONE"]]
  /\ payments = <<>>
  /\ disbTxns = [l \in Loans |-> 0]
  /\ repaid = 0
  /\ reversals = [l \in Loans |-> 0]
  /\ pc = [w \in Workers |-> "idle"]
  /\ req = [w \in Workers |-> NoRequest]
  /\ wants = [w \in Workers |-> <<>>]
  /\ holds = [w \in Workers |-> {}]

-----------------------------------------------------------------------------
(***************************************************************************)
(* Money.  Handlers compute with JavaScript numbers, here whole parts of a *)
(* cent; a column of type DECIMAL(15,2) stores whole cents and rounds half *)
(* away from zero.                                                         *)
(***************************************************************************)
Exact(cents) == cents * Scale

StoredCut(x) == x \div Scale   \* mutant
Stored(x) == IF x >= 0 THEN (2 * x + Scale) \div (2 * Scale)
                       ELSE -((Scale - 2 * x) \div (2 * Scale))

\* transferFunds refuses a transfer the source cannot pay, where asked to.
AffordableUnchecked(a, x) == TRUE   \* mutant
Affordable(a, x) == Exact(balance[a]) >= x

\* The two updates of transferFunds, applied at commit to what is committed.
TransferredHalfway(from, to, x) ==   \* mutant
  [balance EXCEPT ![from] = Stored(Exact(@) - x)]
Transferred(from, to, x) ==
  [balance EXCEPT ![from] = Stored(Exact(@) - x), ![to] = Stored(Exact(@) + x)]

-----------------------------------------------------------------------------
(***************************************************************************)
(* Locks and the end of a transaction.                                     *)
(***************************************************************************)
Unlocked(w, r) == \A v \in Workers \ {w} : r \notin holds[v]

NeverBlocked(w) == FALSE   \* mutant: a transaction waits for ever
Blocked(w) == wants[w] # <<>> /\ ~Unlocked(w, Head(wants[w]))

\* An UPDATE of a deleted row is an error; deleteMany finds what is left.
Present(w, r) ==
  r[1] = "schedule" => pc[w] = "reverse" \/ sched[r[2]][r[3]] # "NONE"

\* The next UPDATE of the transaction gets its row.
Lock(w) ==
  /\ wants[w] # <<>>
  /\ Unlocked(w, Head(wants[w]))
  /\ Present(w, Head(wants[w]))
  /\ holds' = [holds EXCEPT ![w] = @ \cup {Head(wants[w])}]
  /\ wants' = [wants EXCEPT ![w] = Tail(@)]
  /\ UNCHANGED <<tables, handler>>

ReleaseAll(w) ==
  /\ holds' = [holds EXCEPT ![w] = {}]
  /\ wants' = [wants EXCEPT ![w] = <<>>]

Goto(w, label) == pc' = [pc EXCEPT ![w] = label]

\* A request starts, or goes on with new locals, at the statement "label" of
\* a transaction that will update "rows".
Begin(w, label, request, rows) ==
  /\ Goto(w, label)
  /\ req' = [req EXCEPT ![w] = request]
  /\ wants' = [wants EXCEPT ![w] = rows]
  /\ UNCHANGED <<tables, holds>>

Continue(w, label) ==
  /\ Goto(w, label)
  /\ UNCHANGED <<tables, req, locks>>

\* The handler answers, with a result or with an error.
Answer(w) ==
  /\ Goto(w, "idle")
  /\ req' = [req EXCEPT ![w] = NoRequest]

\* The end of the transaction of w, whatever it did: disburseLoan goes on in
\* its outer catch block, the other handlers answer.
AfterTransaction(w) ==
  IF req[w].op = "disburse" THEN Goto(w, "fail") /\ UNCHANGED req
                            ELSE Answer(w)

\* The transaction is rolled back: nothing of it stays.
RollBack(w) ==
  /\ ReleaseAll(w)
  /\ AfterTransaction(w)
  /\ UNCHANGED tables

InTransaction == {"funds", "fund",
                  "lastPayment", "plan", "share", "pay",
                  "rollback", "activePayments", "refundable", "reverse",
                  "refund"}

(***************************************************************************)
(* A transaction fails when a statement or the commit does; when the row   *)
(* it updates is gone; or while it waits for a row: Prisma closes an       *)
(* interactive transaction after 5 seconds, PostgreSQL picks a victim of a *)
(* deadlock.                                                               *)
(***************************************************************************)
TransactionFails(w) ==
  /\ pc[w] \in InTransaction
  /\ \/ "db" \in Faults
     \/ Blocked(w)
     \/ wants[w] # <<>> /\ ~Present(w, Head(wants[w]))
  /\ RollBack(w)

\* The process dies: every request is gone, every transaction rolled back.
Crash ==
  /\ "crash" \in Faults
  /\ \E w \in Workers : pc[w] # "idle"
  /\ pc' = [w \in Workers |-> "idle"]
  /\ req' = [w \in Workers |-> NoRequest]
  /\ wants' = [w \in Workers |-> <<>>]
  /\ holds' = [w \in Workers |-> {}]
  /\ UNCHANGED tables
=============================================================================
