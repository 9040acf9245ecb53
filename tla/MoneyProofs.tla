----------------------------- MODULE MoneyProofs -----------------------------
(***************************************************************************)
(* For any number of handlers, loans and accounts, any requests and every  *)
(* failure: the tables hold rows of the schema whatever is computed and    *)
(* rounded, transfers neither make money nor lose any but for the cents of *)
(* rounding, nothing is undone more often than requests overlap, and a     *)
(* loan that is closed owes nothing.                                       *)
(***************************************************************************)
EXTENDS LoanProofs

(***************************************************************************)
(* The locals of a handler.  A payment and a refund name installments of   *)
(* their loan, and no amount leaves the integers.                          *)
(***************************************************************************)
Shares == [interest : Int, fees : Int, principal : Int]

PlanRows(l) == [inst : Installments(l), principal : Int, total : Nat,
                covered : BOOLEAN]

Plans(l) == [alloc : Shares, principalDue : Nat, amount : Int,
             due : SUBSET Installments(l), spread : Shares,
             rows : Seq(PlanRows(l))]

PayRequests(l) == [op : {"pay"}, loan : {l}, day : Nat, amount : Nat,
                   outstanding : Int, last : Nat, plan : Plans(l)]

Statuses == LoanStatus \cup {"NONE"}

RefundRequests(l) ==
  [op : {"refund"}, payment : DOMAIN payments, loan : {l},
   inst : {0} \cup Installments(l), principal : Int, status : Statuses,
   outstanding : Int]

LocalsOK(w) ==
  /\ pc[w] \in Paying => \E l \in Loans : req[w] \in PayRequests(l)
  /\ pc[w] = "refund" => \E l \in Loans : req[w] \in RefundRequests(l)

\* A payment names an installment of its loan, or none.
OwnInstallment(p) == p.inst \in {0} \cup Installments(p.loan)

TablesOK ==
  /\ loan \in [Loans -> [status : Statuses, outstanding : Int]]
  /\ DOMAIN sched = Loans
  /\ \A l \in Loans : sched[l] \in [Installments(l) -> ScheduleStatus \cup {"NONE"}]
  /\ payments \in Seq(PaymentRows)
  /\ \A k \in DOMAIN payments : OwnInstallment(payments[k])
  /\ balance \in [Accounts -> Int]
  /\ repaid \in Nat

LocksOK ==
  /\ wants \in [Workers -> Seq(Rows)]
  /\ holds \in [Workers -> SUBSET Rows]

MoneyInv == TablesOK /\ (\A w \in Workers : LocalsOK(w)) /\ LocksOK

-----------------------------------------------------------------------------
(***************************************************************************)
(* Numbers.                                                                *)
(***************************************************************************)
\* Whole cents are integers, whatever is stored.
LEMMA StoredInt == \A x \in Int : Stored(x) \in Int /\ (x >= 0 => Stored(x) >= 0)
<1> SUFFICES ASSUME NEW x \in Int
             PROVE  Stored(x) \in Int /\ (x >= 0 => Stored(x) >= 0)
  OBVIOUS
<1>1. /\ 2 * Scale \in Nat \ {0} /\ 2 * x + Scale \in Int /\ Scale - 2 * x \in Int
      /\ x >= 0 => 2 * x + Scale >= 0
  BY DatabaseAssumption
<1> QED
  BY <1>1, Quotients DEF Stored

\* So are parts of a cent.
LEMMA ExactInt == \A n \in Int : Exact(n) \in Int /\ (n >= 0 => Exact(n) >= 0)
BY DatabaseAssumption DEF Exact

\* What is stored is half a cent off at most, and never a half below an amount
\* that is not negative.
LEMMA StoredNear ==
  ASSUME NEW x \in Int
  PROVE  /\ Stored(x) \in Int /\ 2 * Scale \in Nat \ {0}
         /\ 2 * x - Scale <= 2 * Scale * Stored(x)
         /\ 2 * Scale * Stored(x) <= 2 * x + Scale
         /\ x >= 0 => 2 * x - Scale < 2 * Scale * Stored(x)
         /\ x < 0 => 2 * Scale * Stored(x) < 2 * x + Scale
<1> DEFINE d == 2 * Scale
           q == (2 * x + Scale) \div d
           p == (Scale - 2 * x) \div d
<1>1. /\ d \in Nat \ {0} /\ 2 * x + Scale \in Int /\ Scale - 2 * x \in Int
      /\ Scale \in Nat \ {0} /\ d = Scale + Scale
  BY DatabaseAssumption
<1>2. Stored(x) = IF x >= 0 THEN q ELSE -p
  BY DEF Stored
<1>3. q \in Int /\ d * q <= 2 * x + Scale /\ 2 * x + Scale < d * q + d
  <2> HIDE DEF d
  <2> QED
    BY <1>1, QuotientBounds
<1>4. p \in Int /\ d * p <= Scale - 2 * x /\ Scale - 2 * x < d * p + d
  <2> HIDE DEF d
  <2> QED
    BY <1>1, QuotientBounds
<1>5. d * (-p) = -(d * p) /\ d * p \in Int /\ d * q \in Int
  BY <1>1, <1>3, <1>4
<1> HIDE DEF q, p
<1>6. CASE x >= 0
  BY <1>1, <1>2, <1>3, <1>5, <1>6
<1>7. CASE x < 0
  <2>1. Stored(x) = -p /\ d * Stored(x) = -(d * p)
    BY <1>2, <1>5, <1>7
  <2> QED
    BY <1>1, <1>4, <1>5, <1>7, <2>1
<1> QED
  BY <1>6, <1>7

\* Whole cents are stored as they are.
LEMMA StoredExact ==
  ASSUME NEW n \in Int
  PROVE  Stored(Exact(n)) = n
<1> DEFINE r == Stored(Exact(n))
           d == 2 * Scale
<1>1. /\ Exact(n) \in Int /\ 2 * Exact(n) = d * n /\ Scale \in Nat \ {0}
      /\ d \in Nat \ {0} /\ d = Scale + Scale /\ d * n \in Int
  BY DatabaseAssumption DEF Exact
<1>2. r \in Int /\ d * n - Scale <= d * r /\ d * r <= d * n + Scale
  BY <1>1, StoredNear
<1> HIDE DEF r, d
<1>3. /\ d * (n + 1) = d * n + d /\ d * (n - 1) = d * n - d
      /\ d * r \in Int
  BY <1>1, <1>2
<1>4. d * r < d * (n + 1) /\ d * (n - 1) < d * r
  BY <1>1, <1>2, <1>3
<1>5. r < n + 1 /\ n - 1 < r
  BY <1>1, <1>2, <1>4, Multiples
<1> QED
  BY <1>2, <1>5 DEF r

\* More is not stored as less.
LEMMA StoredMonotone ==
  ASSUME NEW x \in Int, NEW y \in Int, x <= y
  PROVE  Stored(x) <= Stored(y)
<1> DEFINE d == 2 * Scale
           r == Stored(x)
           s == Stored(y)
<1>1. /\ d \in Nat \ {0} /\ Scale \in Nat \ {0} /\ d = Scale + Scale
      /\ r \in Int /\ s \in Int
      /\ 2 * x - Scale <= d * r /\ d * r <= 2 * x + Scale
      /\ 2 * y - Scale <= d * s /\ d * s <= 2 * y + Scale
      /\ y >= 0 => 2 * y - Scale < d * s
      /\ x < 0 => d * r < 2 * x + Scale
  BY StoredNear, DatabaseAssumption
<1>2. Stored(0) = 0
  <2>1. Exact(0) = 0
    BY DatabaseAssumption DEF Exact
  <2> QED
    BY <2>1, StoredExact
<1> HIDE DEF d, r, s
<1>3. d * r \in Int /\ d * s \in Int /\ d * (s + 1) = d * s + d
  BY <1>1
<1>4. d * r < d * (s + 1)
  BY <1>1, <1>3
<1>5. r < s + 1
  BY <1>1, <1>4, Multiples
<1> QED
  BY <1>1, <1>5 DEF r, s

(***************************************************************************)
(* A transfer rounds two balances.  Together they gain or lose a cent at   *)
(* most; while the source is not overdrawn they lose none; and with whole  *)
(* cents neither.                                                          *)
(***************************************************************************)
LEMMA TwoRounded ==
  ASSUME NEW m \in Int, NEW n \in Int, NEW x \in Int
  PROVE  LET a == Stored(Exact(m) - x)
             b == Stored(Exact(n) + x)
         IN  /\ a \in Int /\ b \in Int
             /\ a + b \in (m + n - 1)..(m + n + 1)
             /\ Exact(m) >= x => a + b \in (m + n)..(m + n + 1)
<1> DEFINE d == 2 * Scale
           u == Exact(m) - x
           v == Exact(n) + x
           a == Stored(u)
           b == Stored(v)
<1>1. /\ u \in Int /\ v \in Int /\ Scale \in Nat \ {0}
      /\ d \in Nat \ {0} /\ d = Scale + Scale
      /\ Exact(m) >= x => u >= 0
  BY ExactInt, DatabaseAssumption
<1>2. 2 * u + 2 * v = d * (m + n)
  <2>1. Exact(m) \in Int /\ Exact(n) \in Int
        /\ 2 * Exact(m) = d * m /\ 2 * Exact(n) = d * n
    BY DatabaseAssumption DEF Exact
  <2>2. d * (m + n) = d * m + d * n
    BY <1>1, Multiples
  <2> QED
    BY <2>1, <2>2
<1> HIDE DEF u, v
<1>3. /\ a \in Int /\ b \in Int
      /\ 2 * u - Scale <= d * a /\ d * a <= 2 * u + Scale
      /\ 2 * v - Scale <= d * b /\ d * b <= 2 * v + Scale
      /\ u >= 0 => 2 * u - Scale < d * a
  BY <1>1, StoredNear
<1> HIDE DEF d, a, b
<1>4. /\ d * (a + b) = d * a + d * b /\ d * a \in Int /\ d * b \in Int
      /\ d * (m + n) \in Int
      /\ d * (m + n + 1) = d * (m + n) + d /\ d * (m + n - 1) = d * (m + n) - d
  BY <1>1, <1>3
<1>5. /\ d * (a + b) <= d * (m + n + 1)
      /\ d * (m + n - 1) <= d * (a + b)
      /\ Exact(m) >= x => d * (m + n - 1) < d * (a + b)
  BY <1>1, <1>2, <1>3, <1>4
<1>6. /\ a + b <= m + n + 1
      /\ m + n - 1 <= a + b
      /\ Exact(m) >= x => m + n - 1 < a + b
  BY <1>1, <1>3, <1>5, Multiples
<1> QED
  BY <1>3, <1>6 DEF a, b, u, v

\* And so is what is lent.
LEMMA AmountInt ==
  \A l \in Loans : Amount[l] \in Int /\ Exact(Amount[l]) \in Int
<1>1. \A l \in Loans : Amount[l] \in Int
  BY DatabaseAssumption
<1> QED
  BY <1>1, ExactInt

\* Installments are numbered from 1.
LEMMA InstallmentsNumbered ==
  ASSUME NEW l \in Loans
  PROVE  /\ Installments(l) = 1..Len(Principal[l]) /\ Len(Principal[l]) \in Nat
         /\ IsFiniteSet(Installments(l))
         /\ \A i \in Installments(l) : Principal[l][i] \in Nat
<1>1. Principal[l] \in Seq(Nat)
  BY DatabaseAssumption
<1>2. /\ Installments(l) = 1..Len(Principal[l]) /\ Len(Principal[l]) \in Nat
      /\ \A i \in Installments(l) : Principal[l][i] \in Nat
  BY <1>1, LenProperties, ElementOfSeq DEF Installments
<1>3. IsFiniteSet(1..Len(Principal[l]))
  BY <1>2, FS_Interval
<1> QED
  BY <1>2, <1>3

\* A part of an allocation, and what one installment takes, are integers.
LEMMA SharesInt ==
  /\ \A a, i, f, p, e \in Int : Allocate(a, i, f, p, e) \in Shares
  /\ \A x, y \in Shares : Plus(x, y) \in Shares
  /\ \A x \in Shares : Total(x) \in Int
  /\ Nothing \in Shares
  /\ \A alloc, spread \in Shares, p, fee, before \in Int, due \in Nat :
       \A last \in BOOLEAN : Share(alloc, spread, p, due, last, fee, before) \in Shares
<1>1. \A alloc, spread \in Shares, p \in Int, due \in Nat :
        \A last \in BOOLEAN : InterestShare(alloc, spread, p, due, last) \in Int
  BY Products, Quotients DEF InterestShare, Lesser, Shares
<1>2. \A alloc, spread \in Shares, fee \in Int : FeeShare(alloc, spread, fee) \in Int
  BY DEF FeeShare, Lesser, Shares
<1>3. \A alloc, spread \in Shares, p, before \in Int :
        PrincipalShare(alloc, spread, p, before) \in Int
  BY DEF PrincipalShare, Lesser, Shares
<1>4. \A alloc, spread \in Shares, p, fee, before \in Int, due \in Nat :
        \A last \in BOOLEAN :
          Share(alloc, spread, p, due, last, fee, before) \in Shares
  BY <1>1, <1>2, <1>3 DEF Share, Shares
<1>5. \A a, i, f, p, e \in Int : Allocate(a, i, f, p, e) \in Shares
  BY DEF Allocate, Lesser, Greater, Shares
<1>6. /\ \A x, y \in Shares : Plus(x, y) \in Shares
      /\ \A x \in Shares : Total(x) \in Int
      /\ Nothing \in Shares
  BY DEF Plus, Total, Nothing, Shares
<1> QED
  BY <1>4, <1>5, <1>6

\* The due dates, the fees and what earlier payments paid.
LEMMA DueInt ==
  ASSUME TablesOK, NEW l \in Loans
  PROVE  /\ \A i \in Installments(l), day \in Nat : LateFee(i, day) \in Int
         /\ \A i : PaidOn(l, i) \in Int
         /\ \A i \in Installments(l) : Exact(Principal[l][i]) \in Nat
         /\ IsFiniteSet(DOMAIN payments) /\ IsFiniteSet(Completed(l))
<1>1. \A i \in Installments(l), day \in Nat : LateFee(i, day) \in Int
  <2>1. \A i \in Installments(l) : i * Month \in Int
    BY PaymentsAssumption, InstallmentsNumbered
  <2>2. Exact(FlatLateFee) \in Int
    BY PaymentsAssumption, ExactInt
  <2> QED
    BY <2>1, <2>2, PaymentsAssumption DEF LateFee, DueDay
<1>2. DOMAIN payments = 1..Len(payments) /\ Len(payments) \in Nat
      /\ \A k \in DOMAIN payments : payments[k] \in PaymentRows
  BY LenProperties, ElementOfSeq DEF TablesOK
<1>3. IsFiniteSet(DOMAIN payments)
  BY <1>2, FS_Interval
<1>4. IsFiniteSet(Completed(l))
  BY <1>3, FS_Subset DEF Completed
<1>5. ASSUME NEW i PROVE PaidOn(l, i) \in Int
  <2> DEFINE K == {k \in Completed(l) : payments[k].inst = i}
             f == [k \in K |-> payments[k].principal]
  <2>1. IsFiniteSet(K)
    BY <1>3, FS_Subset DEF Completed
  <2>2. \A k \in K : f[k] \in Int
    BY <1>2 DEF Completed, PaymentRows
  <2>3. PaidOn(l, i) = SumFunctionOnSet(f, K)
    BY DEF PaidOn, SumFunction
  <2> HIDE DEF K, f
  <2> QED
    BY <2>1, <2>2, <2>3, SumType
<1>6. \A i \in Installments(l) : Exact(Principal[l][i]) \in Nat
  BY InstallmentsNumbered, ExactInt
<1> QED
  BY <1>1, <1>3, <1>4, <1>5, <1>6

-----------------------------------------------------------------------------
(***************************************************************************)
(* Steps that change one handler.                                          *)
(***************************************************************************)
\* The rows a request may lock.
LEMMA RowsOf ==
  /\ AccountRow(Platform) \in Rows
  /\ \A l \in Loans : /\ AccountRow(Owner[l]) \in Rows
                      /\ LoanRow(l) \in Rows /\ DisbRow(l) \in Rows
                      /\ \A i \in Installments(l) : SchedRow(l, i) \in Rows
  /\ \A k \in DOMAIN payments : PaymentRow(k) \in Rows
BY DatabaseAssumption DEF Rows, Accounts

\* Payments are never deleted, so neither are the keys of rows.
LEMMA RowsGrow ==
  ASSUME DOMAIN payments \subseteq DOMAIN payments'
  PROVE  Rows \subseteq Rows' /\ Seq(Rows) \subseteq Seq(Rows')
<1>1. Rows \subseteq Rows'
  BY DEF Rows
<1> QED
  BY <1>1, SeqMonotonic

\* Nothing is computed anew.
LEMMA TablesStayOK ==
  ASSUME TablesOK, UNCHANGED <<loan, sched, payments, balance, repaid>>
  PROVE  TablesOK'
BY DEF TablesOK, OwnInstallment

\* The other handlers keep their locals.
LEMMA LocalsMove ==
  ASSUME Inv, \A v \in Workers : LocalsOK(v),
         DOMAIN payments \subseteq DOMAIN payments',
         NEW w \in Workers, NEW label, NEW request,
         pc' = [pc EXCEPT ![w] = label],
         req' = [req EXCEPT ![w] = request],
         label \in Paying => \E l \in Loans : request \in PayRequests(l),
         label = "refund" => \E l \in Loans : request \in RefundRequests(l)
  PROVE  \A v \in Workers : LocalsOK(v)'
<1>1. \A l : /\ RefundRequests(l) \subseteq RefundRequests(l)'
            /\ PayRequests(l)' = PayRequests(l)
  BY DEF RefundRequests, PayRequests, Plans, PlanRows, Shares, Statuses,
         LoanStatus, Installments
<1>2. /\ pc'[w] = label /\ req'[w] = request
      /\ \A v \in Workers \ {w} : pc'[v] = pc[v] /\ req'[v] = req[v]
  BY DEF Inv, DisbursementTypeOK
<1> QED
  BY <1>1, <1>2 DEF LocalsOK

\* The other handlers keep their locks.
LEMMA LocksMove ==
  ASSUME LocksOK, DOMAIN payments \subseteq DOMAIN payments',
         NEW w \in Workers,
         NEW rows \in Seq(Rows), NEW held \in SUBSET Rows,
         wants' = [wants EXCEPT ![w] = rows],
         holds' = [holds EXCEPT ![w] = held]
  PROVE  LocksOK'
<1>1. wants' \in [Workers -> Seq(Rows)] /\ holds' \in [Workers -> SUBSET Rows]
  BY DEF LocksOK
<1>2. Rows \subseteq Rows' /\ Seq(Rows) \subseteq Seq(Rows')
  BY RowsGrow
<1> HIDE DEF LocksOK
<1> QED
  BY <1>1, <1>2 DEF LocksOK

\* A request goes on.
LEMMA BeginKeeps ==
  ASSUME Inv, MoneyInv, NEW w \in Workers, NEW label, NEW request, NEW rows,
         Begin(w, label, request, rows), rows \in Seq(Rows),
         label \in Paying => \E l \in Loans : request \in PayRequests(l),
         label = "refund" => \E l \in Loans : request \in RefundRequests(l)
  PROVE  MoneyInv'
<1>1. /\ UNCHANGED tables /\ DOMAIN payments' = DOMAIN payments
      /\ pc' = [pc EXCEPT ![w] = label] /\ req' = [req EXCEPT ![w] = request]
      /\ wants' = [wants EXCEPT ![w] = rows]
      /\ holds' = [holds EXCEPT ![w] = holds[w]] /\ holds[w] \in SUBSET Rows
  BY DEF Begin, Goto, tables, MoneyInv, LocksOK
<1> QED
  BY <1>1, TablesStayOK, LocalsMove, LocksMove DEF MoneyInv, tables

\* A handler of another kind goes on or answers, without locks.
LEMMA MoveKeeps ==
  ASSUME Inv, MoneyInv, UNCHANGED <<loan, sched, payments, balance, repaid, locks>>,
         NEW w \in Workers, NEW label, label \notin Paying \cup {"refund"},
         pc' = [pc EXCEPT ![w] = label],
         UNCHANGED req \/ req' = [req EXCEPT ![w] = NoRequest]
  PROVE  MoneyInv'
<1>1. PICK request : req' = [req EXCEPT ![w] = request]
  BY DEF Inv, DisbursementTypeOK
<1>2. /\ DOMAIN payments' = DOMAIN payments
      /\ wants' = [wants EXCEPT ![w] = wants[w]] /\ wants[w] \in Seq(Rows)
      /\ holds' = [holds EXCEPT ![w] = holds[w]] /\ holds[w] \in SUBSET Rows
  BY DEF locks, MoneyInv, LocksOK
<1> QED
  BY <1>1, <1>2, TablesStayOK, LocalsMove, LocksMove DEF MoneyInv

\* A transaction ends.
LEMMA EndKeeps ==
  ASSUME Inv, MoneyInv, TablesOK', DOMAIN payments \subseteq DOMAIN payments',
         NEW w \in Workers, ReleaseAll(w), AfterTransaction(w)
  PROVE  MoneyInv'
<1>1. PICK label, request :
        /\ label \in {"idle", "fail"}
        /\ pc' = [pc EXCEPT ![w] = label]
        /\ req' = [req EXCEPT ![w] = request]
  <2>1. req = [req EXCEPT ![w] = req[w]]
    BY DEF Inv, DisbursementTypeOK
  <2> QED
    BY <2>1 DEF AfterTransaction, Answer, Goto
<1>2. <<>> \in Seq(Rows) /\ {} \in SUBSET Rows
  OBVIOUS
<1>3. label \notin Paying \cup {"refund"}
  BY <1>1 DEF Paying
<1> QED
  BY <1>1, <1>2, <1>3, LocalsMove, LocksMove DEF MoneyInv, ReleaseAll

\* A transaction that rolls back has written nothing.
LEMMA RollBackKeepsMoney ==
  ASSUME Inv, MoneyInv, NEW w \in Workers, RollBack(w)
  PROVE  MoneyInv'
<1>1. TablesOK' /\ payments' = payments
  BY TablesStayOK DEF RollBack, MoneyInv, tables
<1> QED
  BY <1>1, EndKeeps DEF RollBack

\* There is no row, no request and no lock.
LEMMA MoneyStarts == Init => MoneyInv
<1> SUFFICES ASSUME Init PROVE MoneyInv
  OBVIOUS
<1> USE DEF Init, DatabaseInit
<1>1. payments = <<>> /\ DOMAIN payments = {} /\ payments \in Seq(PaymentRows)
  BY EmptySeq
<1>2. TablesOK
  BY <1>1, SystemAssumption DEF TablesOK, Statuses, ScheduleStatus
<1>3. \A w \in Workers : LocalsOK(w)
  BY DEF LocalsOK, Paying
<1>4. LocksOK
  BY DEF LocksOK
<1> QED
  BY <1>2, <1>3, <1>4 DEF MoneyInv

-----------------------------------------------------------------------------
(***************************************************************************)
(* The actions of disburseLoan and of the rollback of a disbursement.      *)
(***************************************************************************)
\* A transfer stores cents.
LEMMA TransferInt ==
  ASSUME balance \in [Accounts -> Int], NEW x \in Int
  PROVE  /\ \A l \in Loans : Owner[l] \in Accounts
         /\ Platform \in Accounts
         /\ \A from, to \in Accounts : Transferred(from, to, x) \in [Accounts -> Int]
<1>1. \A a \in Accounts : /\ Stored(Exact(balance[a]) - x) \in Int
                         /\ Stored(Exact(balance[a]) + x) \in Int
  BY StoredInt, ExactInt
<1>2. \A a, b \in Accounts : /\ a # b => Stored(Exact(balance[b]) + x) \in Int
                            /\ \A n \in Int : Stored(Exact(n) + x) \in Int
  BY StoredInt, ExactInt
<1>3. ASSUME NEW from \in Accounts, NEW to \in Accounts
      PROVE  Transferred(from, to, x) \in [Accounts -> Int]
  BY <1>1, <1>2 DEF Transferred
<1> QED
  BY <1>3, DatabaseAssumption DEF Accounts

\* disburseLoan, and what a transaction does to the loan and its schedule.
LEMMA DisburseKeepsMoney ==
  ASSUME Inv, MoneyInv, NEW w \in Workers,
         DisburseStep(w) \/ \E l \in Loans : StartDisburse(w, l)
  PROVE  MoneyInv'
<1>0. <<>> \in Seq(Rows)
  OBVIOUS
<1>1. CASE \E l \in Loans : StartDisburse(w, l)
  BY <1>0, <1>1, BeginKeeps DEF StartDisburse, Paying
<1>2. CASE ClaimDisbursement(w) \/ CompleteDisbursement(w) \/ FailDisbursement(w)
  <2>1. /\ UNCHANGED <<loan, sched, payments, balance, repaid, locks>>
        /\ \E label \in {"idle", "funds", "rollback"} :
             pc' = [pc EXCEPT ![w] = label]
        /\ UNCHANGED req \/ req' = [req EXCEPT ![w] = NoRequest]
    BY <1>2 DEF ClaimDisbursement, CompleteDisbursement, FailDisbursement,
                MarkDisbursement, Continue, Answer, Goto, tables, locks
  <2> QED
    BY <2>1, MoveKeeps DEF Paying
<1>3. CASE CheckFunds(w)
  <2>1. req[w].loan \in Loans
    BY <1>3 DEF CheckFunds, Inv, DisbursementTypeOK, Disbursing
  <2> DEFINE rows == <<AccountRow(Platform), AccountRow(Owner[req[w].loan]),
                       LoanRow(req[w].loan)>>
  <2>2. rows \in Seq(Rows)
    BY <2>1, RowsOf
  <2>3. RollBack(w) \/ Begin(w, "fund", req[w], rows)
    BY <1>3 DEF CheckFunds
  <2> HIDE DEF rows
  <2> QED
    BY <2>2, <2>3, BeginKeeps, RollBackKeepsMoney DEF Paying
<1>4. CASE CommitDisbursement(w)
  <2>0. PICK l : l = req[w].loan
    OBVIOUS
  <2>1. l \in Loans /\ Amount[l] \in Int /\ Exact(Amount[l]) \in Int
    BY <1>4, <2>0, AmountInt DEF CommitDisbursement, Inv, DisbursementTypeOK,
                                 Disbursing
  <2>2. /\ balance' \in [Accounts -> Int]
        /\ loan' = [loan EXCEPT ![l] = [status |-> "ACTIVE", outstanding |-> Amount[l]]]
        /\ sched' = [sched EXCEPT ![l] = [i \in Installments(l) |-> "PENDING"]]
        /\ UNCHANGED <<payments, repaid>>
    BY <1>4, <2>0, <2>1, TransferInt DEF CommitDisbursement, MoneyInv, TablesOK
  <2>3. /\ loan' \in [Loans -> [status : Statuses, outstanding : Int]]
        /\ DOMAIN sched' = Loans
        /\ \A m \in Loans : sched'[m] \in [Installments(m) ->
                                           ScheduleStatus \cup {"NONE"}]
    BY <2>1, <2>2 DEF MoneyInv, TablesOK, Statuses, LoanStatus, ScheduleStatus
  <2>4. TablesOK'
    BY <2>2, <2>3 DEF MoneyInv, TablesOK, OwnInstallment, Installments
  <2>5. PICK label \in {"complete", "fail"} : pc' = [pc EXCEPT ![w] = label]
    BY <1>4 DEF CommitDisbursement, Goto
  <2>6. req' = [req EXCEPT ![w] = req[w]]
    BY <1>4 DEF CommitDisbursement, Inv, DisbursementTypeOK
  <2>7. label \notin Paying \cup {"refund"}
    BY DEF Paying
  <2>8. \A v \in Workers : LocalsOK(v)'
    BY <2>2, <2>5, <2>6, <2>7, LocalsMove DEF MoneyInv
  <2>9. LocksOK'
    BY <1>0, <1>4, <2>2, LocksMove, {} \in SUBSET Rows
       DEF CommitDisbursement, ReleaseAll, MoneyInv
  <2> QED
    BY <2>4, <2>8, <2>9 DEF MoneyInv
<1> QED
  BY <1>1, <1>2, <1>3, <1>4 DEF DisburseStep

\* rollbackDisbursement, asked for or as a compensation.
LEMMA ReversalKeepsMoney ==
  ASSUME Inv, MoneyInv, NEW w \in Workers,
         \/ \E l \in Loans : StartRollbackDisbursement(w, l)
         \/ Compensate(w) \/ ReadActivePayments(w) \/ CheckRefundable(w)
         \/ CommitReversal(w)
  PROVE  MoneyInv'
<1>0. <<>> \in Seq(Rows)
  OBVIOUS
<1>1. CASE \E l \in Loans : StartRollbackDisbursement(w, l)
  BY <1>0, <1>1, BeginKeeps DEF StartRollbackDisbursement, Paying
<1>2. CASE Compensate(w) \/ ReadActivePayments(w)
  <2>1. CASE RollBack(w)
    BY <2>1, RollBackKeepsMoney
  <2>2. CASE ~RollBack(w)
    <3>1. /\ UNCHANGED <<loan, sched, payments, balance, repaid, locks>>
          /\ \E label \in {"activePayments", "refundable"} :
               pc' = [pc EXCEPT ![w] = label]
          /\ UNCHANGED req
      BY <1>2, <2>2 DEF Compensate, ReadActivePayments, Continue, Goto, tables
    <3> QED
      BY <3>1, MoveKeeps DEF Paying
  <2> QED
    BY <2>1, <2>2
<1>3. CASE CheckRefundable(w)
  <2>0. PICK l : l = req[w].loan
    OBVIOUS
  <2>1. l \in Loans
    BY <1>3, <2>0 DEF CheckRefundable, Inv, DisbursementTypeOK, Undoing
  <2> DEFINE first == <<AccountRow(Owner[l]), AccountRow(Platform), DisbRow(l),
                        LoanRow(l)>>
             rest == [i \in Installments(l) |-> SchedRow(l, i)]
  <2>2. first \in Seq(Rows)
    BY <2>1, RowsOf
  <2>3. rest \in Seq(Rows)
    <3>1. rest \in [1..Len(Principal[l]) -> Rows] /\ Len(Principal[l]) \in Nat
      BY <2>1, RowsOf, InstallmentsNumbered
    <3> HIDE DEF rest
    <3> QED
      BY <3>1
  <2>4. first \o rest \in Seq(Rows)
    <3> HIDE DEF first, rest
    <3> QED
      BY <2>2, <2>3, ConcatProperties
  <2>5. RollBack(w) \/ Begin(w, "reverse", req[w], first \o rest)
    BY <1>3, <2>0 DEF CheckRefundable
  <2> HIDE DEF first, rest
  <2> QED
    BY <2>4, <2>5, BeginKeeps, RollBackKeepsMoney DEF Paying
<1>4. CASE CommitReversal(w)
  <2>0. PICK l : l = req[w].loan
    OBVIOUS
  <2>1. l \in Loans /\ Exact(Amount[l]) \in Int
    BY <1>4, <2>0, AmountInt DEF CommitReversal, Inv, DisbursementTypeOK, Undoing
  <2>2. /\ balance' \in [Accounts -> Int]
        /\ loan' = [loan EXCEPT ![l] = [status |-> "APPROVED", outstanding |-> 0]]
        /\ sched' = [sched EXCEPT ![l] = ScheduleDeleted(l)]
        /\ payments' = [k \in DOMAIN payments |->
                         IF payments[k].loan = l
                         THEN [payments[k] EXCEPT !.inst = 0] ELSE payments[k]]
        /\ UNCHANGED repaid
    BY <1>4, <2>0, <2>1, TransferInt DEF CommitReversal, MoneyInv, TablesOK
  <2>3. /\ loan' \in [Loans -> [status : Statuses, outstanding : Int]]
        /\ DOMAIN sched' = Loans
        /\ \A m \in Loans : sched'[m] \in [Installments(m) ->
                                           ScheduleStatus \cup {"NONE"}]
    BY <2>1, <2>2 DEF MoneyInv, TablesOK, Statuses, LoanStatus, ScheduleDeleted
  <2>4. DOMAIN payments = 1..Len(payments) /\ Len(payments) \in Nat
        /\ \A k \in DOMAIN payments : payments[k] \in PaymentRows
    BY LenProperties, ElementOfSeq DEF MoneyInv, TablesOK
  <2>5. /\ payments' \in [DOMAIN payments -> PaymentRows]
        /\ \A k \in DOMAIN payments' : OwnInstallment(payments'[k])
    BY <2>2, <2>4, ZenonT(60) DEF PaymentRows, OwnInstallment, MoneyInv, TablesOK
  <2>6. payments' \in Seq(PaymentRows)
    BY <2>4, <2>5
  <2>7. TablesOK'
    BY <2>2, <2>3, <2>5, <2>6 DEF MoneyInv, TablesOK, OwnInstallment,
                                  Installments, PaymentRows
  <2> QED
    BY <1>4, <2>2, <2>7, EndKeeps DEF CommitReversal
<1> QED
  BY <1>1, <1>2, <1>3, <1>4

-----------------------------------------------------------------------------
(***************************************************************************)
(* rollbackPayment.                                                        *)
(***************************************************************************)
\* It locks the payment, its loan and, if they are there, its installment.
LEMMA StartRefundKeepsMoney ==
  ASSUME Inv, MoneyInv, NEW w \in Workers, NEW k \in DOMAIN payments,
         StartRollbackPayment(w, k)
  PROVE  MoneyInv'
<1> DEFINE p == payments[k]
           r == [op |-> "refund", payment |-> k, loan |-> p.loan, inst |-> p.inst,
                 principal |-> p.principal, status |-> loan[p.loan].status,
                 outstanding |-> loan[p.loan].outstanding]
           money == IF p.principal > 0
                    THEN <<AccountRow(Platform), AccountRow(Owner[p.loan])>> ELSE <<>>
           own == <<PaymentRow(k), LoanRow(p.loan)>>
           due == IF p.inst # 0 THEN <<SchedRow(p.loan, p.inst)>> ELSE <<>>
<1>1. /\ p.loan \in Loans /\ p.principal \in Int
      /\ p.inst \in {0} \cup Installments(p.loan)
      /\ loan[p.loan] \in [status : Statuses, outstanding : Int]
  <2>1. p \in PaymentRows
    BY LenProperties, ElementOfSeq DEF MoneyInv, TablesOK
  <2> QED
    BY <2>1 DEF MoneyInv, TablesOK, OwnInstallment, PaymentRows
<1>2. r \in RefundRequests(p.loan)
  BY <1>1 DEF RefundRequests
<1>3. money \in Seq(Rows) /\ own \in Seq(Rows) /\ due \in Seq(Rows)
  BY <1>1, RowsOf
<1>4. Begin(w, "refund", r, money \o own \o due)
  BY DEF StartRollbackPayment
<1> HIDE DEF money, own, due, r
<1>5. money \o own \o due \in Seq(Rows)
  BY <1>3, ConcatProperties
<1> QED
  BY <1>1, <1>2, <1>4, <1>5, BeginKeeps DEF Paying

\* Two columns of a row get new values.
LEMMA RowUpdated ==
  ASSUME NEW A, NEW B, NEW C, NEW D, NEW E, NEW F,
         NEW p \in [loan : A, inst : B, day : C, principal : D, status : E,
                    refunds : F],
         NEW s \in E, NEW n \in F
  PROVE  LET q == [p EXCEPT !.status = s, !.refunds = n]
         IN  /\ q \in [loan : A, inst : B, day : C, principal : D, status : E,
                       refunds : F]
             /\ q.inst = p.inst /\ q.loan = p.loan
OBVIOUS

\* Its commit gives back what the payment recorded.
LEMMA RefundKeepsMoney ==
  ASSUME Inv, MoneyInv, NEW w \in Workers, CommitRefund(w)
  PROVE  MoneyInv'
<1>0. PICK r, l : r = req[w] /\ l = r.loan
  OBVIOUS
<1>1. l \in Loans /\ r \in RefundRequests(l)
  BY <1>0 DEF CommitRefund, MoneyInv, LocalsOK, RefundRequests
<1>2. /\ r.payment \in DOMAIN payments /\ r.principal \in Int
      /\ r.status \in Statuses /\ r.outstanding \in Int
      /\ r.inst \in {0} \cup Installments(l)
      /\ Exact(r.principal) \in Int
  BY <1>1, ExactInt DEF RefundRequests
<1>3. /\ loan' = [loan EXCEPT ![l] = [status |-> StatusAfterRefund(r),
                                      outstanding |-> OutstandingAfterRefund(r)]]
      /\ payments' = [payments EXCEPT
                       ![r.payment] = [payments[r.payment] EXCEPT
                                        !.status = "ROLLED_BACK", !.refunds = @ + 1]]
      /\ sched' = IF r.inst # 0
                  THEN [sched EXCEPT ![l] = [sched[l] EXCEPT ![r.inst] = "ROLLED_BACK"]]
                  ELSE sched
      /\ UNCHANGED repaid
      /\ ReleaseAll(w) /\ AfterTransaction(w)
  BY <1>0 DEF CommitRefund
<1>4. balance' \in [Accounts -> Int]
  BY <1>0, <1>1, <1>2, TransferInt DEF CommitRefund, MoneyInv, TablesOK
<1>5. loan' \in [Loans -> [status : Statuses, outstanding : Int]]
  BY <1>1, <1>2, <1>3 DEF StatusAfterRefund, OutstandingAfterRefund, Statuses,
                          LoanStatus, MoneyInv, TablesOK
<1>6. /\ DOMAIN sched' = Loans
      /\ \A m \in Loans : sched'[m] \in [Installments(m) ->
                                         ScheduleStatus \cup {"NONE"}]
  BY <1>1, <1>2, <1>3 DEF MoneyInv, TablesOK, ScheduleStatus
<1>7. /\ DOMAIN payments = 1..Len(payments) /\ Len(payments) \in Nat
      /\ \A k \in DOMAIN payments : payments[k] \in PaymentRows
  BY LenProperties, ElementOfSeq DEF MoneyInv, TablesOK
<1>8. /\ payments' \in [DOMAIN payments -> PaymentRows]
      /\ \A k \in DOMAIN payments' : OwnInstallment(payments'[k])
  <2> DEFINE p == payments[r.payment]
             q == [p EXCEPT !.status = "ROLLED_BACK", !.refunds = @ + 1]
  <2>1. q \in PaymentRows /\ q.inst = p.inst /\ q.loan = p.loan
    <3>1. p \in PaymentRows /\ p.refunds + 1 \in Nat
      BY <1>2, <1>7 DEF PaymentRows
    <3> HIDE DEF p
    <3> QED
      BY <3>1, RowUpdated DEF PaymentRows, PaymentStatus
  <2>2. payments' = [payments EXCEPT ![r.payment] = q]
    BY <1>3
  <2> HIDE DEF q
  <2>3. \A k \in DOMAIN payments : OwnInstallment(payments[k])
    BY DEF MoneyInv, TablesOK
  <2> QED
    BY <1>2, <1>7, <2>1, <2>2, <2>3 DEF OwnInstallment
<1>9. payments' \in Seq(PaymentRows)
  BY <1>7, <1>8
<1>10. TablesOK'
  BY <1>3, <1>4, <1>5, <1>6, <1>8, <1>9 DEF MoneyInv, TablesOK, OwnInstallment,
                                            Installments, PaymentRows
<1> QED
  BY <1>3, <1>8, <1>10, EndKeeps

-----------------------------------------------------------------------------
(***************************************************************************)
(* processPayment.                                                         *)
(***************************************************************************)
\* The payment names a loan, and nothing is planned.
LEMMA StartPaymentKeepsMoney ==
  ASSUME Inv, MoneyInv, NEW w \in Workers, NEW l \in Loans, NEW day \in PayDays,
         NEW amount \in PayAmounts, StartPayment(w, l, day, amount)
  PROVE  MoneyInv'
<1> DEFINE r == [op |-> "pay", loan |-> l, day |-> day, amount |-> amount,
                 outstanding |-> loan[l].outstanding, last |-> 0,
                 plan |-> NoPlan]
<1>1. NoPlan \in Plans(l)
  BY SharesInt DEF NoPlan, Plans
<1>2. r \in PayRequests(l)
  BY <1>1, PaymentsAssumption DEF PayRequests, MoneyInv, TablesOK
<1>3. Begin(w, "lastPayment", r, <<>>) /\ <<>> \in Seq(Rows)
  BY DEF StartPayment
<1> HIDE DEF r
<1> QED
  BY <1>2, <1>3, BeginKeeps

\* A payment that goes on.
LEMMA PayingKeeps ==
  ASSUME Inv, MoneyInv, NEW w \in Workers, NEW label \in Paying,
         NEW l \in Loans, NEW request \in PayRequests(l), NEW rows \in Seq(Rows),
         Begin(w, label, request, rows)
  PROVE  MoneyInv'
BY BeginKeeps DEF Paying

\* The plan of a payment: what the principal and the fees of the due
\* installments add up to.
LEMMA PlanOK ==
  ASSUME TablesOK, NEW l \in Loans, NEW r \in PayRequests(l), NEW due,
         due = DueInstallments(l, r.day)
  PROVE  /\ r.outstanding * DailyInterest * (r.day - r.last) \in Int
         /\ SumFunction([i \in due |-> LateFee(i, r.day)]) \in Int
         /\ SumFunction([i \in due |-> Exact(Principal[l][i])]) \in Nat
         /\ due \in SUBSET Installments(l)
         /\ Exact(r.amount) \in Int
<1>1. r.day \in Nat /\ r.last \in Nat /\ r.outstanding \in Int /\ r.amount \in Nat
  BY DEF PayRequests
<1>2. r.outstanding * DailyInterest * (r.day - r.last) \in Int
  BY <1>1, Products, PaymentsAssumption
<1>3. due \in SUBSET Installments(l) /\ IsFiniteSet(due)
  BY InstallmentsNumbered, FS_Subset DEF DueInstallments
<1> DEFINE f == [i \in due |-> LateFee(i, r.day)]
           g == [i \in due |-> Exact(Principal[l][i])]
<1>4. (\A i \in due : f[i] \in Int) /\ (\A i \in due : g[i] \in Int /\ g[i] >= 0)
  BY <1>1, <1>3, DueInt
<1>5. SumFunction(f) = SumFunctionOnSet(f, due) /\ SumFunction(g) = SumFunctionOnSet(g, due)
  BY DEF SumFunction
<1> HIDE DEF f, g
<1>6. SumFunctionOnSet(f, due) \in Int /\ SumFunctionOnSet(g, due) \in Nat
  BY <1>3, <1>4, SumType
<1> QED
  BY <1>1, <1>2, <1>3, <1>5, <1>6, ExactInt DEF f, g

\* The last payment that stands has a date, the day of disbursement if none is.
LEMMA LastDay ==
  ASSUME TablesOK, NEW l \in Loans
  PROVE  /\ LastPaymentDay(l) \in Nat
         /\ LastPaymentDay(l) \in PaidDays(l)
         /\ \A k \in Completed(l) : payments[k].day <= LastPaymentDay(l)
<1>1. IsFiniteSet(Completed(l)) /\ \A k \in Completed(l) : payments[k].day \in Nat
  <2>1. \A k \in DOMAIN payments : payments[k] \in PaymentRows
    BY LenProperties, ElementOfSeq DEF TablesOK
  <2> QED
    BY <2>1, DueInt DEF Completed, PaymentRows
<1>2. \E d \in PaidDays(l) : \A e \in PaidDays(l) : e <= d
  <2>1. CASE Completed(l) = {}
    BY <2>1 DEF PaidDays
  <2>2. CASE Completed(l) # {}
    <3> DEFINE f == [k \in Completed(l) |-> payments[k].day]
    <3>1. \A k \in Completed(l) : f[k] \in Int /\ f[k] = payments[k].day
      BY <1>1
    <3> HIDE DEF f
    <3>2. PICK k \in Completed(l) : \A j \in Completed(l) : f[j] <= f[k]
      BY <1>1, <2>2, <3>1, HighestOf
    <3> QED
      BY <1>1, <3>1, <3>2 DEF PaidDays
  <2> QED
    BY <2>1, <2>2
<1>3. /\ LastPaymentDay(l) \in PaidDays(l)
      /\ \A e \in PaidDays(l) : e <= LastPaymentDay(l)
  BY <1>2 DEF LastPaymentDay
<1> QED
  BY <1>1, <1>3 DEF PaidDays

\* The oldest of the installments that are due is one of them.
LEMMA OldestDue ==
  ASSUME NEW l \in Loans, NEW due \in SUBSET Installments(l), due # {}
  PROVE  Oldest(due) \in due /\ \A j \in due : Oldest(due) <= j
<1>1. IsFiniteSet(due) /\ due \subseteq Int
  BY InstallmentsNumbered, FS_Subset
<1>2. \E i \in due : \A j \in due : i <= j
  BY <1>1, LeastOf
<1> QED
  BY <1>2 DEF Oldest

\* A request, or the plan of a payment, with new values.
LEMMA RequestUpdated ==
  ASSUME NEW A, NEW B, NEW C, NEW D, NEW E, NEW F, NEW G,
         NEW r \in [op : A, loan : B, day : C, amount : D, outstanding : E,
                    last : F, plan : G],
         NEW x \in F, NEW p \in G
  PROVE  /\ [r EXCEPT !.last = x] \in [op : A, loan : B, day : C, amount : D,
                                      outstanding : E, last : F, plan : G]
         /\ [r EXCEPT !.plan = p] \in [op : A, loan : B, day : C, amount : D,
                                      outstanding : E, last : F, plan : G]
OBVIOUS

\* The same of a plan.
LEMMA PlanUpdated ==
  ASSUME NEW A, NEW B, NEW C, NEW D, NEW E, NEW F,
         NEW p \in [alloc : A, principalDue : B, amount : C, due : D, spread : E,
                    rows : F],
         NEW a \in A, NEW b \in B, NEW c \in C, NEW d \in D, NEW e \in E, NEW f \in F
  PROVE  /\ [p EXCEPT !.alloc = a, !.principalDue = b, !.amount = c, !.due = d]
              \in [alloc : A, principalDue : B, amount : C, due : D, spread : E,
                   rows : F]
         /\ [p EXCEPT !.due = d, !.spread = e, !.rows = f]
              \in [alloc : A, principalDue : B, amount : C, due : D, spread : E,
                   rows : F]
OBVIOUS

\* processPayment before its commit.
LEMMA PlanningKeepsMoney ==
  ASSUME Inv, MoneyInv, NEW w \in Workers,
         ReadLastPayment(w) \/ PlanPayment(w) \/ ShareOut(w) \/ CheckTransfer(w)
  PROVE  MoneyInv'
<1>0. PICK l \in Loans : req[w] \in PayRequests(l)
  <2>1. pc[w] \in Paying
    BY DEF ReadLastPayment, PlanPayment, ShareOut, CheckTransfer, Paying
  <2> QED
    BY <2>1 DEF MoneyInv, LocalsOK
<1>1. PICK r \in PayRequests(l) : r = req[w]
  BY <1>0
<1>2. /\ r.loan = l /\ r.day \in Nat /\ r.last \in Nat /\ r.plan \in Plans(l)
      /\ r.amount \in Nat
  BY DEF PayRequests
<1>3. TablesOK /\ <<>> \in Seq(Rows)
  BY DEF MoneyInv
<1>4. CASE RollBack(w)
  BY <1>4, RollBackKeepsMoney
<1>5. CASE ReadLastPayment(w) /\ ~RollBack(w)
  <2> DEFINE q == [r EXCEPT !.last = LastPaymentDay(l)]
  <2>1. Begin(w, "plan", q, <<>>)
    BY <1>1, <1>2, <1>5 DEF ReadLastPayment
  <2>2. LastPaymentDay(l) \in Nat
    BY <1>3, LastDay
  <2>3. q \in PayRequests(l)
    BY <1>2, <2>2, RequestUpdated DEF PayRequests
  <2> HIDE DEF q
  <2> QED
    BY <1>3, <2>1, <2>3, PayingKeeps DEF Paying
<1>6. CASE PlanPayment(w) /\ ~RollBack(w)
  <2> DEFINE due == DueInstallments(l, r.day)
             interest  == r.outstanding * DailyInterest * (r.day - r.last)
             fees      == SumFunction([i \in due |-> LateFee(i, r.day)])
             principal == SumFunction([i \in due |-> Exact(Principal[l][i])])
             amount    == IF r.amount # 0 THEN Exact(r.amount)
                                          ELSE principal + interest + fees
  <2>0. PICK e \in Error :
          Begin(w, "share",
                [r EXCEPT !.plan =
                  [NoPlan EXCEPT
                    !.alloc = Allocate(amount, interest, fees, principal, e),
                    !.principalDue = principal, !.amount = amount, !.due = due]],
                <<>>)
    BY <1>1, <1>2, <1>6, ZenonT(60) DEF PlanPayment
  <2> DEFINE alloc == Allocate(amount, interest, fees, principal, e)
             plan == [NoPlan EXCEPT !.alloc = alloc, !.principalDue = principal,
                                    !.amount = amount, !.due = due]
             q == [r EXCEPT !.plan = plan]
  <2>1. Begin(w, "share", q, <<>>) /\ e \in Int
    BY <2>0, ErrorAssumption
  <2>2. /\ interest \in Int /\ fees \in Int /\ principal \in Nat
        /\ due \in SUBSET Installments(l) /\ Exact(r.amount) \in Int
    BY <1>3, PlanOK
  <2> HIDE DEF due, interest, fees, principal
  <2>3. amount \in Int
    BY <2>2
  <2> HIDE DEF amount
  <2>4. alloc \in Shares
    BY <2>1, <2>2, <2>3, SharesInt
  <2> HIDE DEF alloc
  <2>5. NoPlan \in Plans(l)
    BY SharesInt DEF NoPlan, Plans
  <2>6. plan \in Plans(l)
    <3> HIDE DEF alloc
    <3>1. \A p \in Plans(l) :
            [p EXCEPT !.alloc = alloc, !.principalDue = principal,
                      !.amount = amount, !.due = due] \in Plans(l)
      BY <2>2, <2>3, <2>4, PlanUpdated DEF Plans
    <3> QED
      BY <2>5, <3>1
  <2> HIDE DEF plan
  <2>7. q \in PayRequests(l)
    BY <1>2, <2>6, RequestUpdated DEF PayRequests
  <2> HIDE DEF q
  <2> QED
    BY <1>3, <2>1, <2>7, PayingKeeps DEF Paying
<1>7. CASE ShareOut(w)
  <2> DEFINE p == r.plan
             i == Oldest(p.due)
             own == Exact(Principal[l][i])
             share == Share(p.alloc, p.spread, own, p.principalDue, p.due = {i},
                            LateFee(i, r.day), Exact(PaidOn(l, i)))
             row == [inst |-> i, principal |-> Stored(share.principal),
                     total |-> Stored(Total(share)), covered |-> Covered(own, share)]
             pays == Total(share) > 0
             rest == p.due \ {i}
             spread == Plus(p.spread, share)
             list == IF pays THEN Append(p.rows, row) ELSE p.rows
             plan == [p EXCEPT !.due = rest, !.spread = spread, !.rows = list]
             q == [r EXCEPT !.plan = plan]
             rows == IF pays THEN <<SchedRow(l, i)>> ELSE <<>>
  <2>1. Begin(w, "share", q, rows) /\ p.due # {}
    BY <1>1, <1>2, <1>7 DEF ShareOut
  <2>2. /\ p.alloc \in Shares /\ p.spread \in Shares /\ p.principalDue \in Nat
        /\ p.amount \in Int /\ p.due \in SUBSET Installments(l)
        /\ p.rows \in Seq(PlanRows(l)) /\ p \in Plans(l)
    BY <1>2 DEF Plans
  <2> HIDE DEF p
  <2>3. i \in p.due /\ i \in Installments(l)
    BY <2>1, <2>2, OldestDue
  <2> HIDE DEF i
  <2>4. own \in Int /\ LateFee(i, r.day) \in Int /\ Exact(PaidOn(l, i)) \in Int
    BY <1>2, <1>3, <2>3, DueInt, ExactInt
  <2> HIDE DEF own
  <2>5. share \in Shares
    BY <2>2, <2>4, SharesInt
  <2> HIDE DEF share
  <2>6. /\ spread \in Shares /\ Total(share) \in Int /\ rest \in SUBSET Installments(l)
        /\ share.principal \in Int
    BY <2>2, <2>5, SharesInt DEF Shares
  <2>7. pays => row \in PlanRows(l)
    <3>1. /\ Stored(share.principal) \in Int
          /\ pays => Stored(Total(share)) \in Nat
      BY <2>6, StoredInt
    <3>2. Covered(own, share) \in BOOLEAN
      BY DEF Covered
    <3> QED
      BY <2>3, <3>1, <3>2 DEF PlanRows
  <2>8. list \in Seq(PlanRows(l)) /\ rows \in Seq(Rows)
    BY <2>2, <2>3, <2>7, Appended, RowsOf
  <2> HIDE DEF list, rest, spread, rows
  <2>9. plan \in Plans(l)
    BY <2>2, <2>6, <2>8, PlanUpdated DEF Plans
  <2> HIDE DEF plan
  <2>10. q \in PayRequests(l)
    BY <1>2, <2>9, RequestUpdated DEF PayRequests
  <2> HIDE DEF q
  <2> QED
    BY <2>1, <2>8, <2>10, PayingKeeps DEF Paying
<1>8. CASE CheckTransfer(w) /\ ~RollBack(w)
  <2> DEFINE rows == <<AccountRow(Owner[l]), AccountRow(Platform), LoanRow(l)>>
  <2>1. Begin(w, "pay", r, rows)
    BY <1>1, <1>2, <1>8 DEF CheckTransfer
  <2>2. rows \in Seq(Rows)
    BY RowsOf
  <2> HIDE DEF rows
  <2> QED
    BY <2>1, <2>2, PayingKeeps DEF Paying
<1> QED
  BY <1>4, <1>5, <1>6, <1>7, <1>8

\* The commit of processPayment stores what was planned.
LEMMA PaymentKeepsMoney ==
  ASSUME Inv, MoneyInv, NEW w \in Workers, CommitPayment(w)
  PROVE  MoneyInv'
<1>0. PICK l \in Loans : req[w] \in PayRequests(l)
  <2>1. pc[w] \in Paying
    BY DEF CommitPayment, Paying
  <2> QED
    BY <2>1 DEF MoneyInv, LocalsOK
<1>1. PICK r \in PayRequests(l) : r = req[w]
  BY <1>0
<1> DEFINE planned == r.plan.rows
           added == [n \in DOMAIN planned |->
                      [loan |-> l, inst |-> planned[n].inst, day |-> r.day,
                       principal |-> planned[n].principal,
                       status |-> "COMPLETED", refunds |-> 0]]
           totals == [n \in DOMAIN planned |-> planned[n].total]
           rest == OutstandingAfterPayment(r)
<1>2. /\ r.loan = l /\ r.day \in Nat /\ r.outstanding \in Int
      /\ r.plan \in Plans(l) /\ r.plan.amount \in Int
      /\ r.plan.alloc.principal \in Int /\ planned \in Seq(PlanRows(l))
  BY DEF PayRequests, Plans, Shares
<1>3. /\ Len(planned) \in Nat /\ DOMAIN planned = 1..Len(planned)
      /\ \A n \in DOMAIN planned : planned[n] \in PlanRows(l)
  BY <1>2, LenProperties, ElementOfSeq
<1>4. /\ payments' = payments \o added
      /\ repaid' = repaid + SumFunction(totals)
      /\ \E s \in {"CLOSED", "ACTIVE"} :
           loan' = [loan EXCEPT ![l] = [status |-> s, outstanding |-> Stored(rest)]]
      /\ balance' = Transferred(Owner[l], Platform, r.plan.amount)
      /\ ReleaseAll(w) /\ AfterTransaction(w)
  BY <1>1, <1>2 DEF CommitPayment
<1>5. /\ DOMAIN sched' = Loans
      /\ \A m \in Loans : sched'[m] \in [Installments(m) ->
                                         ScheduleStatus \cup {"NONE"}]
  BY <1>1, <1>2 DEF CommitPayment, MoneyInv, TablesOK, ScheduleStatus
<1>6. added \in Seq(PaymentRows)
      /\ \A n \in DOMAIN added : OwnInstallment(added[n])
  <2>1. \A n \in DOMAIN planned :
          /\ planned[n].inst \in Installments(l) /\ planned[n].inst \in Nat
          /\ planned[n].principal \in Int
    BY <1>3, InstallmentsNumbered DEF PlanRows
  <2>2. \A n \in 1..Len(planned) : /\ added[n] \in PaymentRows
                                  /\ OwnInstallment(added[n])
    BY <1>2, <1>3, <2>1 DEF PaymentRows, PaymentStatus, OwnInstallment
  <2>3. added \in [1..Len(planned) -> PaymentRows]
    BY <1>3, <2>2
  <2> HIDE DEF added
  <2> QED
    BY <1>3, <2>2, <2>3
<1> HIDE DEF added
<1>7. /\ payments' \in Seq(PaymentRows) /\ DOMAIN payments \subseteq DOMAIN payments'
      /\ \A k \in DOMAIN payments' : OwnInstallment(payments'[k])
  <2>1. payments \in Seq(PaymentRows)
        /\ \A k \in DOMAIN payments : OwnInstallment(payments[k])
    BY DEF MoneyInv, TablesOK
  <2>2. /\ payments' \in Seq(PaymentRows)
        /\ Len(payments') = Len(payments) + Len(added)
        /\ \A k \in 1..Len(payments) + Len(added) :
             payments'[k] = IF k <= Len(payments) THEN payments[k]
                                                  ELSE added[k - Len(payments)]
    BY <1>4, <1>6, <2>1, ConcatProperties
  <2>3. /\ DOMAIN payments' = 1..Len(payments') /\ DOMAIN added = 1..Len(added)
        /\ DOMAIN payments = 1..Len(payments)
        /\ Len(payments) \in Nat /\ Len(added) \in Nat
    BY <1>6, <2>1, <2>2, LenProperties
  <2> HIDE DEF planned, rest, totals
  <2>4. \A k \in DOMAIN payments' :
          \/ k \in DOMAIN payments /\ payments'[k] = payments[k]
          \/ \E n \in DOMAIN added : payments'[k] = added[n]
    BY <2>2, <2>3
  <2>5. ASSUME NEW k \in DOMAIN payments'
        PROVE  OwnInstallment(payments'[k])
    BY <1>6, <2>1, <2>4
  <2>6. DOMAIN payments \subseteq DOMAIN payments'
    BY <2>2, <2>3
  <2> QED
    BY <2>2, <2>5, <2>6
<1>8. repaid' \in Nat
  <2>1. IsFiniteSet(DOMAIN planned)
    <3>1. PICK n \in Nat : n = Len(planned)
      BY <1>3
    <3>2. IsFiniteSet(1..n) /\ DOMAIN planned = 1..n
      BY <1>3, <3>1, FS_Interval
    <3> HIDE DEF planned
    <3> QED
      BY <3>2
  <2>2. \A n \in DOMAIN planned : totals[n] \in Int /\ totals[n] >= 0
    BY <1>3 DEF PlanRows
  <2>3. SumFunction(totals) = SumFunctionOnSet(totals, DOMAIN planned)
    BY DEF SumFunction
  <2> HIDE DEF totals
  <2>4. SumFunction(totals) \in Nat
    BY <2>1, <2>2, <2>3, SumType
  <2> QED
    BY <1>4, <2>4 DEF MoneyInv, TablesOK
<1>9. Stored(rest) \in Int
  <2>1. r.outstanding \in Int /\ r.plan.alloc.principal \in Int
    BY DEF PayRequests, Plans, Shares
  <2>2. Exact(r.outstanding) \in Int
    BY <2>1, ExactInt
  <2>3. rest \in Int
    BY <2>1, <2>2 DEF OutstandingAfterPayment
  <2> HIDE DEF rest
  <2> QED
    BY <2>3, StoredInt
<1>10. /\ loan' \in [Loans -> [status : Statuses, outstanding : Int]]
       /\ balance' \in [Accounts -> Int]
  <2>1. loan' \in [Loans -> [status : Statuses, outstanding : Int]]
    <3> HIDE DEF rest
    <3> QED
      BY <1>4, <1>9 DEF MoneyInv, TablesOK, Statuses, LoanStatus
  <2>2. balance' \in [Accounts -> Int]
    BY <1>2, <1>4, TransferInt DEF MoneyInv, TablesOK
  <2> QED
    BY <2>1, <2>2
<1>11. TablesOK'
  <2>1. /\ PaymentRows' = PaymentRows /\ Accounts' = Accounts
        /\ \A m : Installments(m)' = Installments(m)
    BY DEF PaymentRows, Installments
  <2> QED
    BY <1>5, <1>7, <1>8, <1>10, <2>1 DEF TablesOK, OwnInstallment
<1> QED
  BY <1>4, <1>7, <1>11, EndKeeps

-----------------------------------------------------------------------------
\* The next row is locked.
LEMMA LockKeepsMoney ==
  ASSUME Inv, MoneyInv, NEW w \in Workers, Lock(w)
  PROVE  MoneyInv'
<1>1. wants[w] \in Seq(Rows) /\ wants[w] # <<>> /\ holds[w] \in SUBSET Rows
  BY DEF Lock, MoneyInv, LocksOK
<1>2. Head(wants[w]) \in Rows /\ Tail(wants[w]) \in Seq(Rows)
  BY <1>1, HeadTailProperties
<1>3. /\ wants' = [wants EXCEPT ![w] = Tail(wants[w])]
      /\ holds' = [holds EXCEPT ![w] = holds[w] \cup {Head(wants[w])}]
      /\ UNCHANGED <<tables, handler>>
  BY DEF Lock
<1>4. DOMAIN payments \subseteq DOMAIN payments' /\ TablesOK'
  BY <1>3, TablesStayOK DEF tables, MoneyInv
<1>5. LocksOK'
  <2>1. PICK rows, held : rows = Tail(wants[w]) /\ held = holds[w] \cup {Head(wants[w])}
    OBVIOUS
  <2>2. rows \in Seq(Rows) /\ held \in SUBSET Rows
    BY <1>1, <1>2, <2>1
  <2>3. wants' = [wants EXCEPT ![w] = rows] /\ holds' = [holds EXCEPT ![w] = held]
    BY <1>3, <2>1
  <2> QED
    BY <1>4, <2>2, <2>3, LocksMove DEF MoneyInv
<1>6. \A v \in Workers : LocalsOK(v)'
  BY <1>3 DEF MoneyInv, LocalsOK, RefundRequests, PayRequests, Plans, PlanRows,
              Shares, Statuses, LoanStatus, Installments, handler, tables
<1> QED
  BY <1>4, <1>5, <1>6 DEF MoneyInv

\* A row of the table loans with another status.
LEMMA LoanUpdated ==
  ASSUME NEW A, NEW B, NEW r \in [status : A, outstanding : B], NEW s \in A
  PROVE  [r EXCEPT !.status = s] \in [status : A, outstanding : B]
OBVIOUS

\* A loan is created, or its status patched.
LEMMA LoanChangesKeepMoney ==
  ASSUME Inv, MoneyInv, NEW l \in Loans,
         CreateLoan(l) \/ \E s \in LoanStatus : UpdateLoanStatus(l, s)
  PROVE  MoneyInv'
<1>1. UNCHANGED <<payments, sched, balance, repaid, pc, req, wants, holds>>
  BY DEF CreateLoan, UpdateLoanStatus, handler, locks
<1>2. loan' \in [Loans -> [status : Statuses, outstanding : Int]]
  <2>1. loan[l] \in [status : Statuses, outstanding : Int]
    BY DEF MoneyInv, TablesOK
  <2>2. PICK row \in [status : Statuses, outstanding : Int] :
          loan' = [loan EXCEPT ![l] = row]
    <3>1. CASE CreateLoan(l)
      <4>1. /\ [status |-> "PENDING", outstanding |-> 0]
                 \in [status : Statuses, outstanding : Int]
            /\ loan' = [loan EXCEPT ![l] = [status |-> "PENDING", outstanding |-> 0]]
        BY <3>1 DEF CreateLoan, Statuses, LoanStatus
      <4> QED
        BY <4>1
    <3>2. CASE \E s \in LoanStatus : UpdateLoanStatus(l, s)
      <4>1. PICK s \in LoanStatus : loan' = [loan EXCEPT ![l].status = s]
        BY <3>2 DEF UpdateLoanStatus
      <4>2. s \in Statuses
        BY DEF Statuses
      <4> QED
        BY <2>1, <4>1, <4>2, LoanUpdated
    <3> QED
      BY <3>1, <3>2
  <2> QED
    BY <2>2 DEF MoneyInv, TablesOK
<1>3. TablesOK'
  BY <1>1, <1>2 DEF MoneyInv, TablesOK, OwnInstallment
<1>4. \A v \in Workers : LocalsOK(v)'
  BY <1>1 DEF MoneyInv, LocalsOK, RefundRequests, PayRequests, Plans, PlanRows,
              Shares, Statuses, LoanStatus, Installments
<1>5. LocksOK'
  BY <1>1 DEF MoneyInv, LocksOK, Rows
<1> QED
  BY <1>3, <1>4, <1>5 DEF MoneyInv

\* Every step keeps the types.
LEMMA MoneyStep == Inv /\ MoneyInv /\ [Next]_vars => MoneyInv'
<1> SUFFICES ASSUME Inv, MoneyInv, [Next]_vars PROVE MoneyInv'
  OBVIOUS
<1>1. ASSUME NEW w \in Workers, Arrive(w) PROVE MoneyInv'
  BY <1>1, DisburseKeepsMoney, ReversalKeepsMoney, StartRefundKeepsMoney,
     StartPaymentKeepsMoney DEF Arrive
<1>2. ASSUME NEW w \in Workers, Step(w) PROVE MoneyInv'
  BY <1>2, LockKeepsMoney, RollBackKeepsMoney, DisburseKeepsMoney,
     ReversalKeepsMoney, RefundKeepsMoney, PlanningKeepsMoney, PaymentKeepsMoney
     DEF Step, TransactionFails, RollbackStep, PaymentStep
<1>3. CASE \E l \in Loans : CreateLoan(l) \/ \E s \in LoanStatus : UpdateLoanStatus(l, s)
  BY <1>3, LoanChangesKeepMoney
<1>4. CASE Crash
  <2>1. /\ pc' = [w \in Workers |-> "idle"]
        /\ wants' = [w \in Workers |-> <<>>] /\ holds' = [w \in Workers |-> {}]
        /\ UNCHANGED tables
    BY <1>4 DEF Crash
  <2>2. TablesOK'
    BY <2>1, TablesStayOK DEF MoneyInv, tables
  <2>3. \A v \in Workers : LocalsOK(v)'
    BY <2>1 DEF LocalsOK, Paying
  <2>4. LocksOK'
    BY <2>1 DEF LocksOK
  <2> QED
    BY <2>2, <2>3, <2>4 DEF MoneyInv
<1>5. CASE UNCHANGED vars
  BY <1>5, ZenonT(60) DEF MoneyInv, TablesOK, OwnInstallment, LocalsOK, LocksOK, Rows,
              RefundRequests, PayRequests, Plans, PlanRows, Shares, Statuses,
              LoanStatus, Installments, vars
<1> QED
  BY <1>1, <1>2, <1>3, <1>4, <1>5, PatchAssumption DEF Next, Approve, LoanStatus

\* The types of tables, locals and locks hold in every state.
THEOREM MoneyTypes == Spec => []MoneyInv
BY MoneyStarts, MoneyStep, InvHolds, PTL DEF Spec

\* Every table holds rows of the schema, every handler is at a statement of
\* its request and names a loan, and every lock is one on an existing key,
\* whatever clients send, in any interleaving and with every failure.
THEOREM SystemTypes == Spec => []TypeOK
<1>1. Inv /\ MoneyInv => TypeOK
  <2> SUFFICES ASSUME Inv, MoneyInv PROVE TypeOK
    OBVIOUS
  <2>1. \A w \in Workers : pc[w] # "idle" => req[w].loan \in Loans
    BY DEF Inv, DisbursementTypeOK, MoneyInv, LocalsOK, Labels, InTransaction,
           Disbursing, Undoing, Paying, PayRequests, RefundRequests
  <2> QED
    BY <2>1 DEF Inv, MoneyInv, TablesOK, LocksOK, TypeOK, Statuses
<1> QED
  BY <1>1, MoneyTypes, InvHolds, PTL

-----------------------------------------------------------------------------
(***************************************************************************)
(* Transfers.                                                              *)
(***************************************************************************)
\* What all accounts hold after a transfer.
LEMMA TransferSum ==
  ASSUME balance \in [Accounts -> Int], NEW from \in Accounts, NEW to \in Accounts,
         from # to, NEW x \in Int, balance' = Transferred(from, to, x)
  PROVE  /\ Held \in Int
         /\ Held' = Held - balance[from] - balance[to]
                        + Stored(Exact(balance[from]) - x)
                        + Stored(Exact(balance[to]) + x)
<1>1. IsFiniteSet(Accounts)
  BY DatabaseAssumption, FS_AddElement DEF Accounts
<1>2. /\ Stored(Exact(balance[from]) - x) \in Int
      /\ Stored(Exact(balance[to]) + x) \in Int
      /\ balance[from] \in Int /\ balance[to] \in Int
  BY TwoRounded
<1>3. /\ DOMAIN balance' = Accounts
      /\ balance'[from] = Stored(Exact(balance[from]) - x)
      /\ balance'[to] = Stored(Exact(balance[to]) + x)
      /\ \A z \in Accounts \ {from, to} : balance'[z] = balance[z]
  BY DEF Transferred
<1>4. PICK old, new : old = balance /\ new = balance'
  OBVIOUS
<1>5. \A z \in Accounts : old[z] \in Int /\ new[z] \in Int
  BY <1>2, <1>3, <1>4
<1>6. \A z \in Accounts \ {from, to} : new[z] = old[z]
  BY <1>3, <1>4
<1>7. /\ SumFunctionOnSet(old, Accounts) \in Int
      /\ SumFunctionOnSet(new, Accounts)
           = SumFunctionOnSet(old, Accounts) - old[from] - old[to]
               + new[from] + new[to]
  BY <1>1, <1>5, <1>6, SumTwoChanged
<1>8. /\ Held = SumFunctionOnSet(old, Accounts)
      /\ Held' = SumFunctionOnSet(new, Accounts)
  BY <1>3, <1>4 DEF Held, SumFunction
<1> QED
  BY <1>2, <1>3, <1>4, <1>7, <1>8

\* The records of money, and where it is.
ledger == <<payments, balance, disbTxns, repaid, reversals>>

\* Only commits move money and write records of it.
LEMMA CommitsMoveMoney ==
  ASSUME [Next]_vars
  PROVE  \/ UNCHANGED ledger
         \/ \E w \in Workers : \/ CommitDisbursement(w) \/ CommitReversal(w)
                               \/ CommitRefund(w) \/ CommitPayment(w)
<1>1. ASSUME NEW w \in Workers,
             \/ Arrive(w) \/ Lock(w) \/ TransactionFails(w)
             \/ ClaimDisbursement(w) \/ CheckFunds(w) \/ CompleteDisbursement(w)
             \/ FailDisbursement(w)
      PROVE  UNCHANGED ledger
  BY <1>1 DEF Arrive, Lock, TransactionFails, ClaimDisbursement, CheckFunds,
              CompleteDisbursement, FailDisbursement, MarkDisbursement,
              StartDisburse, StartRollbackDisbursement, StartRollbackPayment,
              StartPayment, Begin, Continue, RollBack, tables, ledger
<1>2. ASSUME NEW w \in Workers,
             \/ Compensate(w) \/ ReadActivePayments(w) \/ CheckRefundable(w)
             \/ ReadLastPayment(w) \/ PlanPayment(w) \/ ShareOut(w)
             \/ CheckTransfer(w)
      PROVE  UNCHANGED ledger
  BY <1>2 DEF Compensate, ReadActivePayments, CheckRefundable, ReadLastPayment,
              PlanPayment, ShareOut, CheckTransfer, Begin, Continue, RollBack,
              tables, ledger
<1>3. CASE \/ Crash \/ UNCHANGED vars
           \/ \E l \in Loans : CreateLoan(l) \/ \E s : UpdateLoanStatus(l, s)
  BY <1>3 DEF Crash, vars, tables, CreateLoan, UpdateLoanStatus, ledger
<1> QED
  BY <1>1, <1>2, <1>3
     DEF Next, Step, DisburseStep, RollbackStep, PaymentStep, Approve

\* A step moves no money, or is one transfer.
LEMMA StepsTransfer ==
  ASSUME Inv, MoneyInv, [Next]_vars
  PROVE  \/ balance' = balance
         \/ \E from, to \in Accounts, x \in Int :
              from # to /\ balance' = Transferred(from, to, x)
<1>0. /\ Platform \in Accounts
      /\ \A l \in Loans : Owner[l] \in Accounts /\ Owner[l] # Platform
  BY DatabaseAssumption DEF Accounts
<1>1. CASE \E w \in Workers : CommitDisbursement(w)
  <2>1. PICK w \in Workers : CommitDisbursement(w)
    BY <1>1
  <2>2. PICK l \in Loans : l = req[w].loan
    BY <2>1 DEF CommitDisbursement, Inv, DisbursementTypeOK, Disbursing
  <2>3. PICK x \in Int : x = Exact(Amount[l])
    BY AmountInt
  <2> QED
    BY <1>0, <2>1, <2>2, <2>3 DEF CommitDisbursement
<1>2. CASE \E w \in Workers : CommitReversal(w)
  <2>1. PICK w \in Workers : CommitReversal(w)
    BY <1>2
  <2>2. PICK l \in Loans : l = req[w].loan
    BY <2>1 DEF CommitReversal, Inv, DisbursementTypeOK, Undoing
  <2>3. PICK x \in Int : x = Exact(Amount[l])
    BY AmountInt
  <2> QED
    BY <1>0, <2>1, <2>2, <2>3 DEF CommitReversal
<1>3. CASE \E w \in Workers : CommitRefund(w)
  <2>1. PICK w \in Workers : CommitRefund(w)
    BY <1>3
  <2>2. PICK l \in Loans : req[w] \in RefundRequests(l)
    BY <2>1 DEF CommitRefund, MoneyInv, LocalsOK
  <2>3. PICK x \in Int : x = Exact(req[w].principal) /\ req[w].loan = l
    BY <2>2, ExactInt DEF RefundRequests
  <2> QED
    BY <1>0, <2>1, <2>2, <2>3 DEF CommitRefund
<1>4. CASE \E w \in Workers : CommitPayment(w)
  <2>1. PICK w \in Workers : CommitPayment(w)
    BY <1>4
  <2>2. pc[w] \in Paying
    BY <2>1 DEF CommitPayment, Paying
  <2>3. PICK l \in Loans : req[w] \in PayRequests(l)
    BY <2>1, <2>2 DEF MoneyInv, LocalsOK
  <2>4. PICK x \in Int : x = req[w].plan.amount /\ req[w].loan = l
    BY <2>3 DEF PayRequests, Plans
  <2> QED
    BY <1>0, <2>1, <2>3, <2>4 DEF CommitPayment
<1> QED
  BY <1>1, <1>2, <1>3, <1>4, CommitsMoveMoney DEF ledger

\* With whole cents nothing is rounded.
LEMMA WholeCents ==
  ASSUME Scale = 1
  PROVE  \A x \in Int : Exact(x) = x /\ Stored(x) = x
<1>1. \A x \in Int : Exact(x) = x
  BY DEF Exact
<1> QED
  BY <1>1, StoredExact

\* When handlers compute with whole cents, no money appears or disappears
\* between accounts, however transfers of any number of handlers interleave,
\* fail or are cut short (transferFunds).
THEOREM MoneyStays ==
  ASSUME Scale = 1
  PROVE  Spec => []MoneyConserved
<1>1. Init => MoneyConserved
  BY DEF Init, MoneyConserved
<1>2. ASSUME Inv, MoneyInv, MoneyConserved, [Next]_vars
      PROVE  MoneyConserved'
  <2>1. CASE balance' = balance
    BY <1>2, <2>1 DEF MoneyConserved
  <2>2. CASE balance' # balance
    <3>1. PICK from \in Accounts, to \in Accounts, x \in Int :
            from # to /\ balance' = Transferred(from, to, x)
      BY <1>2, <2>2, StepsTransfer
    <3>2. balance \in [Accounts -> Int]
      BY <1>2 DEF MoneyInv, TablesOK
    <3>3. /\ Stored(Exact(balance[from]) - x) = balance[from] - x
          /\ Stored(Exact(balance[to]) + x) = balance[to] + x
          /\ balance[from] \in Int /\ balance[to] \in Int
      BY <3>2, WholeCents
    <3>4. Held' = Held /\ Held \in Int
      BY <3>1, <3>2, <3>3, TransferSum
    <3> QED
      BY <1>2, <3>4 DEF MoneyConserved, Held
  <2> QED
    BY <2>1, <2>2
<1> QED
  BY <1>1, <1>2, InvHolds, MoneyTypes, PTL DEF Spec

\* With parts of a cent, a step changes what all accounts hold by a cent at
\* most, also with transfers that overdraw an account because another handler
\* was there between their check and their updates.
THEOREM HeldWithinACent ==
  Spec => [][Held' \in (Held - 1)..(Held + 1)]_vars
<1>1. ASSUME Inv, MoneyInv, [Next]_vars
      PROVE  Held' \in (Held - 1)..(Held + 1)
  <2>0. balance \in [Accounts -> Int]
    BY <1>1 DEF MoneyInv, TablesOK
  <2>1. CASE balance' = balance
    <3>1. Held' = Held
      BY <2>1 DEF Held
    <3>2. Held \in Int
      <4>1. IsFiniteSet(Accounts)
        BY DatabaseAssumption, FS_AddElement DEF Accounts
      <4> QED
        BY <2>0, <4>1, SumType DEF Held, SumFunction
    <3> QED
      BY <3>1, <3>2
  <2>2. CASE balance' # balance
    <3>1. PICK from \in Accounts, to \in Accounts, x \in Int :
            from # to /\ balance' = Transferred(from, to, x)
      BY <1>1, <2>2, StepsTransfer
    <3>2. /\ balance[from] \in Int /\ balance[to] \in Int
      BY <2>0
    <3> DEFINE a == Stored(Exact(balance[from]) - x)
               b == Stored(Exact(balance[to]) + x)
    <3>3. /\ Held \in Int
          /\ Held' = Held - balance[from] - balance[to] + a + b
      BY <2>0, <3>1, TransferSum
    <3>4. /\ a \in Int /\ b \in Int
          /\ a + b \in (balance[from] + balance[to] - 1)
                        ..(balance[from] + balance[to] + 1)
      BY <3>2, TwoRounded
    <3> HIDE DEF a, b
    <3> QED
      BY <3>2, <3>3, <3>4
  <2> QED
    BY <2>1, <2>2
<1> QED
  BY <1>1, InvHolds, MoneyTypes, PTL DEF Spec

-----------------------------------------------------------------------------
(***************************************************************************)
(* Requests that overlap.  A handler that undoes something has read that   *)
(* it was not undone.  Once it is, no further handler starts, and those    *)
(* that have started commit once each: what was done and what is about to  *)
(* be done never exceed the number of handlers.                            *)
(***************************************************************************)

\* The handlers that are about to refund payment k, and to reverse loan l.
Refunding(k) == {w \in Workers : pc[w] = "refund" /\ req[w].payment = k}
Reversing(l) == {w \in Workers : pc[w] \in Undoing /\ req[w].loan = l}

OverlapInv ==
  /\ \A k \in DOMAIN payments : payments[k].refunds > 0 =>
       /\ ~Refundable(k)
       /\ payments[k].refunds + Cardinality(Refunding(k)) <= Cardinality(Workers)
  /\ \A l \in Loans : reversals[l] > 0 =>
       reversals[l] + Cardinality(Reversing(l)) <= Cardinality(Workers)

\* Counting handlers: some of them are no more, and without one they are fewer.
LEMMA Fewer ==
  ASSUME IsFiniteSet(Workers), NEW B \in SUBSET Workers, NEW A \in SUBSET B
  PROVE  /\ Cardinality(A) \in Nat /\ Cardinality(B) \in Nat
         /\ Cardinality(Workers) \in Nat
         /\ Cardinality(A) <= Cardinality(B)
         /\ Cardinality(B) <= Cardinality(Workers)
         /\ \A w \in B \ A : Cardinality(A) + 1 <= Cardinality(B)
<1>1. /\ IsFiniteSet(A) /\ IsFiniteSet(B)
      /\ Cardinality(A) \in Nat /\ Cardinality(B) \in Nat
      /\ Cardinality(Workers) \in Nat
      /\ Cardinality(A) <= Cardinality(B)
      /\ Cardinality(B) <= Cardinality(Workers)
  BY FS_Subset, FS_CardinalityType
<1>2. ASSUME NEW w \in B \ A PROVE Cardinality(A) + 1 <= Cardinality(B)
  <2>1. PICK C : C = A \cup {w}
    OBVIOUS
  <2>2. Cardinality(C) = Cardinality(A) + 1
    BY <1>1, <2>1, FS_AddElement
  <2>3. Cardinality(C) <= Cardinality(B)
    BY <1>1, <2>1, FS_Subset
  <2> QED
    BY <2>2, <2>3
<1> QED
  BY <1>1, <1>2

\* Where one handler goes on, the others stay.
LEMMA OneMoves ==
  ASSUME DisbursementTypeOK, NEW w \in Workers, NEW label, NEW request,
         pc' = [pc EXCEPT ![w] = label], req' = [req EXCEPT ![w] = request],
         NEW k, NEW l
  PROVE  /\ (label = "refund" /\ request.payment = k => w \in Refunding(k))
              => Refunding(k)' \subseteq Refunding(k)
         /\ (label \in Undoing /\ request.loan = l => w \in Reversing(l))
              => Reversing(l)' \subseteq Reversing(l)
<1>1. /\ pc'[w] = label /\ req'[w] = request
      /\ \A v \in Workers \ {w} : pc'[v] = pc[v] /\ req'[v] = req[v]
  BY DEF DisbursementTypeOK
<1> QED
  BY <1>1 DEF Refunding, Reversing

\* The end of a transaction is the end of what it undoes.
LEMMA EndsUndoing ==
  ASSUME DisbursementTypeOK, NEW w \in Workers, AfterTransaction(w),
         NEW k, NEW l
  PROVE  /\ Refunding(k)' \subseteq Refunding(k) \ {w}
         /\ Reversing(l)' \subseteq Reversing(l) \ {w}
<1>1. PICK label, request : /\ label \in {"idle", "fail"}
                            /\ pc' = [pc EXCEPT ![w] = label]
                            /\ req' = [req EXCEPT ![w] = request]
  BY DEF AfterTransaction, Answer, Goto, DisbursementTypeOK
<1>2. label # "refund" /\ label \notin Undoing
  BY <1>1 DEF Undoing
<1>3. Refunding(k)' \subseteq Refunding(k) /\ Reversing(l)' \subseteq Reversing(l)
  BY <1>1, <1>2, OneMoves
<1>4. w \notin Refunding(k)' /\ w \notin Reversing(l)'
  BY <1>1, <1>2 DEF Refunding, Reversing, DisbursementTypeOK
<1> QED
  BY <1>3, <1>4

\* Nobody starts to undo what is undone (the status checks of RollbackService).
LEMMA NobodyStarts ==
  ASSUME Inv, [Next]_vars, NEW k, NEW l
  PROVE  /\ ~Refundable(k) => Refunding(k)' \subseteq Refunding(k)
         /\ ~Rollbackable(l) => Reversing(l)' \subseteq Reversing(l)
<1> DEFINE Goal == /\ ~Refundable(k) => Refunding(k)' \subseteq Refunding(k)
                   /\ ~Rollbackable(l) => Reversing(l)' \subseteq Reversing(l)
<1>0. DisbursementTypeOK
  BY DEF Inv
<1>1. ASSUME UNCHANGED handler PROVE Goal
  BY <1>1 DEF handler, Refunding, Reversing
<1>2. ASSUME NEW w \in Workers, NEW label, NEW request,
             label # "refund" /\ label \notin Undoing,
             pc' = [pc EXCEPT ![w] = label], req' = [req EXCEPT ![w] = request]
      PROVE  Goal
  <2>1. ~(label = "refund" /\ request.payment = k)
    BY <1>2
  <2>2. ~(label \in Undoing /\ request.loan = l)
    BY <1>2
  <2>3. /\ pc' = [pc EXCEPT ![w] = label] /\ req' = [req EXCEPT ![w] = request]
        /\ label = "refund" /\ request.payment = k => w \in Refunding(k)
        /\ label \in Undoing /\ request.loan = l => w \in Reversing(l)
    BY <1>2, <2>1, <2>2
  <2> HIDE DEF Goal
  <2>4. Refunding(k)' \subseteq Refunding(k) /\ Reversing(l)' \subseteq Reversing(l)
    BY <1>0, <2>3, OneMoves
  <2> QED
    BY <2>4 DEF Goal
<1>3. ASSUME NEW w \in Workers, AfterTransaction(w) PROVE Goal
  BY <1>0, <1>3, EndsUndoing
<1>4. ASSUME NEW w \in Workers, pc[w] \in Undoing, NEW label,
             label # "refund", pc' = [pc EXCEPT ![w] = label],
             req' = [req EXCEPT ![w] = req[w]]
      PROVE  Goal
  <2>1. PICK request : request = req[w]
    OBVIOUS
  <2>2. label \in Undoing /\ request.loan = l => w \in Reversing(l)
    BY <1>4, <2>1 DEF Reversing
  <2>3. label = "refund" /\ request.payment = k => w \in Refunding(k)
    BY <1>4
  <2>4. pc' = [pc EXCEPT ![w] = label] /\ req' = [req EXCEPT ![w] = request]
    BY <1>4, <2>1
  <2> HIDE DEF Goal
  <2>5. /\ Refunding(k)' \subseteq Refunding(k)
        /\ Reversing(l)' \subseteq Reversing(l)
    BY <1>0, <2>2, <2>3, <2>4, OneMoves
  <2> QED
    BY <2>5 DEF Goal
<1> HIDE DEF Goal
<1>5. ASSUME NEW w \in Workers, NEW label, NEW request, NEW rows,
             label # "refund" /\ label \notin Undoing,
             Begin(w, label, request, rows)
      PROVE  Goal
  BY <1>2, <1>5 DEF Begin, Goto
<1>6. ASSUME NEW w \in Workers, Arrive(w) PROVE Goal
  <2>1. ASSUME NEW m \in Loans, StartDisburse(w, m) PROVE Goal
    BY <1>5, <2>1 DEF StartDisburse, Undoing
  <2>2. ASSUME NEW m \in Loans, NEW d, NEW a, StartPayment(w, m, d, a) PROVE Goal
    BY <1>5, <2>2 DEF StartPayment, Undoing
  <2>3. ASSUME NEW m \in Loans, StartRollbackDisbursement(w, m) PROVE Goal
    <3> DEFINE r == [op |-> "rollback", loan |-> m]
    <3>1. /\ pc' = [pc EXCEPT ![w] = "activePayments"]
          /\ req' = [req EXCEPT ![w] = r] /\ (~Rollbackable(l) => r.loan # l)
      BY <2>3 DEF StartRollbackDisbursement, Begin, Goto
    <3> HIDE DEF r
    <3>2. PICK label : label = "activePayments"
      OBVIOUS
    <3>3. /\ label = "refund" /\ r.payment = k => w \in Refunding(k)
          /\ ~Rollbackable(l) => r.loan # l
      BY <3>1, <3>2
    <3> QED
      BY <1>0, <3>1, <3>2, <3>3, OneMoves DEF Goal
  <2>4. ASSUME NEW j \in DOMAIN payments, StartRollbackPayment(w, j) PROVE Goal
    <3> DEFINE r == [op |-> "refund", payment |-> j, loan |-> payments[j].loan,
                 inst |-> payments[j].inst, principal |-> payments[j].principal,
                 status |-> loan[payments[j].loan].status,
                 outstanding |-> loan[payments[j].loan].outstanding]
    <3>1. /\ pc' = [pc EXCEPT ![w] = "refund"]
          /\ req' = [req EXCEPT ![w] = r] /\ (~Refundable(k) => r.payment # k)
      BY <2>4 DEF StartRollbackPayment, Begin, Goto
    <3> HIDE DEF r
    <3>2. PICK label : label = "refund"
      OBVIOUS
    <3>3. label \notin Undoing /\ (~Refundable(k) => r.payment # k)
      BY <3>1, <3>2 DEF Undoing
    <3> QED
      BY <1>0, <3>1, <3>2, <3>3, OneMoves DEF Goal
  <2> QED
    BY <1>6, <2>1, <2>2, <2>3, <2>4 DEF Arrive
<1>7. ASSUME NEW w \in Workers, Step(w) PROVE Goal
  <2>1. CASE Lock(w)
    BY <1>1, <2>1 DEF Lock
  <2>2. CASE TransactionFails(w) \/ CommitReversal(w) \/ CommitRefund(w) \/ CommitPayment(w)
    BY <1>3, <2>2 DEF TransactionFails, RollBack, CommitReversal, CommitRefund,
                      CommitPayment
  <2>3. CASE DisburseStep(w)
    <3>1. PICK label, request : /\ label \in {"idle", "funds", "fund", "complete",
                                             "rollback", "fail"}
                                /\ pc' = [pc EXCEPT ![w] = label]
                                /\ req' = [req EXCEPT ![w] = request]
      BY <1>0, <2>3 DEF DisburseStep, ClaimDisbursement, CheckFunds,
             CommitDisbursement, CompleteDisbursement, FailDisbursement, RollBack,
             AfterTransaction, Answer, Goto, Begin, Continue, DisbursementTypeOK
    <3> QED
      BY <1>2, <3>1 DEF Undoing
  <2>4. CASE Compensate(w)
    <3>1. CASE RollBack(w)
      BY <1>3, <3>1 DEF RollBack
    <3>2. CASE Rollbackable(req[w].loan) /\ Continue(w, "activePayments")
      <4>1. /\ pc' = [pc EXCEPT ![w] = "activePayments"]
            /\ req' = [req EXCEPT ![w] = req[w]]
            /\ ~Rollbackable(l) => req[w].loan # l
        BY <1>0, <3>2 DEF Continue, Goto, DisbursementTypeOK
      <4>2. PICK r, label : r = req[w] /\ label = "activePayments"
        OBVIOUS
      <4>3. /\ label = "refund" /\ r.payment = k => w \in Refunding(k)
            /\ ~Rollbackable(l) => r.loan # l
        BY <4>1, <4>2
      <4>4. pc' = [pc EXCEPT ![w] = label] /\ req' = [req EXCEPT ![w] = r]
        BY <4>1, <4>2
      <4> QED
        BY <1>0, <4>3, <4>4, OneMoves DEF Goal
    <3> QED
      BY <2>4, <3>1, <3>2 DEF Compensate
  <2>5. CASE ReadActivePayments(w) \/ CheckRefundable(w)
    <3>1. CASE RollBack(w)
      BY <1>3, <3>1 DEF RollBack
    <3>2. CASE ~RollBack(w)
      <4>1. /\ pc[w] \in Undoing
            /\ \E label \in {"refundable", "reverse"} :
                 pc' = [pc EXCEPT ![w] = label] /\ req' = [req EXCEPT ![w] = req[w]]
        BY <1>0, <2>5, <3>2 DEF ReadActivePayments, CheckRefundable, Begin, Continue,
               Goto, DisbursementTypeOK, Undoing
      <4> QED
        BY <1>4, <4>1
    <3> QED
      BY <3>1, <3>2
  <2>6. CASE ReadLastPayment(w) \/ CheckTransfer(w)
    <3>1. CASE RollBack(w)
      BY <1>3, <3>1 DEF RollBack
    <3>2. CASE ~RollBack(w)
      BY <1>5, <2>6, <3>2 DEF ReadLastPayment, CheckTransfer, Undoing
    <3> QED
      BY <3>1, <3>2
  <2>7. CASE PlanPayment(w)
    BY <1>5, <2>7 DEF PlanPayment, Undoing
  <2>8. CASE ShareOut(w)
    BY <1>5, <2>8 DEF ShareOut, Undoing
  <2> QED
    BY <1>7, <2>1, <2>2, <2>3, <2>4, <2>5, <2>6, <2>7, <2>8
       DEF Step, DisburseStep, RollbackStep, PaymentStep
<1>8. CASE Crash
  <2>1. \A v \in Workers : pc'[v] = "idle"
    BY <1>8 DEF Crash
  <2> QED
    BY <2>1 DEF Goal, Refunding, Reversing, Undoing
<1>9. CASE \/ UNCHANGED vars
           \/ \E m \in Loans : CreateLoan(m) \/ \E s : UpdateLoanStatus(m, s)
  <2>1. UNCHANGED handler
    BY <1>9 DEF vars, handler, CreateLoan, UpdateLoanStatus
  <2> QED
    BY <1>1, <2>1 DEF Goal
<1> QED
  BY <1>6, <1>7, <1>8, <1>9 DEF Next, Approve, Goal

\* Rows are added undone, and only refunds and reversals count.
LEMMA UndoneStays ==
  ASSUME Inv, MoneyInv, [Next]_vars
  PROVE  /\ \A k \in DOMAIN payments' :
              \/ payments'[k].refunds = 0
              \/ /\ k \in DOMAIN payments
                 /\ payments'[k].refunds = payments[k].refunds
                 /\ payments'[k].status = payments[k].status
              \/ \E w \in Workers : /\ CommitRefund(w) /\ k = req[w].payment
                                    /\ k \in DOMAIN payments
                                    /\ payments'[k].status = "ROLLED_BACK"
                                    /\ payments'[k].refunds = payments[k].refunds + 1
         /\ \A l \in Loans :
              \/ reversals'[l] = reversals[l]
              \/ \E w \in Workers : /\ CommitReversal(w) /\ l = req[w].loan
                                    /\ reversals'[l] = reversals[l] + 1
<1>0. payments \in Seq(PaymentRows) /\ reversals \in [Loans -> Nat]
  BY DEF MoneyInv, TablesOK, Inv, DisbursementTypeOK
<1>1. CASE UNCHANGED ledger \/ \E w \in Workers : CommitDisbursement(w)
  BY <1>1 DEF ledger, CommitDisbursement
<1>2. CASE \E w \in Workers : CommitReversal(w)
  <2>1. PICK w \in Workers : CommitReversal(w)
    BY <1>2
  <2>2. \A l \in Loans : \/ reversals'[l] = reversals[l]
                         \/ l = req[w].loan /\ reversals'[l] = reversals[l] + 1
    BY <1>0, <2>1 DEF CommitReversal
  <2>3. \A k \in DOMAIN payments' :
          /\ k \in DOMAIN payments
          /\ payments'[k].refunds = payments[k].refunds
          /\ payments'[k].status = payments[k].status
    <3>1. payments' = [k \in DOMAIN payments |->
                        IF payments[k].loan = req[w].loan
                        THEN [payments[k] EXCEPT !.inst = 0] ELSE payments[k]]
      BY <2>1 DEF CommitReversal
    <3>2. \A k \in DOMAIN payments : payments[k] \in PaymentRows
      BY <1>0, ElementOfSeq
    <3> QED
      BY <3>1, <3>2 DEF PaymentRows
  <2> QED
    BY <2>1, <2>2, <2>3
<1>3. CASE \E w \in Workers : CommitRefund(w)
  <2>1. PICK w \in Workers : CommitRefund(w)
    BY <1>3
  <2>2. PICK j : j = req[w].payment
    OBVIOUS
  <2>3. payments' = [payments EXCEPT ![j].status = "ROLLED_BACK", ![j].refunds = @ + 1]
    BY <2>1, <2>2 DEF CommitRefund
  <2>4. \A k \in DOMAIN payments : payments[k] \in PaymentRows
    BY <1>0, ElementOfSeq
  <2>5. DOMAIN payments' = DOMAIN payments
    BY <2>3
  <2>6. \A k \in DOMAIN payments : k # j => payments'[k] = payments[k]
    BY <2>3
  <2>7. ASSUME j \in DOMAIN payments
        PROVE  /\ payments'[j].status = "ROLLED_BACK"
               /\ payments'[j].refunds = payments[j].refunds + 1
    BY <2>3, <2>4, <2>7 DEF PaymentRows
  <2>8. reversals' = reversals
    BY <2>1 DEF CommitRefund
  <2> QED
    BY <2>1, <2>2, <2>5, <2>6, <2>7, <2>8
<1>4. CASE \E w \in Workers : CommitPayment(w)
  <2>1. PICK w \in Workers : CommitPayment(w)
    BY <1>4
  <2>2. pc[w] \in Paying
    BY <2>1 DEF CommitPayment, Paying
  <2>3. PICK l \in Loans : req[w] \in PayRequests(l)
    BY <2>1, <2>2 DEF MoneyInv, LocalsOK
  <2>4. PICK rows : /\ rows = [n \in DOMAIN req[w].plan.rows |-> rows[n]]
                    /\ \A n \in DOMAIN rows : rows[n].refunds = 0
                    /\ payments' = payments \o rows
    BY <2>1 DEF CommitPayment
  <2>5. IsSeq(rows)
    <3>1. req[w].plan.rows \in Seq(PlanRows(l))
      BY <2>3 DEF PayRequests, Plans
    <3>2. DOMAIN req[w].plan.rows = 1..Len(req[w].plan.rows) /\ Len(req[w].plan.rows) \in Nat
      BY <3>1
    <3> QED
      BY <2>4, <3>2, FunctionIsSeq
  <2>6. IsSeq(payments)
    BY <1>0 DEF IsSeq
  <2>7. /\ Len(payments) \in Nat /\ DOMAIN payments = 1..Len(payments)
        /\ Len(rows) \in Nat /\ DOMAIN rows = 1..Len(rows)
        /\ DOMAIN payments' = 1..(Len(payments) + Len(rows))
        /\ \A k \in 1..Len(payments) : payments'[k] = payments[k]
        /\ \A i \in 1..Len(rows) : payments'[Len(payments) + i] = rows[i]
    BY <2>4, <2>5, <2>6, Indices, Joined
  <2>8. ASSUME NEW k \in DOMAIN payments', k \notin DOMAIN payments
        PROVE  payments'[k].refunds = 0
    <3>1. PICK i : i = k - Len(payments)
      OBVIOUS
    <3>2. i \in 1..Len(rows) /\ k = Len(payments) + i
      BY <2>7, <2>8, <3>1
    <3>3. payments'[k] = rows[i] /\ i \in DOMAIN rows
      BY <2>7, <3>2
    <3> QED
      BY <2>4, <3>3
  <2>9. reversals' = reversals
    BY <2>1 DEF CommitPayment
  <2> QED
    BY <2>7, <2>8, <2>9
<1> QED
  BY <1>1, <1>2, <1>3, <1>4, CommitsMoveMoney

\* Every step keeps the count of what was undone and of those who undo.
LEMMA OverlapStep ==
  ASSUME IsFiniteSet(Workers), Inv, MoneyInv, OverlapInv, [Next]_vars
  PROVE  OverlapInv'
<1>0. /\ DisbursementTypeOK /\ reversals \in [Loans -> Nat]
      /\ \A k \in DOMAIN payments : payments[k].refunds \in Nat
  <2>1. payments \in Seq(PaymentRows)
    BY DEF MoneyInv, TablesOK
  <2>2. \A k \in DOMAIN payments : payments[k] \in PaymentRows
    BY <2>1, ElementOfSeq
  <2> QED
    BY <2>2 DEF PaymentRows, Inv, DisbursementTypeOK
<1>1. \A k : Refunding(k) \in SUBSET Workers /\ Refunding(k)' \in SUBSET Workers
  BY DEF Refunding
<1>2. \A l : Reversing(l) \in SUBSET Workers /\ Reversing(l)' \in SUBSET Workers
  BY DEF Reversing
<1>3. ASSUME NEW k \in DOMAIN payments', payments'[k].refunds > 0
      PROVE  /\ ~Refundable(k)'
             /\ payments'[k].refunds + Cardinality(Refunding(k)')
                  <= Cardinality(Workers)
  <2>1. CASE /\ k \in DOMAIN payments
             /\ payments'[k].refunds = payments[k].refunds
             /\ payments'[k].status = payments[k].status
    <3>1. /\ ~Refundable(k)
          /\ payments[k].refunds + Cardinality(Refunding(k)) <= Cardinality(Workers)
      BY <1>3, <2>1 DEF OverlapInv
    <3>3. Refunding(k)' \in SUBSET Refunding(k)
      BY <3>1, NobodyStarts
    <3>4. /\ Cardinality(Refunding(k)') <= Cardinality(Refunding(k))
          /\ Cardinality(Refunding(k)') \in Nat /\ Cardinality(Refunding(k)) \in Nat
          /\ Cardinality(Workers) \in Nat
      BY <1>1, <3>3, Fewer
    <3>5. ~Refundable(k)'
      BY <2>1, <3>1 DEF Refundable
    <3> QED
      BY <1>0, <2>1, <3>1, <3>4, <3>5
  <2>2. ASSUME NEW w \in Workers, CommitRefund(w), k = req[w].payment,
               k \in DOMAIN payments, payments'[k].status = "ROLLED_BACK",
               payments'[k].refunds = payments[k].refunds + 1
        PROVE  /\ ~Refundable(k)'
               /\ payments'[k].refunds + Cardinality(Refunding(k)')
                    <= Cardinality(Workers)
    <3>1. w \in Refunding(k)
      BY <2>2 DEF CommitRefund, Refunding
    <3>2. Refunding(k)' \subseteq Refunding(k) \ {w}
      BY <1>0, <2>2, EndsUndoing DEF CommitRefund
    <3>3. Refunding(k)' \in SUBSET Refunding(k) /\ w \in Refunding(k) \ Refunding(k)'
      BY <3>1, <3>2
    <3>4. /\ Cardinality(Refunding(k)') + 1 <= Cardinality(Refunding(k))
          /\ Cardinality(Refunding(k)') \in Nat /\ Cardinality(Refunding(k)) \in Nat
          /\ Cardinality(Refunding(k)) <= Cardinality(Workers)
          /\ Cardinality(Workers) \in Nat
      BY <1>1, <3>3, Fewer
    <3>5. payments[k].refunds = 0 \/
          payments[k].refunds + Cardinality(Refunding(k)) <= Cardinality(Workers)
      BY <1>0, <2>2 DEF OverlapInv
    <3>6. ~Refundable(k)'
      BY <2>2 DEF Refundable
    <3> QED
      BY <1>0, <2>2, <3>4, <3>5, <3>6
  <2> QED
    BY <1>3, <2>1, <2>2, UndoneStays
<1>4. ASSUME NEW l \in Loans, reversals'[l] > 0
      PROVE  reversals'[l] + Cardinality(Reversing(l)') <= Cardinality(Workers)
  <2>1. CASE reversals'[l] = reversals[l]
    <3>1. /\ reversals[l] > 0
          /\ reversals[l] + Cardinality(Reversing(l)) <= Cardinality(Workers)
      BY <1>4, <2>1 DEF OverlapInv
    <3>2. ~Rollbackable(l)
      BY <3>1 DEF Rollbackable
    <3>4. Reversing(l)' \in SUBSET Reversing(l)
      BY <3>2, NobodyStarts
    <3>5. /\ Cardinality(Reversing(l)') <= Cardinality(Reversing(l))
          /\ Cardinality(Reversing(l)') \in Nat /\ Cardinality(Reversing(l)) \in Nat
          /\ Cardinality(Workers) \in Nat
      BY <1>2, <3>4, Fewer
    <3> QED
      BY <1>0, <2>1, <3>1, <3>5
  <2>2. ASSUME NEW w \in Workers, CommitReversal(w), l = req[w].loan,
               reversals'[l] = reversals[l] + 1
        PROVE  reversals'[l] + Cardinality(Reversing(l)') <= Cardinality(Workers)
    <3>1. w \in Reversing(l)
      BY <2>2 DEF CommitReversal, Reversing, Undoing
    <3>2. Reversing(l)' \subseteq Reversing(l) \ {w}
      BY <1>0, <2>2, EndsUndoing DEF CommitReversal
    <3>3. Reversing(l)' \in SUBSET Reversing(l) /\ w \in Reversing(l) \ Reversing(l)'
      BY <3>1, <3>2
    <3>4. /\ Cardinality(Reversing(l)') + 1 <= Cardinality(Reversing(l))
          /\ Cardinality(Reversing(l)') \in Nat /\ Cardinality(Reversing(l)) \in Nat
          /\ Cardinality(Reversing(l)) <= Cardinality(Workers)
          /\ Cardinality(Workers) \in Nat
      BY <1>2, <3>3, Fewer
    <3>5. reversals[l] = 0 \/
          reversals[l] + Cardinality(Reversing(l)) <= Cardinality(Workers)
      BY <1>0 DEF OverlapInv
    <3> QED
      BY <1>0, <2>2, <3>4, <3>5
  <2> QED
    BY <1>4, <2>1, <2>2, UndoneStays
<1> QED
  BY <1>3, <1>4 DEF OverlapInv

\* For any finite number of handlers, any requests and every failure, no payment
\* is refunded and no disbursement reversed more often than there are handlers
\* whose requests can overlap: only requests that read before the first of them
\* commits undo again what it undoes, and each does so once (rollbackPayment and
\* rollbackDisbursement read the status before they write).
THEOREM UndoneAtMostOncePerHandler ==
  ASSUME IsFiniteSet(Workers)
  PROVE  Spec => []UndoneByOverlapOnly
<1>1. Init => OverlapInv
  BY DEF Init, DatabaseInit, OverlapInv
<1>2. Inv /\ MoneyInv /\ OverlapInv /\ [Next]_vars => OverlapInv'
  BY OverlapStep
<1>3. Inv /\ MoneyInv /\ OverlapInv => UndoneByOverlapOnly
  <2> SUFFICES ASSUME Inv, MoneyInv, OverlapInv PROVE UndoneByOverlapOnly
    OBVIOUS
  <2>1. /\ reversals \in [Loans -> Nat]
        /\ \A k \in DOMAIN payments : payments[k].refunds \in Nat
    <3>1. payments \in Seq(PaymentRows)
      BY DEF MoneyInv, TablesOK
    <3>2. \A k \in DOMAIN payments : payments[k] \in PaymentRows
      BY <3>1, ElementOfSeq
    <3> QED
      BY <3>2 DEF PaymentRows, Inv, DisbursementTypeOK
  <2>2. Cardinality(Workers) \in Nat
    BY FS_CardinalityType
  <2>3. /\ \A k : Cardinality(Refunding(k)) \in Nat
        /\ \A l : Cardinality(Reversing(l)) \in Nat
    BY FS_Subset, FS_CardinalityType DEF Refunding, Reversing
  <2> QED
    BY <2>1, <2>2, <2>3 DEF OverlapInv, UndoneByOverlapOnly
<1> QED
  BY <1>1, <1>2, <1>3, InvHolds, MoneyTypes, PTL DEF Spec
-----------------------------------------------------------------------------
(***************************************************************************)
(* Closed loans.  Whoever writes the outstanding principal of a loan       *)
(* writes its status with it, and only a patch writes one without the      *)
(* other.                                                                  *)
(***************************************************************************)

\* Only commits and the loan endpoints write loans.
LEMMA CommitsWriteLoans ==
  ASSUME [Next]_vars
  PROVE  \/ UNCHANGED loan
         \/ \E l \in Loans : \/ CreateLoan(l) \/ UpdateLoanStatus(l, "APPROVED")
                            \/ \E s \in PatchStatuses : UpdateLoanStatus(l, s)
         \/ \E w \in Workers : \/ CommitDisbursement(w) \/ CommitReversal(w)
                               \/ CommitRefund(w) \/ CommitPayment(w)
<1>1. ASSUME NEW w \in Workers,
             \/ Arrive(w) \/ Lock(w) \/ TransactionFails(w)
             \/ ClaimDisbursement(w) \/ CheckFunds(w) \/ CompleteDisbursement(w)
             \/ FailDisbursement(w)
      PROVE  UNCHANGED loan
  BY <1>1 DEF Arrive, Lock, TransactionFails, ClaimDisbursement, CheckFunds,
              CompleteDisbursement, FailDisbursement, MarkDisbursement,
              StartDisburse, StartRollbackDisbursement, StartRollbackPayment,
              StartPayment, Begin, Continue, RollBack, tables
<1>2. ASSUME NEW w \in Workers,
             \/ Compensate(w) \/ ReadActivePayments(w) \/ CheckRefundable(w)
             \/ ReadLastPayment(w) \/ PlanPayment(w) \/ ShareOut(w)
             \/ CheckTransfer(w)
      PROVE  UNCHANGED loan
  BY <1>2 DEF Compensate, ReadActivePayments, CheckRefundable, ReadLastPayment,
              PlanPayment, ShareOut, CheckTransfer, Begin, Continue, RollBack, tables
<1>3. CASE Crash \/ UNCHANGED vars
  BY <1>3 DEF Crash, vars, tables
<1> QED
  BY <1>1, <1>2, <1>3
     DEF Next, Step, DisburseStep, RollbackStep, PaymentStep, Approve

\* A loan is written as a whole: it does not become one that is closed and owes.
LEMMA LoanWritten ==
  ASSUME MoneyInv, ClosedOwesNothing, NEW l, NEW status, NEW outstanding,
         loan' = [loan EXCEPT ![l] = [status |-> status, outstanding |-> outstanding]],
         status = "CLOSED" => outstanding <= 0
  PROVE  ClosedOwesNothing'
<1>1. \A m \in Loans : loan'[m] = IF m = l THEN [status |-> status,
                                               outstanding |-> outstanding]
                                           ELSE loan[m]
  BY DEF MoneyInv, TablesOK
<1> QED
  BY <1>1 DEF ClosedOwesNothing

\* Neither does it when its status is patched to another than CLOSED.
LEMMA StatusPatched ==
  ASSUME MoneyInv, ClosedOwesNothing, NEW l \in Loans, NEW status,
         status # "CLOSED", UpdateLoanStatus(l, status)
  PROVE  ClosedOwesNothing'
<1>1. loan' = [loan EXCEPT ![l] = [loan[l] EXCEPT !.status = status]]
  BY DEF UpdateLoanStatus
<1>2. \A m \in Loans : m # l => loan'[m] = loan[m]
  BY <1>1 DEF MoneyInv, TablesOK
<1>3. loan'[l].status = status
  BY <1>1 DEF MoneyInv, TablesOK
<1> QED
  BY <1>2, <1>3 DEF ClosedOwesNothing

\* No step closes a loan that owes, unless it is the patch to CLOSED.
LEMMA ClosedStep ==
  ASSUME "CLOSED" \notin PatchStatuses, MoneyInv, ClosedOwesNothing, [Next]_vars
  PROVE  ClosedOwesNothing'
<1>1. CASE UNCHANGED loan
  BY <1>1 DEF ClosedOwesNothing
<1>2. CASE \E l \in Loans : CreateLoan(l)
  <2>1. PICK l \in Loans : CreateLoan(l)
    BY <1>2
  <2>2. loan' = [loan EXCEPT ![l] = [status |-> "PENDING", outstanding |-> 0]]
    BY <2>1 DEF CreateLoan
  <2>3. "PENDING" = "CLOSED" => 0 <= 0
    OBVIOUS
  <2> QED
    BY <2>2, <2>3, LoanWritten
<1>3. CASE \E l \in Loans : \/ UpdateLoanStatus(l, "APPROVED")
                           \/ \E s \in PatchStatuses : UpdateLoanStatus(l, s)
  BY <1>3, StatusPatched
<1>4. CASE \E w \in Workers : CommitDisbursement(w) \/ CommitReversal(w)
  <2>1. PICK w \in Workers : CommitDisbursement(w) \/ CommitReversal(w)
    BY <1>4
  <2>2. CASE CommitDisbursement(w)
    <3>1. loan' = [loan EXCEPT ![req[w].loan] =
                    [status |-> "ACTIVE", outstanding |-> Amount[req[w].loan]]]
      BY <2>2 DEF CommitDisbursement
    <3>2. "ACTIVE" # "CLOSED"
      OBVIOUS
    <3> QED
      BY <3>1, <3>2, LoanWritten
  <2>3. CASE CommitReversal(w)
    <3>1. loan' = [loan EXCEPT ![req[w].loan] =
                    [status |-> "APPROVED", outstanding |-> 0]]
      BY <2>3 DEF CommitReversal
    <3>2. "APPROVED" # "CLOSED"
      OBVIOUS
    <3> QED
      BY <3>1, <3>2, LoanWritten
  <2> QED
    BY <2>1, <2>2, <2>3
<1>5. CASE \E w \in Workers : CommitRefund(w)
  <2>1. PICK w \in Workers : CommitRefund(w)
    BY <1>5
  <2>2. OutstandingAfterRefund(req[w]) \in Int
    BY <2>1 DEF CommitRefund, MoneyInv, LocalsOK, RefundRequests,
                OutstandingAfterRefund
  <2>3. StatusAfterRefund(req[w]) = "CLOSED" => OutstandingAfterRefund(req[w]) <= 0
    BY <2>2 DEF StatusAfterRefund
  <2> QED
    BY <2>1, <2>3, LoanWritten DEF CommitRefund
<1>6. CASE \E w \in Workers : CommitPayment(w)
  <2>1. PICK w \in Workers : CommitPayment(w)
    BY <1>6
  <2>2. PICK rest, status :
          /\ loan' = [loan EXCEPT ![req[w].loan] =
                       [status |-> status, outstanding |-> Stored(rest)]]
          /\ status = IF rest = 0 THEN "CLOSED" ELSE "ACTIVE"
    BY <2>1 DEF CommitPayment
  <2>3. Stored(0) = 0
    BY DatabaseAssumption DEF Stored
  <2>4. status = "CLOSED" => Stored(rest) <= 0
    <3>1. CASE rest = 0
      BY <2>3, <3>1
    <3>2. CASE rest # 0
      BY <2>2, <3>2
    <3> QED
      BY <3>1, <3>2
  <2> QED
    BY <2>2, <2>4, LoanWritten
<1> QED
  BY <1>1, <1>2, <1>3, <1>4, <1>5, <1>6, CommitsWriteLoans

\* For any number of handlers, any requests and every failure, while no client
\* patches a status to CLOSED: a closed loan owes nothing, although payments and
\* refunds write its status and its outstanding principal from reads that others
\* have overtaken (the updates of the loan in processPayment and rollbackPayment).
THEOREM ClosedNeverOwes ==
  ASSUME "CLOSED" \notin PatchStatuses
  PROVE  Spec => []ClosedOwesNothing
<1>1. Init => ClosedOwesNothing
  BY DEF Init, DatabaseInit, ClosedOwesNothing
<1>2. MoneyInv /\ ClosedOwesNothing /\ [Next]_vars => ClosedOwesNothing'
  BY ClosedStep
<1> QED
  BY <1>1, <1>2, MoneyTypes, PTL DEF Spec
=============================================================================
