--------------------------- MODULE RepaymentProofs ---------------------------
(***************************************************************************)
(* What payments record and what loans owe, with one handler, that is,     *)
(* while requests come one at a time: for any loans, amounts, dates and    *)
(* failures, partial payments and amounts with parts of a cent.            *)
(***************************************************************************)
EXTENDS MoneyProofs

\* Principal that the rows of a plan record.
Recorded(rows) == SumFunction([n \in DOMAIN rows |-> rows[n].principal])

(***************************************************************************)
(* The plan of a payment.  It has at most one row of an installment, whose *)
(* principal is one it still lacks; and the rows record no more than the   *)
(* payment spends on principal but for half a cent each.                   *)
(***************************************************************************)
PlanKept(l, p) ==
  /\ p.spread.principal \in 0..p.alloc.principal
  /\ 2 * Scale * Recorded(p.rows)
       <= 2 * p.spread.principal + Scale * Len(p.rows)
  /\ \A n \in DOMAIN p.rows :
       LET i == p.rows[n].inst IN
       /\ i \notin p.due
       /\ p.rows[n].principal \in 0..(Principal[l][i] - PaidOn(l, i))
       /\ p.rows[n].covered => Principal[l][i] - p.rows[n].principal <= 1
       /\ \A m \in DOMAIN p.rows : p.rows[m].inst = i => m = n

\* What a handler at that statement has read of its loan still holds.
Holds(label, r) ==
  /\ label = "refund" =>
       /\ r.outstanding = loan[r.loan].outstanding
       /\ r.principal = payments[r.payment].principal
       /\ r.inst = payments[r.payment].inst
       /\ r.status # "NONE"
  /\ label = "reverse" => Affordable(Owner[r.loan], Exact(Amount[r.loan]))
  /\ label \in Paying =>
       r.outstanding = loan[r.loan].outstanding /\ r.outstanding > 0
  /\ label \in Paying \ {"lastPayment"} => r.last <= r.day
  /\ label \in {"share", "pay"} => PlanKept(r.loan, r.plan)
  /\ label = "pay" => Affordable(Owner[r.loan], r.plan.amount)

ReadsOK(w) == Holds(pc[w], req[w])

BooksOK ==
  /\ \A k \in DOMAIN payments : payments[k].principal >= 0
  /\ \A l \in Loans : Funded(l) => loan[l].status # "NONE"
  /\ InstallmentNotOverpaid /\ PaidMeansCovered /\ OwesWhatIsLacking

RepaymentInv == BooksOK /\ \A w \in Workers : ReadsOK(w)

\* What was proved before.
Known == Inv /\ MoneyInv /\ SerialInv

\* What the books consist of.
books == <<loan, sched, payments, disbTxns, reversals>>

\* Where a handler relies on something it has read.
Relying == Paying \cup {"refund", "reverse"}

-----------------------------------------------------------------------------
(***************************************************************************)
(* Sums over payments.                                                     *)
(***************************************************************************)
\* The payments are numbered and have their types.
LEMMA PaymentsNumbered ==
  ASSUME TablesOK
  PROVE  /\ Len(payments) \in Nat /\ DOMAIN payments = 1..Len(payments)
         /\ IsFiniteSet(DOMAIN payments)
         /\ \A k \in DOMAIN payments : payments[k] \in PaymentRows
         /\ \A l : IsFiniteSet(Completed(l)) /\ IsFiniteSet(Made(l))
<1>1. /\ DOMAIN payments = 1..Len(payments) /\ Len(payments) \in Nat
      /\ \A k \in DOMAIN payments : payments[k] \in PaymentRows
  BY LenProperties, ElementOfSeq DEF TablesOK
<1>2. IsFiniteSet(DOMAIN payments)
  BY <1>1, FS_Interval
<1>3. \A l : Completed(l) \subseteq DOMAIN payments /\ Made(l) \subseteq DOMAIN payments
  BY DEF Completed, Made
<1> QED
  BY <1>1, <1>2, <1>3, FS_Subset

\* What the payments of a set record.
Credits(table, K) ==
  SumFunctionOnSet([k \in DOMAIN table |-> table[k].principal], K)

\* The payments of an installment that stand.
CreditsOn(l, i) == {k \in Completed(l) : payments[k].inst = i}

\* Both sums of the model are such, and integers.
Summed ==
  /\ \A l : /\ PrincipalPaid(l) = Credits(payments, Completed(l))
            /\ \A i : PaidOn(l, i) = Credits(payments, CreditsOn(l, i))
  /\ \A K \in SUBSET DOMAIN payments :
       /\ IsFiniteSet(K) /\ Credits(payments, K) \in Int
       /\ (\A k \in K : payments[k].principal >= 0) => Credits(payments, K) >= 0

\* They are, whatever the payments.
LEMMA AsCredits == TablesOK => Summed
<1> SUFFICES ASSUME TablesOK PROVE Summed
  OBVIOUS
<1> DEFINE f == [k \in DOMAIN payments |-> payments[k].principal]
<1>1. \A k \in DOMAIN payments : f[k] \in Int /\ f[k] = payments[k].principal
  BY PaymentsNumbered DEF PaymentRows
<1>2. ASSUME NEW K \in SUBSET DOMAIN payments
      PROVE  /\ IsFiniteSet(K)
             /\ SumFunction([k \in K |-> payments[k].principal]) = Credits(payments, K)
             /\ Credits(payments, K) \in Int
             /\ (\A k \in K : payments[k].principal >= 0) => Credits(payments, K) >= 0
  <2> DEFINE g == [k \in K |-> payments[k].principal]
  <2>1. IsFiniteSet(K)
    BY PaymentsNumbered, FS_Subset
  <2>2. SumFunction(g) = SumFunctionOnSet(g, K)
    BY DEF SumFunction
  <2>3. \A k \in K : g[k] \in Int /\ g[k] = f[k]
    BY <1>1
  <2>4. Credits(payments, K) = SumFunctionOnSet(f, K)
    BY DEF Credits
  <2>5. \A k \in K : f[k] \in Int /\ f[k] = payments[k].principal
    BY <1>1
  <2> HIDE DEF f, g
  <2>6. SumFunctionOnSet(g, K) = SumFunctionOnSet(f, K)
    BY <2>1, <2>3, SumAgree
  <2>7. /\ SumFunctionOnSet(f, K) \in Int
        /\ (\A k \in K : f[k] >= 0) => SumFunctionOnSet(f, K) >= 0
    BY <2>1, <2>5, SumType
  <2> QED
    BY <2>1, <2>2, <2>4, <2>5, <2>6, <2>7 DEF g
<1>3. \A l : /\ Completed(l) \in SUBSET DOMAIN payments
             /\ \A i : CreditsOn(l, i) \in SUBSET DOMAIN payments
  BY DEF Completed, CreditsOn
<1>4. \A l : PrincipalPaid(l) = Credits(payments, Completed(l))
  BY <1>2, <1>3 DEF PrincipalPaid
<1>5. \A l, i : PaidOn(l, i) = Credits(payments, CreditsOn(l, i))
  BY <1>2, <1>3 DEF PaidOn, CreditsOn
<1> QED
  BY <1>2, <1>4, <1>5 DEF Summed

\* Sums over payments whose principal has not changed.
LEMMA CreditsStay ==
  ASSUME TablesOK, NEW K \in SUBSET DOMAIN payments,
         \A k \in K : k \in DOMAIN payments' /\ payments'[k].principal = payments[k].principal
  PROVE  Credits(payments', K) = Credits(payments, K)
<1> DEFINE f == [k \in DOMAIN payments |-> payments[k].principal]
           g == [k \in DOMAIN payments' |-> payments'[k].principal]
<1>1. IsFiniteSet(K)
  BY PaymentsNumbered, FS_Subset
<1>2. \A k \in K : f[k] \in Int /\ f[k] = g[k]
  BY PaymentsNumbered DEF PaymentRows
<1>3. Credits(payments, K) = SumFunctionOnSet(f, K)
  BY DEF Credits
<1>4. Credits(payments', K) = SumFunctionOnSet(g, K)
  BY DEF Credits
<1> HIDE DEF f, g
<1>5. SumFunctionOnSet(f, K) = SumFunctionOnSet(g, K)
  BY <1>1, <1>2, SumAgree
<1> QED
  BY <1>3, <1>4, <1>5

\* A payment taken out of such a sum.
LEMMA CreditsWithout ==
  ASSUME TablesOK, NEW K \in SUBSET DOMAIN payments, NEW k \in K
  PROVE  Credits(payments, K) = payments[k].principal + Credits(payments, K \ {k})
<1> DEFINE f == [j \in DOMAIN payments |-> payments[j].principal]
<1>1. IsFiniteSet(K)
  BY PaymentsNumbered, FS_Subset
<1>2. \A j \in K : f[j] \in Int /\ f[j] = payments[j].principal
  BY PaymentsNumbered DEF PaymentRows
<1>3. \A J : Credits(payments, J) = SumFunctionOnSet(f, J)
  BY DEF Credits
<1> HIDE DEF f
<1> QED
  BY <1>1, <1>2, <1>3, SumWithout

\* No payment, nothing paid.
LEMMA NoCredits == \A table : Credits(table, {}) = 0
BY SumOfNone DEF Credits

\* Rows added to the payments of a loan, all of them standing.
RowOf(l, day, x) == [loan |-> l, inst |-> x.inst, day |-> day,
                     principal |-> x.principal, status |-> "COMPLETED",
                     refunds |-> 0]
Added(l, day, rows) == [n \in DOMAIN rows |-> RowOf(l, day, rows[n])]

\* Where they are found.
LEMMA PaymentsAdded ==
  ASSUME TablesOK, NEW l \in Loans, NEW rows \in Seq(PlanRows(l)), NEW day,
         payments' = payments \o Added(l, day, rows)
  PROVE  /\ Len(rows) \in Nat /\ DOMAIN rows = 1..Len(rows)
         /\ \A n \in 1..Len(rows) : rows[n] \in PlanRows(l)
         /\ DOMAIN payments' = 1..(Len(payments) + Len(rows))
         /\ \A k \in 1..Len(payments) : payments'[k] = payments[k]
         /\ \A n \in 1..Len(rows) :
              payments'[Len(payments) + n] = RowOf(l, day, rows[n])
         /\ Completed(l)'
              = Completed(l) \cup ((Len(payments) + 1)..(Len(payments) + Len(rows)))
         /\ Made(l)'
              = Made(l) \cup ((Len(payments) + 1)..(Len(payments) + Len(rows)))
         /\ \A m : m # l => Completed(m)' = Completed(m) /\ Made(m)' = Made(m)
<1>0. PICK N, M : N = Len(payments) /\ M = Len(rows)
  OBVIOUS
<1> DEFINE added == Added(l, day, rows)
<1>1. /\ M \in Nat /\ DOMAIN rows = 1..M
      /\ \A n \in 1..M : rows[n] \in PlanRows(l)
  BY <1>0, LenProperties, ElementOfSeq
<1>2. N \in Nat /\ DOMAIN payments = 1..N /\ IsSeq(payments)
  <2>1. payments \in Seq(PaymentRows)
    BY DEF TablesOK
  <2> QED
    BY <1>0, <2>1, PaymentsNumbered DEF IsSeq
<1>3. /\ IsSeq(added) /\ Len(added) = M
      /\ \A n \in 1..M : added[n] = RowOf(l, day, rows[n])
      /\ payments' = payments \o added
  BY <1>1, FunctionIsSeq DEF Added
<1> HIDE DEF added
<1>4. /\ IsSeq(payments') /\ Len(payments') = N + M
      /\ \A k \in 1..N : payments'[k] = payments[k]
      /\ \A n \in 1..M : payments'[N + n] = added[n]
  <2>1. /\ IsSeq(payments \o added)
        /\ Len(payments \o added) = Len(payments) + Len(added)
        /\ \A k \in 1..Len(payments) : (payments \o added)[k] = payments[k]
        /\ \A n \in 1..Len(added) : (payments \o added)[Len(payments) + n] = added[n]
    <3>1. IsSeq(payments) /\ IsSeq(added)
      BY <1>2, <1>3
    <3> QED
      BY ONLY <3>1, Joined
  <2> QED
    BY <1>0, <1>3, <2>1
<1>5. DOMAIN payments' = 1..(N + M)
  BY <1>4, Indices
<1>6. \A k \in 1..(N + M) :
        \/ k \in 1..N
        \/ k \in (N + 1)..(N + M) /\ k - N \in 1..M /\ N + (k - N) = k
  BY <1>1, <1>2
<1>7. \A k \in (N + 1)..(N + M) :
        payments'[k].loan = l /\ payments'[k].status = "COMPLETED"
  <2> SUFFICES ASSUME NEW k \in (N + 1)..(N + M)
               PROVE  payments'[k].loan = l /\ payments'[k].status = "COMPLETED"
    OBVIOUS
  <2>1. k - N \in 1..M /\ N + (k - N) = k
    BY <1>1, <1>2
  <2>2. payments'[k] = RowOf(l, day, rows[k - N])
    BY <1>3, <1>4, <2>1
  <2>3. \A x : RowOf(l, day, x).loan = l /\ RowOf(l, day, x).status = "COMPLETED"
    BY DEF RowOf
  <2> QED
    BY <2>2, <2>3
<1>8. \A k \in 1..N : k \in 1..(N + M)
  BY <1>1, <1>2
<1>9. \A k \in (N + 1)..(N + M) : k \in 1..(N + M)
  BY <1>1, <1>2
<1>10. \A m : Completed(m)' = IF m = l THEN Completed(m) \cup ((N + 1)..(N + M))
                                       ELSE Completed(m)
  BY <1>2, <1>4, <1>5, <1>6, <1>7, <1>8, <1>9 DEF Completed
<1>11. \A m : Made(m)' = IF m = l THEN Made(m) \cup ((N + 1)..(N + M))
                                  ELSE Made(m)
  BY <1>2, <1>4, <1>5, <1>6, <1>7, <1>8, <1>9 DEF Made
<1> QED
  BY <1>0, <1>1, <1>3, <1>4, <1>5, <1>10, <1>11

\* What they add to the sums.
LEMMA CreditsAdded ==
  ASSUME TablesOK, TablesOK',
         NEW l \in Loans, NEW rows \in Seq(PlanRows(l)), NEW day,
         payments' = payments \o Added(l, day, rows)
  PROVE  /\ Recorded(rows) \in Int
         /\ PrincipalPaid(l)' = PrincipalPaid(l) + Recorded(rows)
         /\ Cardinality(Made(l)') = Cardinality(Made(l)) + Len(rows)
         /\ \A m : m # l => PrincipalPaid(m)' = PrincipalPaid(m)
         /\ \A m, i : m # l => PaidOn(m, i)' = PaidOn(m, i)
         /\ \A i : (\A n \in DOMAIN rows : rows[n].inst # i)
                    => PaidOn(l, i)' = PaidOn(l, i)
         /\ \A n \in DOMAIN rows :
              (\A m \in DOMAIN rows : rows[m].inst = rows[n].inst => m = n)
                => PaidOn(l, rows[n].inst)'
                     = PaidOn(l, rows[n].inst) + rows[n].principal
<1>0. PICK N, M : N = Len(payments) /\ M = Len(rows)
  OBVIOUS
<1> DEFINE new == (N + 1)..(N + M)
<1>1. /\ M \in Nat /\ DOMAIN rows = 1..M
      /\ \A n \in 1..M : rows[n] \in PlanRows(l)
      /\ DOMAIN payments' = 1..(N + M)
      /\ \A k \in 1..N : payments'[k] = payments[k]
      /\ \A n \in 1..M : payments'[N + n] = RowOf(l, day, rows[n])
      /\ Completed(l)' = Completed(l) \cup new
      /\ Made(l)' = Made(l) \cup new
      /\ \A m : m # l => Completed(m)' = Completed(m) /\ Made(m)' = Made(m)
  BY <1>0, PaymentsAdded
<1>2. /\ N \in Nat /\ DOMAIN payments = 1..N /\ IsFiniteSet(DOMAIN payments)
      /\ \A m : /\ Completed(m) \subseteq 1..N
                /\ Made(m) \subseteq 1..N
                /\ \A i : CreditsOn(m, i) \subseteq 1..N
                /\ IsFiniteSet(Made(m))
  BY <1>0, PaymentsNumbered DEF Completed, Made, CreditsOn
<1>3. /\ \A k \in new : k \in 1..(N + M) /\ k \notin 1..N
      /\ \A k \in new : k - N \in 1..M /\ N + (k - N) = k
      /\ \A n \in 1..M : N + n \in new
      /\ 1..N \subseteq 1..(N + M)
      /\ IsFiniteSet(new) /\ Cardinality(new) = M
  <2>1. N + 1 \in Int /\ N + M \in Int
        /\ (IF N + 1 > N + M THEN 0 ELSE (N + M) - (N + 1) + 1) = M
    BY <1>1, <1>2
  <2>2. IsFiniteSet(new) /\ Cardinality(new) = M
    BY <2>1, FS_Interval
  <2> QED
    BY <1>1, <1>2, <2>2
<1>4. Summed /\ Summed'
  BY AsCredits, PTL
<1>5. \A K \in SUBSET (1..N) : Credits(payments', K) = Credits(payments, K)
  <2> SUFFICES ASSUME NEW K \in SUBSET (1..N) PROVE Credits(payments', K) = Credits(payments, K)
    OBVIOUS
  <2> QED
    BY <1>1, <1>2, <1>3, CreditsStay
<1>6. /\ Recorded(rows) = Credits(payments', new) /\ Recorded(rows) \in Int
  <2> DEFINE f == [n \in DOMAIN rows |-> rows[n].principal]
             g == [k \in DOMAIN payments' |-> payments'[k].principal]
  <2>1. \A n \in 1..M : rows[n].principal \in Int
    BY <1>1 DEF PlanRows
  <2>2. \A n \in 1..M : f[n] \in Int /\ g[N + n] = f[n]
    <3>1. \A x : RowOf(l, day, x).principal = x.principal
      BY DEF RowOf
    <3> QED
      BY <1>1, <1>3, <2>1, <3>1
  <2>3. Recorded(rows) = SumFunctionOnSet(f, 1..M)
    BY <1>1 DEF Recorded, SumFunction
  <2>4. Credits(payments', new) = SumFunctionOnSet(g, new)
    BY DEF Credits
  <2>5. IsFiniteSet(1..M)
    BY <1>1, FS_Interval
  <2> HIDE DEF f, g
  <2>6. SumFunctionOnSet(g, (N + 1)..(N + M)) = SumFunctionOnSet(f, 1..M)
    BY <1>1, <1>2, <2>2, SumMoved
  <2>7. SumFunctionOnSet(f, 1..M) \in Int
    BY <2>2, <2>5, SumType
  <2> QED
    BY <2>3, <2>4, <2>6, <2>7
<1>7. \A K \in SUBSET (1..N), J \in SUBSET new :
        Credits(payments', K \cup J) = Credits(payments, K) + Credits(payments', J)
  <2> SUFFICES ASSUME NEW K \in SUBSET (1..N), NEW J \in SUBSET new
               PROVE  Credits(payments', K \cup J) = Credits(payments, K) + Credits(payments', J)
    OBVIOUS
  <2> DEFINE g == [k \in DOMAIN payments' |-> payments'[k].principal]
  <2>1. /\ IsFiniteSet(K) /\ IsFiniteSet(J) /\ K \cap J = {}
        /\ K \cup J \subseteq DOMAIN payments'
    BY <1>1, <1>2, <1>3, FS_Subset
  <2>2. \A k \in DOMAIN payments' : g[k] \in Int
    <3>1. \A k \in DOMAIN payments' : payments'[k] \in PaymentRows'
      BY LenProperties, ElementOfSeq DEF TablesOK
    <3> QED
      BY <3>1 DEF PaymentRows
  <2>3. \A S : Credits(payments', S) = SumFunctionOnSet(g, S)
    BY DEF Credits
  <2> HIDE DEF g
  <2>4. SumFunctionOnSet(g, K \cup J) = SumFunctionOnSet(g, K) + SumFunctionOnSet(g, J)
    BY <2>1, <2>2, SumOfBoth
  <2> QED
    BY <1>5, <2>3, <2>4
<1>8. /\ PrincipalPaid(l)' = PrincipalPaid(l) + Recorded(rows)
      /\ \A m : m # l => PrincipalPaid(m)' = PrincipalPaid(m)
  <2>1. PrincipalPaid(l)' = Credits(payments', Completed(l) \cup new)
    BY <1>1, <1>4 DEF Summed
  <2>2. Credits(payments', Completed(l) \cup new)
          = Credits(payments, Completed(l)) + Credits(payments', new)
    BY <1>2, <1>7
  <2>3. PrincipalPaid(l) = Credits(payments, Completed(l))
    BY <1>4 DEF Summed
  <2>4. ASSUME NEW m, m # l PROVE PrincipalPaid(m)' = PrincipalPaid(m)
    <3>1. /\ PrincipalPaid(m)' = Credits(payments', Completed(m))
          /\ PrincipalPaid(m) = Credits(payments, Completed(m))
      BY <1>1, <1>4, <2>4 DEF Summed
    <3> QED
      BY <1>2, <1>5, <3>1
  <2> QED
    BY <1>6, <2>1, <2>2, <2>3, <2>4
<1>9. Cardinality(Made(l)') = Cardinality(Made(l)) + Len(rows)
  <2>1. /\ Made(l) \cap new = {} /\ IsFiniteSet(Made(l))
        /\ Cardinality({}) = 0
    BY <1>2, <1>3, FS_EmptySet
  <2>2. Cardinality(Made(l)) \in Nat
    BY <2>1, FS_CardinalityType
  <2>3. Cardinality(Made(l) \cup new)
          = Cardinality(Made(l)) + Cardinality(new) - Cardinality(Made(l) \cap new)
    BY <1>3, <2>1, FS_Union
  <2>4. Cardinality(Made(l)') = Cardinality(Made(l) \cup new)
    BY <1>1
  <2>5. Cardinality(new) = M /\ M \in Int /\ Cardinality(Made(l) \cap new) = 0
    <3>1. Cardinality(Made(l) \cap new) = Cardinality({})
      BY <2>1
    <3> QED
      BY <1>1, <1>3, <2>1, <3>1
  <2> QED
    BY <1>0, <2>2, <2>3, <2>4, <2>5
<1>10. \A m, i : m # l => PaidOn(m, i)' = PaidOn(m, i)
  <2> SUFFICES ASSUME NEW m, NEW i, m # l PROVE PaidOn(m, i)' = PaidOn(m, i)
    OBVIOUS
  <2>1. CreditsOn(m, i)' = CreditsOn(m, i)
    BY <1>1, <1>2 DEF CreditsOn
  <2> QED
    BY <1>2, <1>4, <1>5, <2>1 DEF Summed
<1>11. ASSUME NEW i
       PROVE  CreditsOn(l, i)' = CreditsOn(l, i)
                \cup {k \in new : rows[k - N].inst = i}
  <2>1. \A k \in new : payments'[k].inst = rows[k - N].inst
    <3>1. \A x : RowOf(l, day, x).inst = x.inst
      BY DEF RowOf
    <3>2. \A k \in new : payments'[k] = RowOf(l, day, rows[k - N])
      BY <1>1, <1>3
    <3> QED
      BY <3>1, <3>2
  <2>2. \A k \in Completed(l) : payments'[k] = payments[k]
    BY <1>1, <1>2
  <2> HIDE DEF new
  <2> QED
    BY <1>1, <2>1, <2>2 DEF CreditsOn
<1>12. ASSUME NEW i, \A n \in DOMAIN rows : rows[n].inst # i
       PROVE  PaidOn(l, i)' = PaidOn(l, i)
  <2>1. {k \in new : rows[k - N].inst = i} = {}
    BY <1>1, <1>3, <1>12
  <2>2. CreditsOn(l, i)' = CreditsOn(l, i)
    BY <1>11, <2>1
  <2> QED
    BY <1>2, <1>4, <1>5, <2>2 DEF Summed
<1>13. ASSUME NEW n \in DOMAIN rows,
              \A m \in DOMAIN rows : rows[m].inst = rows[n].inst => m = n
       PROVE  PaidOn(l, rows[n].inst)' = PaidOn(l, rows[n].inst) + rows[n].principal
  <2>1. {k \in new : rows[k - N].inst = rows[n].inst} = {N + n}
    BY <1>1, <1>2, <1>3, <1>13
  <2>2. CreditsOn(l, rows[n].inst)' = CreditsOn(l, rows[n].inst) \cup {N + n}
    BY <1>11, <2>1
  <2>3. Credits(payments', {N + n}) = rows[n].principal
    <3> DEFINE g == [k \in DOMAIN payments' |-> payments'[k].principal]
    <3>1. N + n \in DOMAIN payments' /\ payments'[N + n].principal = rows[n].principal
          /\ rows[n].principal \in Int
      <4>1. \A x : RowOf(l, day, x).principal = x.principal
        BY DEF RowOf
      <4> QED
        BY <1>1, <1>3, <4>1 DEF PlanRows
    <3>2. Credits(payments', {N + n}) = SumFunctionOnSet(g, {N + n})
      BY DEF Credits
    <3>3. g[N + n] = rows[n].principal
      BY <3>1
    <3> HIDE DEF g
    <3> QED
      BY <3>1, <3>2, <3>3, SumOfOne
  <2> DEFINE i == rows[n].inst
  <2>4. PaidOn(l, i)' = Credits(payments', CreditsOn(l, i) \cup {N + n})
    BY <1>4, <2>2 DEF Summed
  <2>5. PaidOn(l, i) = Credits(payments, CreditsOn(l, i))
    BY <1>4 DEF Summed
  <2>6. CreditsOn(l, i) \in SUBSET (1..N) /\ {N + n} \in SUBSET new
    BY <1>1, <1>2, <1>3
  <2>7. Credits(payments', CreditsOn(l, i) \cup {N + n})
          = Credits(payments, CreditsOn(l, i)) + Credits(payments', {N + n})
    BY <1>7, <2>6
  <2> QED
    BY <2>3, <2>4, <2>5, <2>7
<1> QED
  BY <1>6, <1>8, <1>9, <1>10, <1>12, <1>13

-----------------------------------------------------------------------------
(***************************************************************************)
(* The arithmetic of a payment.                                            *)
(***************************************************************************)
\* The waterfall gives away no more than there is, but for the error.
LEMMA Allocates ==
  ASSUME NEW amount \in Nat, NEW interest \in Nat, NEW fees \in Nat,
         NEW principal \in Nat, NEW e \in Int
  PROVE  LET a == Allocate(amount, interest, fees, principal, e)
         IN  /\ a.interest \in Nat /\ a.fees \in Nat /\ a.principal \in Nat
             /\ a.interest + a.fees + a.principal <= amount + Greater(e, 0)
BY DEF Allocate, Lesser, Greater

\* What one installment takes of the principal: not more than it lacks, nor than
\* the payment has left.  The row of the payment records it to half a cent, and
\* calls the installment covered when no more than a cent is missing.
LEMMA PrincipalTaken ==
  ASSUME NEW alloc \in Shares, NEW spread \in Shares,
         spread.principal \in 0..alloc.principal,
         NEW own \in Nat, NEW paid \in 0..own,
         NEW due, NEW last, NEW fee, NEW share, NEW x,
         share = Share(alloc, spread, Exact(own), due, last, fee, Exact(paid)),
         x = Stored(share.principal)
  PROVE  /\ Plus(spread, share).principal \in 0..alloc.principal
         /\ Plus(spread, share).principal = spread.principal + share.principal
         /\ share.principal \in Nat
         /\ x \in 0..(own - paid)
         /\ 2 * Scale * x <= 2 * share.principal + Scale
         /\ Covered(Exact(own), share) => own - x <= 1
<1> DEFINE y == PrincipalShare(alloc, spread, Exact(own), Exact(paid))
<1>1. /\ alloc.principal \in Int /\ spread.principal \in Int
      /\ spread.principal >= 0 /\ spread.principal <= alloc.principal
      /\ own \in Int /\ paid \in Int /\ paid >= 0 /\ paid <= own
  BY DEF Shares
<1>2. /\ Exact(own) \in Int /\ Exact(paid) \in Int /\ Exact(own - paid) \in Int
      /\ Exact(own) - Exact(paid) = Exact(own - paid) /\ Exact(own - paid) >= 0
      /\ Exact(own - 1) = Exact(own) - Scale /\ Exact(own - 1) \in Int
      /\ Scale \in Nat \ {0}
  <2>1. own - paid \in Nat /\ own - 1 \in Int
    BY <1>1
  <2>2. \A m, n \in Int : (m - n) * Scale = m * Scale - n * Scale
    BY DatabaseAssumption
  <2> QED
    BY <1>1, <2>1, <2>2, ExactInt, DatabaseAssumption DEF Exact
<1>3. share.principal = y /\ Plus(spread, share).principal = spread.principal + y
  BY DEF Share, Plus
<1>4. /\ y \in Int /\ 0 <= y /\ y <= alloc.principal - spread.principal
      /\ y <= Exact(own - paid)
  BY <1>1, <1>2 DEF PrincipalShare, Lesser
<1>9. x = Stored(y)
  BY <1>3
<1> HIDE DEF y
<1>5. x \in Int /\ 0 <= x /\ x <= own - paid
  <2>1. Stored(y) <= Stored(Exact(own - paid)) /\ Stored(y) \in Int /\ Stored(y) >= 0
    BY <1>2, <1>4, StoredMonotone, StoredInt
  <2>2. Stored(Exact(own - paid)) = own - paid
    BY <1>1, StoredExact
  <2> QED
    BY <1>9, <2>1, <2>2
<1>6. 2 * Scale * x <= 2 * y + Scale
  BY <1>4, <1>9, StoredNear
<1>7. Covered(Exact(own), share) => own - x <= 1
  <2> SUFFICES ASSUME Exact(own) - y < Scale PROVE own - x <= 1
    BY <1>3 DEF Covered
  <2>1. Exact(own - 1) <= y
    BY <1>2, <1>4
  <2>2. Stored(Exact(own - 1)) = own - 1
    BY <1>1, StoredExact
  <2>3. own - 1 <= x
    BY <1>2, <1>4, <1>9, <2>1, <2>2, StoredMonotone
  <2> QED
    BY <1>1, <1>5, <2>3
<1>8. /\ spread.principal + y \in 0..alloc.principal /\ y \in Nat
      /\ x \in 0..(own - paid)
  BY <1>1, <1>4, <1>5
<1> QED
  BY <1>3, <1>6, <1>7, <1>8

\* A plan begins without rows.
LEMMA RecordedNone == Recorded(<<>>) = 0 /\ Len(<<>>) = 0 /\ DOMAIN <<>> = {}
<1>1. DOMAIN <<>> = {} /\ Len(<<>>) = 0
  OBVIOUS
<1>2. Recorded(<<>>) = 0
  BY <1>1, SumOfNone DEF Recorded, SumFunction
<1> QED
  BY <1>1, <1>2

\* It records one more with each.
LEMMA RecordedMore ==
  ASSUME NEW l \in Loans, NEW rows \in Seq(PlanRows(l)), NEW row \in PlanRows(l)
  PROVE  /\ Recorded(Append(rows, row)) = Recorded(rows) + row.principal
         /\ Recorded(rows) \in Int
         /\ Len(Append(rows, row)) = Len(rows) + 1 /\ Len(rows) \in Nat
         /\ DOMAIN rows = 1..Len(rows)
         /\ DOMAIN Append(rows, row) = DOMAIN rows \cup {Len(rows) + 1}
         /\ \A n \in DOMAIN rows :
              Append(rows, row)[n] = rows[n] /\ n # Len(rows) + 1
         /\ Append(rows, row)[Len(rows) + 1] = row
<1> DEFINE more == Append(rows, row)
<1> DEFINE M == Len(rows)
           f == [n \in DOMAIN rows |-> rows[n].principal]
           g == [n \in DOMAIN more |-> more[n].principal]
<1>2. /\ M \in Nat /\ DOMAIN rows = 1..M
      /\ \A n \in 1..M : rows[n] \in PlanRows(l)
  BY LenProperties, ElementOfSeq
<1>3. /\ Len(more) = M + 1 /\ DOMAIN more = 1..(M + 1)
      /\ \A n \in 1..M : more[n] = rows[n] /\ n # M + 1
      /\ more[M + 1] = row
  BY <1>2, AppendProperties
<1>4. 1..(M + 1) = (1..M) \cup {M + 1} /\ M + 1 \notin 1..M
  BY <1>2
<1>5. /\ \A n \in 1..M : f[n] \in Int /\ f[n] = g[n]
      /\ \A n \in (1..M) \cup {M + 1} : g[n] \in Int
      /\ g[M + 1] = row.principal
  BY <1>2, <1>3, <1>4 DEF PlanRows
<1>6. IsFiniteSet(1..M)
  BY <1>2, FS_Interval
<1>7. Recorded(rows) = SumFunctionOnSet(f, 1..M)
  BY <1>2 DEF Recorded, SumFunction
<1>8. Recorded(more) = SumFunctionOnSet(g, (1..M) \cup {M + 1})
  BY <1>3, <1>4 DEF Recorded, SumFunction
<1> HIDE DEF f, g
<1>9. SumFunctionOnSet(g, (1..M) \cup {M + 1}) = g[M + 1] + SumFunctionOnSet(g, 1..M)
  BY <1>4, <1>5, <1>6, SumWith
<1>10. /\ SumFunctionOnSet(f, 1..M) = SumFunctionOnSet(g, 1..M)
       /\ SumFunctionOnSet(f, 1..M) \in Int
  BY <1>5, <1>6, SumAgree, SumType
<1>11. row.principal \in Int
  BY DEF PlanRows
<1> QED
  BY <1>2, <1>3, <1>4, <1>5, <1>7, <1>8, <1>9, <1>10, <1>11

-----------------------------------------------------------------------------
(***************************************************************************)
(* Steps that leave the books alone.                                       *)
(***************************************************************************)
\* What the invariant says of the books.
LEMMA BooksStay ==
  ASSUME BooksOK, UNCHANGED books
  PROVE  BooksOK'
BY DEF BooksOK, books, Funded, InstallmentNotOverpaid, PaidMeansCovered,
       OwesWhatIsLacking, PaidOn, PrincipalPaid, Completed, Made

\* The only handler is where it relies on nothing it has read.
LEMMA NothingHeld ==
  ASSUME NEW w, Workers = {w}, DisbursementTypeOK, NEW label, label \notin Relying,
         pc' = [pc EXCEPT ![w] = label]
  PROVE  \A v \in Workers : ReadsOK(v)'
<1>1. pc'[w] = label
  BY DEF DisbursementTypeOK
<1> QED
  BY <1>1 DEF ReadsOK, Holds, Relying, Paying

\* The only handler goes on with what it has read.
LEMMA ReadsGoOn ==
  ASSUME NEW w, Workers = {w}, Inv, BooksOK, UNCHANGED tables,
         NEW label, NEW r, Holds(label, r),
         pc' = [pc EXCEPT ![w] = label], req' = [req EXCEPT ![w] = r]
  PROVE  RepaymentInv'
<1>1. pc'[w] = label /\ req'[w] = r
  BY DEF Inv, DisbursementTypeOK
<1>2. ReadsOK(w)'
  <2>1. /\ \A l, p : PlanKept(l, p)' <=> PlanKept(l, p)
        /\ \A a, x : Affordable(a, x)' <=> Affordable(a, x)
        /\ loan' = loan /\ payments' = payments
    BY DEF PlanKept, PaidOn, Completed, Affordable, tables
  <2> QED
    BY <1>1, <2>1 DEF ReadsOK, Holds
<1>3. BooksOK'
  BY BooksStay DEF books, tables
<1> QED
  BY <1>2, <1>3 DEF RepaymentInv

\* A transaction ends, with a commit or without.
LEMMA EndsHeld ==
  ASSUME NEW w, Workers = {w}, Inv, AfterTransaction(w)
  PROVE  \A v \in Workers : ReadsOK(v)'
<1>1. PICK label : label \in {"idle", "fail"} /\ pc' = [pc EXCEPT ![w] = label]
  BY DEF AfterTransaction, Answer, Goto
<1> QED
  BY <1>1, NothingHeld DEF Inv, Relying, Paying

\* One that rolls back leaves the books as they were.
LEMMA RollBackKeepsBooks ==
  ASSUME NEW w, Workers = {w}, Inv, BooksOK, RollBack(w)
  PROVE  RepaymentInv'
<1>1. UNCHANGED books /\ AfterTransaction(w)
  BY DEF RollBack, tables, books
<1> QED
  BY <1>1, BooksStay, EndsHeld DEF RepaymentInv

\* disburseLoan but for its commit, and the first reads of rollbackDisbursement.
Claims(w) ==
  \/ \E l \in Loans : StartDisburse(w, l) \/ StartRollbackDisbursement(w, l)
  \/ ClaimDisbursement(w) \/ CheckFunds(w)
  \/ CompleteDisbursement(w) \/ FailDisbursement(w)
  \/ Compensate(w) \/ ReadActivePayments(w)

\* They leave the books alone.
LEMMA ClaimsLeaveBooks ==
  ASSUME NEW w, Claims(w), ~RollBack(w)
  PROVE  /\ UNCHANGED books
         /\ \E label \in {"claim", "idle", "funds", "fund", "rollback",
                         "activePayments", "refundable"} :
              pc' = [pc EXCEPT ![w] = label]
<1>1. UNCHANGED books
  BY DEF Claims, StartDisburse, StartRollbackDisbursement, ClaimDisbursement,
         CheckFunds, CompleteDisbursement, FailDisbursement,
         MarkDisbursement, Compensate, ReadActivePayments, Begin,
         Continue, tables, books
<1>2. CASE \/ \E l \in Loans : StartDisburse(w, l) \/ StartRollbackDisbursement(w, l)
           \/ Compensate(w) \/ ReadActivePayments(w) \/ CheckFunds(w)
  BY <1>1, <1>2 DEF StartDisburse, StartRollbackDisbursement, CheckFunds,
                    Compensate, ReadActivePayments, Begin, Continue, Goto
<1>3. CASE ClaimDisbursement(w) \/ CompleteDisbursement(w) \/ FailDisbursement(w)
  BY <1>1, <1>3 DEF ClaimDisbursement, CompleteDisbursement, FailDisbursement,
                    Continue, Answer, Goto
<1> QED
  BY <1>2, <1>3 DEF Claims

\* And they rely on nothing they have read.
LEMMA ClaimsKeepBooks ==
  ASSUME NEW w, Workers = {w}, Inv, BooksOK, Claims(w)
  PROVE  RepaymentInv'
<1>1. CASE RollBack(w)
  BY <1>1, RollBackKeepsBooks
<1>2. CASE ~RollBack(w)
  <2>1. PICK label : /\ UNCHANGED books
                     /\ label \in {"claim", "idle", "funds", "fund", "rollback",
                                   "activePayments", "refundable"}
                     /\ pc' = [pc EXCEPT ![w] = label]
    BY <1>2, ClaimsLeaveBooks
  <2>2. label \notin Relying
    BY <2>1 DEF Relying, Paying
  <2>3. BooksOK'
    BY <2>1, BooksStay
  <2>4. \A v \in Workers : ReadsOK(v)'
    BY <2>1, <2>2, NothingHeld DEF Inv
  <2> QED
    BY <2>3, <2>4 DEF RepaymentInv
<1> QED
  BY <1>1, <1>2

\* rollbackDisbursement moves on when the borrower can pay the amount back;
\* rollbackPayment reads a payment that stands; processPayment a loan that owes.
LEMMA ReadsKeepBooks ==
  ASSUME NEW w, Workers = {w}, Known, RepaymentInv,
         \/ CheckRefundable(w)
         \/ \E k \in DOMAIN payments : StartRollbackPayment(w, k)
         \/ \E l \in Loans, day \in PayDays, amount \in PayAmounts :
              StartPayment(w, l, day, amount)
  PROVE  RepaymentInv'
<1>1. CASE CheckRefundable(w)
  <2>1. CASE RollBack(w)
    BY <2>1, RollBackKeepsBooks DEF Known, RepaymentInv
  <2>2. CASE ~RollBack(w)
    <3>1. /\ pc' = [pc EXCEPT ![w] = "reverse"] /\ req' = [req EXCEPT ![w] = req[w]]
          /\ UNCHANGED tables
          /\ Affordable(Owner[req[w].loan], Exact(Amount[req[w].loan]))
      BY <1>1, <2>2 DEF CheckRefundable, Begin, Goto
    <3>2. Holds("reverse", req[w])
      BY <3>1 DEF Holds, Paying
    <3> QED
      BY <3>1, <3>2, ReadsGoOn DEF Known, RepaymentInv
  <2> QED
    BY <2>1, <2>2
<1>2. CASE \E k \in DOMAIN payments : StartRollbackPayment(w, k)
  <2>1. PICK k \in DOMAIN payments : StartRollbackPayment(w, k)
    BY <1>2
  <2>2. PICK p, r : /\ p = payments[k]
                    /\ r = [op |-> "refund", payment |-> k, loan |-> p.loan,
                            inst |-> p.inst, principal |-> p.principal,
                            status |-> loan[p.loan].status,
                            outstanding |-> loan[p.loan].outstanding]
    OBVIOUS
  <2>3. /\ pc' = [pc EXCEPT ![w] = "refund"] /\ req' = [req EXCEPT ![w] = r]
        /\ UNCHANGED tables /\ p.status = "COMPLETED"
    BY <2>1, <2>2 DEF StartRollbackPayment, Begin, Goto, Refundable
  <2>4. p.loan \in Loans /\ k \in Completed(p.loan)
    BY <2>2, <2>3 DEF Completed, Known, SerialInv, PaymentTable, IsRow
  <2>5. loan[p.loan].status # "NONE"
    BY <2>4 DEF Known, SerialInv, LoanTable, RepaymentInv, BooksOK
  <2>6. Holds("refund", r)
    BY <2>2, <2>5 DEF Holds, Paying
  <2> QED
    BY <2>3, <2>6, ReadsGoOn DEF Known, RepaymentInv
<1>3. CASE \E l \in Loans, day \in PayDays, amount \in PayAmounts :
             StartPayment(w, l, day, amount)
  <2>1. PICK l \in Loans, day \in PayDays, amount \in PayAmounts :
               StartPayment(w, l, day, amount)
    BY <1>3
  <2>2. PICK r : r = [op |-> "pay", loan |-> l, day |-> day, amount |-> amount,
                      outstanding |-> loan[l].outstanding, last |-> 0,
                      plan |-> NoPlan]
    OBVIOUS
  <2>3. /\ pc' = [pc EXCEPT ![w] = "lastPayment"] /\ req' = [req EXCEPT ![w] = r]
        /\ UNCHANGED tables /\ loan[l].outstanding > 0
    BY <2>1, <2>2 DEF StartPayment, Begin, Goto
  <2>4. Holds("lastPayment", r)
    BY <2>2, <2>3 DEF Holds, Paying
  <2> QED
    BY <2>3, <2>4, ReadsGoOn DEF Known, RepaymentInv
<1> QED
  BY <1>1, <1>2, <1>3

\* What the due installments and the elapsed days of a plan amount to.
LEMMA PlanAmounts ==
  ASSUME TablesOK, NEW l \in Loans, NEW r \in PayRequests(l), NEW due,
         due = DueInstallments(l, r.day), r.outstanding > 0, r.last <= r.day
  PROVE  /\ r.outstanding * DailyInterest * (r.day - r.last) \in Nat
         /\ SumFunction([i \in due |-> LateFee(i, r.day)]) \in Nat
         /\ SumFunction([i \in due |-> Exact(Principal[l][i])]) \in Nat
         /\ Exact(r.amount) \in Nat
<1>1. /\ r.day \in Nat /\ r.last \in Nat /\ r.amount \in Nat
      /\ r.outstanding \in Nat /\ r.day - r.last \in Nat
  BY DEF PayRequests
<1>2. r.outstanding * DailyInterest * (r.day - r.last) \in Nat
  BY <1>1, Products, PaymentsAssumption
<1>3. due \in SUBSET Installments(l) /\ IsFiniteSet(due)
  BY InstallmentsNumbered, FS_Subset DEF DueInstallments
<1> DEFINE f == [i \in due |-> LateFee(i, r.day)]
<1>4. \A i \in due : f[i] \in Int /\ f[i] >= 0
  <2>1. \A i \in due : LateFee(i, r.day) \in Int
    BY <1>1, <1>3, DueInt
  <2>2. Exact(FlatLateFee) >= 0
    BY ExactInt, PaymentsAssumption
  <2> QED
    BY <2>1, <2>2 DEF LateFee
<1>5. SumFunction(f) = SumFunctionOnSet(f, due)
  BY DEF SumFunction
<1> HIDE DEF f
<1>6. SumFunctionOnSet(f, due) \in Nat
  BY <1>3, <1>4, SumType
<1> QED
  BY <1>1, <1>2, <1>5, <1>6, PlanOK, ExactInt DEF f

\* Half a cent is rounded up at most, each time.
LEMMA HalfCents ==
  ASSUME NEW r \in Int, NEW a \in Int, NEW n \in Int, NEW x \in Int, NEW y \in Nat,
         2 * Scale * r <= 2 * a + Scale * n,
         2 * Scale * x <= 2 * y + Scale
  PROVE  /\ 2 * Scale * r <= 2 * (a + y) + Scale * n
         /\ 2 * Scale * (r + x) <= 2 * (a + y) + Scale * (n + 1)
<1>1. /\ 2 * Scale * (r + x) = 2 * Scale * r + 2 * Scale * x
      /\ Scale * (n + 1) = Scale * n + Scale
      /\ 2 * Scale * r \in Int /\ 2 * Scale * x \in Int
      /\ Scale * n \in Int /\ Scale \in Int
  BY DatabaseAssumption
<1> QED
  BY <1>1

\* One turn of the loop keeps the plan in order.
LEMMA ShareKeepsPlan ==
  ASSUME TablesOK, BooksOK, NEW l \in Loans, NEW p \in Plans(l), PlanKept(l, p),
         NEW i \in p.due, NEW share,
         NEW due, NEW last, NEW fee,
         share = Share(p.alloc, p.spread, Exact(Principal[l][i]), due, last, fee,
                       Exact(PaidOn(l, i))),
         NEW row \in PlanRows(l), row.inst = i, row.principal = Stored(share.principal),
         row.covered = Covered(Exact(Principal[l][i]), share),
         NEW list \in {p.rows, Append(p.rows, row)},
         NEW rest, rest = p.due \ {i},
         NEW spread, spread = Plus(p.spread, share),
         NEW q, q.due = rest, q.spread = spread, q.rows = list, q.alloc = p.alloc
  PROVE  PlanKept(l, q)
<1>1. /\ p.alloc \in Shares /\ p.spread \in Shares
      /\ p.due \in SUBSET Installments(l) /\ p.rows \in Seq(PlanRows(l))
      /\ p.spread.principal \in 0..p.alloc.principal
  BY DEF Plans, PlanKept
<1>2. /\ i \in Installments(l) /\ Principal[l][i] \in Nat
      /\ PaidOn(l, i) \in 0..Principal[l][i]
  <2>1. i \in Installments(l) /\ Principal[l][i] \in Nat
    BY <1>1, InstallmentsNumbered
  <2>2. PaidOn(l, i) \in Int /\ PaidOn(l, i) >= 0
    <3>1. Summed
      BY AsCredits
    <3>2. CreditsOn(l, i) \in SUBSET DOMAIN payments
          /\ \A k \in CreditsOn(l, i) : payments[k].principal >= 0
      BY DEF CreditsOn, Completed, BooksOK
    <3> QED
      BY <3>1, <3>2 DEF Summed
  <2> QED
    BY <2>1, <2>2 DEF BooksOK, InstallmentNotOverpaid
<1> DEFINE own == Principal[l][i]
           x == Stored(share.principal)
<1>3. /\ spread.principal \in 0..p.alloc.principal
      /\ spread.principal = p.spread.principal + share.principal
      /\ share.principal \in Nat
      /\ x \in 0..(own - PaidOn(l, i))
      /\ 2 * Scale * x <= 2 * share.principal + Scale
      /\ row.covered => own - x <= 1
  <2>1. PICK paid, alloc, before :
          paid = PaidOn(l, i) /\ alloc = p.alloc /\ before = p.spread
    OBVIOUS
  <2>2. /\ alloc \in Shares /\ before \in Shares
        /\ before.principal \in 0..alloc.principal
        /\ own \in Nat /\ paid \in 0..own
        /\ share = Share(alloc, before, Exact(own), due, last, fee, Exact(paid))
    BY <1>1, <1>2, <2>1
  <2>3. row.covered = Covered(Exact(own), share) /\ spread = Plus(before, share)
    BY <2>1
  <2> HIDE DEF own
  <2>4. /\ Plus(before, share).principal \in 0..alloc.principal
        /\ Plus(before, share).principal = before.principal + share.principal
        /\ share.principal \in Nat
        /\ x \in 0..(own - paid)
        /\ 2 * Scale * x <= 2 * share.principal + Scale
        /\ Covered(Exact(own), share) => own - x <= 1
    BY ONLY <2>2, PrincipalTaken
  <2> QED
    BY <2>1, <2>3, <2>4
<1> HIDE DEF x, own
<1>4. /\ \A n \in DOMAIN list :
           \/ n \in DOMAIN p.rows /\ list[n] = p.rows[n]
           \/ list[n] = row /\ n \notin DOMAIN p.rows
      /\ \A m, n \in DOMAIN list :
           m \notin DOMAIN p.rows /\ n \notin DOMAIN p.rows => m = n
      /\ \/ Recorded(list) = Recorded(p.rows) /\ Len(list) = Len(p.rows)
         \/ /\ Recorded(list) = Recorded(p.rows) + x
            /\ Len(list) = Len(p.rows) + 1
      /\ Recorded(p.rows) \in Int /\ Len(p.rows) \in Nat
  <2>1. p.rows \in Seq(PlanRows(l)) /\ row \in PlanRows(l)
    BY <1>1
  <2>2. /\ Recorded(Append(p.rows, row)) = Recorded(p.rows) + row.principal
        /\ Recorded(p.rows) \in Int
        /\ Len(Append(p.rows, row)) = Len(p.rows) + 1 /\ Len(p.rows) \in Nat
        /\ DOMAIN p.rows = 1..Len(p.rows)
        /\ DOMAIN Append(p.rows, row) = DOMAIN p.rows \cup {Len(p.rows) + 1}
        /\ \A n \in DOMAIN p.rows :
             Append(p.rows, row)[n] = p.rows[n] /\ n # Len(p.rows) + 1
        /\ Append(p.rows, row)[Len(p.rows) + 1] = row
    BY <2>1, RecordedMore
  <2>3. CASE list = p.rows
    BY <2>2, <2>3
  <2>4. CASE list = Append(p.rows, row)
    BY <2>2, <2>4 DEF x
  <2> QED
    BY <2>3, <2>4
<1>5. 2 * Scale * Recorded(list) <= 2 * spread.principal + Scale * Len(list)
  <2>1. /\ 2 * Scale * Recorded(p.rows)
               <= 2 * p.spread.principal + Scale * Len(p.rows)
        /\ p.spread.principal \in Int /\ x \in Int /\ share.principal \in Nat
        /\ 2 * Scale * x <= 2 * share.principal + Scale
    BY <1>1, <1>3 DEF PlanKept, Shares
  <2>2. /\ 2 * Scale * Recorded(p.rows)
               <= 2 * (p.spread.principal + share.principal) + Scale * Len(p.rows)
        /\ 2 * Scale * (Recorded(p.rows) + x)
               <= 2 * (p.spread.principal + share.principal)
                    + Scale * (Len(p.rows) + 1)
    <3>1. PICK r, a, n, y : /\ r = Recorded(p.rows) /\ a = p.spread.principal
                            /\ n = Len(p.rows) /\ y = share.principal
      OBVIOUS
    <3>2. /\ r \in Int /\ a \in Int /\ n \in Int /\ x \in Int /\ y \in Nat
          /\ 2 * Scale * r <= 2 * a + Scale * n
          /\ 2 * Scale * x <= 2 * y + Scale
      BY <1>4, <2>1, <3>1
    <3>3. /\ 2 * Scale * r <= 2 * (a + y) + Scale * n
          /\ 2 * Scale * (r + x) <= 2 * (a + y) + Scale * (n + 1)
      BY ONLY <3>2, HalfCents
    <3> QED
      BY <3>1, <3>3
  <2> QED
    BY <1>3, <1>4, <2>2
<1>6. ASSUME NEW n \in DOMAIN list
      PROVE  /\ list[n].inst \notin rest
             /\ list[n].principal
                  \in 0..(Principal[l][list[n].inst] - PaidOn(l, list[n].inst))
             /\ list[n].covered =>
                  Principal[l][list[n].inst] - list[n].principal <= 1
             /\ \A m \in DOMAIN list : list[m].inst = list[n].inst => m = n
  <2>1. \A m \in DOMAIN p.rows :
          /\ p.rows[m].inst \notin p.due
          /\ p.rows[m].principal
               \in 0..(Principal[l][p.rows[m].inst] - PaidOn(l, p.rows[m].inst))
          /\ p.rows[m].covered =>
               Principal[l][p.rows[m].inst] - p.rows[m].principal <= 1
          /\ \A k \in DOMAIN p.rows : p.rows[k].inst = p.rows[m].inst => k = m
    BY DEF PlanKept
  <2>2. CASE n \in DOMAIN p.rows /\ list[n] = p.rows[n]
    <3>1. \A m \in DOMAIN list : list[m].inst = list[n].inst => m = n
      BY <1>4, <2>1, <2>2
    <3> QED
      BY <2>1, <2>2, <3>1
  <2>3. CASE list[n] = row /\ n \notin DOMAIN p.rows
    <3>1. \A m \in DOMAIN list : list[m].inst = list[n].inst => m = n
      BY <1>4, <2>1, <2>3
    <3> QED
      BY <1>3, <2>3, <3>1 DEF x, own
  <2> QED
    BY <1>4, <2>2, <2>3
<1> QED
  BY <1>3, <1>5, <1>6 DEF PlanKept

\* A handler that pays has its locals, and they hold.
LEMMA PayerKnows ==
  ASSUME NEW w, Workers = {w}, Known, RepaymentInv, pc[w] \in Paying
  PROVE  \E l \in Loans : \E r :
           /\ r = req[w] /\ r \in PayRequests(l) /\ r.loan = l
           /\ Funded(l) /\ Holds(pc[w], r)
           /\ r.day \in Nat /\ r.last \in Nat /\ r.plan \in Plans(l)
           /\ r.amount \in Nat
<1>1. PICK l \in Loans : req[w] \in PayRequests(l)
  BY DEF Known, MoneyInv, LocalsOK
<1>2. req[w].loan = l /\ req[w].day \in Nat /\ req[w].last \in Nat
      /\ req[w].plan \in Plans(l) /\ req[w].amount \in Nat
  BY <1>1 DEF PayRequests
<1>3. Funded(l) /\ Holds(pc[w], req[w])
  BY <1>2 DEF Known, SerialInv, HandlerOK, RepaymentInv, ReadsOK
<1> QED
  BY <1>1, <1>2, <1>3

\* processPayment before its commit.
LEMMA PlanningKeepsBooks ==
  ASSUME NEW w, Workers = {w}, Known, RepaymentInv,
         ReadLastPayment(w) \/ PlanPayment(w) \/ ShareOut(w) \/ CheckTransfer(w)
  PROVE  RepaymentInv'
<1>0. TablesOK /\ Inv /\ BooksOK /\ pc[w] \in Paying
  BY DEF Known, MoneyInv, RepaymentInv, ReadLastPayment, PlanPayment, ShareOut,
         CheckTransfer, Paying
<1>1. PICK l \in Loans : \E r :
        /\ r = req[w] /\ r \in PayRequests(l) /\ r.loan = l
        /\ Funded(l) /\ Holds(pc[w], r)
        /\ r.day \in Nat /\ r.last \in Nat /\ r.plan \in Plans(l)
        /\ r.amount \in Nat
  BY <1>0, PayerKnows
<1> DEFINE r == req[w]
<1>3. /\ r = req[w] /\ r \in PayRequests(l) /\ r.loan = l
      /\ Funded(l) /\ Holds(pc[w], r)
      /\ r.day \in Nat /\ r.last \in Nat /\ r.plan \in Plans(l)
      /\ r.amount \in Nat
  BY <1>1
<1> HIDE DEF r
<1>2. r.outstanding = loan[l].outstanding /\ r.outstanding > 0
  BY <1>0, <1>3 DEF Holds
<1>4. CASE RollBack(w)
  BY <1>0, <1>4, RollBackKeepsBooks
<1>5. CASE ReadLastPayment(w) /\ ~RollBack(w)
  <2>1. PICK last : last = LastPaymentDay(l)
    OBVIOUS
  <2> DEFINE q == [r EXCEPT !.last = last]
  <2>2. /\ pc' = [pc EXCEPT ![w] = "plan"] /\ req' = [req EXCEPT ![w] = q]
        /\ UNCHANGED tables /\ ~(r.day < last)
    BY <1>3, <1>5, <2>1 DEF ReadLastPayment, Begin, Goto
  <2>3. last \in Nat
    BY <1>0, <2>1, LastDay
  <2>4. q.last = last /\ q.loan = l /\ q.outstanding = r.outstanding /\ q.day = r.day
    BY <1>3 DEF PayRequests
  <2> HIDE DEF q
  <2>5. Holds("plan", q)
    BY <1>3, <1>2, <2>2, <2>3, <2>4 DEF Holds
  <2> QED
    BY <1>0, <2>2, <2>5, ReadsGoOn
<1>6. CASE PlanPayment(w) /\ ~RollBack(w)
  <2>0. r.last <= r.day
    BY <1>3, <1>6 DEF Holds, PlanPayment, Paying
  <2> DEFINE due == DueInstallments(l, r.day)
             interest  == r.outstanding * DailyInterest * (r.day - r.last)
             fees      == SumFunction([i \in due |-> LateFee(i, r.day)])
             principal == SumFunction([i \in due |-> Exact(Principal[l][i])])
             amount    == IF r.amount # 0 THEN Exact(r.amount)
                                          ELSE principal + interest + fees
  <2>E. PICK e \in Error :
          Begin(w, "share",
                [r EXCEPT !.plan =
                  [NoPlan EXCEPT
                    !.alloc = Allocate(amount, interest, fees, principal, e),
                    !.principalDue = principal, !.amount = amount, !.due = due]],
                <<>>)
    BY <1>3, <1>6, ZenonT(60) DEF PlanPayment
  <2> DEFINE alloc == Allocate(amount, interest, fees, principal, e)
             plan == [NoPlan EXCEPT !.alloc = alloc, !.principalDue = principal,
                                    !.amount = amount, !.due = due]
             q == [r EXCEPT !.plan = plan]
  <2>1. /\ pc' = [pc EXCEPT ![w] = "share"] /\ req' = [req EXCEPT ![w] = q]
        /\ UNCHANGED tables
    BY <2>E, Zenon DEF Begin, Goto
  <2>2. /\ interest \in Nat /\ fees \in Nat /\ principal \in Nat
        /\ Exact(r.amount) \in Nat
    <3>1. due = DueInstallments(l, r.day)
      OBVIOUS
    <3> HIDE DEF due
    <3> QED
      BY <1>0, <1>2, <1>3, <2>0, <3>1, PlanAmounts
  <2> HIDE DEF due, interest, fees, principal
  <2>4. amount \in Nat
    BY <2>2
  <2> HIDE DEF amount
  <2>5. alloc.principal \in Nat
    BY <2>2, <2>4, Allocates, ErrorAssumption
  <2> HIDE DEF alloc
  <2>6. /\ plan.alloc = alloc /\ plan.spread = Nothing /\ plan.rows = <<>>
        /\ plan.spread.principal = 0 /\ plan.due = due
    BY DEF NoPlan, Nothing
  <2> HIDE DEF plan
  <2>7. q.plan = plan /\ q.loan = l /\ q.outstanding = r.outstanding
        /\ q.day = r.day /\ q.last = r.last
    BY <1>3 DEF PayRequests
  <2> HIDE DEF q
  <2>8. PlanKept(l, plan)
    <3>1. Recorded(<<>>) = 0 /\ Len(<<>>) = 0 /\ DOMAIN <<>> = {} /\ Scale \in Nat
      BY RecordedNone, DatabaseAssumption
    <3> QED
      BY <2>5, <2>6, <3>1 DEF PlanKept
  <2>9. Holds("share", q)
    BY <1>2, <2>0, <2>7, <2>8 DEF Holds
  <2> QED
    BY <1>0, <2>1, <2>9, ReadsGoOn
<1>7. CASE ShareOut(w)
  <2> DEFINE p == r.plan
             i == Oldest(p.due)
             own == Exact(Principal[l][i])
             share == Share(p.alloc, p.spread, own, p.principalDue, p.due = {i},
                            LateFee(i, r.day), Exact(PaidOn(l, i)))
             row == [inst |-> i, principal |-> Stored(share.principal),
                     total |-> Stored(Total(share)), covered |-> Covered(own, share)]
             pays == Total(share) > 0
             rest == p.due \ {i}
             spread == Plus(p.spread, share)
             list == IF pays THEN Append(p.rows, row) ELSE p.rows
             plan == [p EXCEPT !.due = rest, !.spread = spread, !.rows = list]
             q == [r EXCEPT !.plan = plan]
  <2>1. /\ pc' = [pc EXCEPT ![w] = "share"] /\ req' = [req EXCEPT ![w] = q]
        /\ UNCHANGED tables /\ p.due # {}
    BY <1>3, <1>7, ZenonT(60) DEF ShareOut, Begin, Goto
  <2>2. r.last <= r.day /\ PlanKept(l, p)
    BY <1>3, <1>7 DEF Holds, ShareOut, Paying
  <2>3. q.plan = plan /\ q.loan = l /\ q.outstanding = r.outstanding
        /\ q.day = r.day /\ q.last = r.last
    <3> HIDE DEF plan
    <3> QED
      BY <1>3 DEF PayRequests
  <2> HIDE DEF q
  <2>4. p \in Plans(l) /\ p.due \in SUBSET Installments(l)
        /\ p.alloc \in Shares /\ p.spread \in Shares /\ p.principalDue \in Nat
    BY <1>3 DEF Plans
  <2> HIDE DEF p
  <2>5. i \in p.due /\ i \in Installments(l)
    BY <2>1, <2>4, OldestDue
  <2>6. PlanKept(l, plan)
    <3>0. /\ pays => row \in PlanRows(l)
          /\ Stored(share.principal) \in Int /\ Covered(own, share) \in BOOLEAN
      <4>1. own \in Int /\ LateFee(i, r.day) \in Int /\ Exact(PaidOn(l, i)) \in Int
        BY <1>0, <1>3, <2>5, DueInt, ExactInt
      <4> HIDE DEF own, i
      <4>2. share \in Shares
        BY <2>4, <4>1, SharesInt
      <4> HIDE DEF share
      <4>3. share.principal \in Int /\ Total(share) \in Int
        BY <4>2, SharesInt DEF Shares
      <4>4. Stored(share.principal) \in Int /\ (pays => Stored(Total(share)) \in Nat)
        BY <4>3, StoredInt
      <4>5. Covered(own, share) \in BOOLEAN
        BY DEF Covered
      <4> QED
        BY <2>5, <4>4, <4>5 DEF PlanRows, i
    <3>1. pays => row \in PlanRows(l)
      BY <3>0
    <3>8. Stored(share.principal) \in Int /\ Covered(own, share) \in BOOLEAN
      BY <3>0
    <3>2. /\ row.inst = i /\ row.principal = Stored(share.principal)
          /\ row.covered = Covered(Exact(Principal[l][i]), share)
      OBVIOUS
    <3>3. share = Share(p.alloc, p.spread, Exact(Principal[l][i]), p.principalDue,
                        p.due = {i}, LateFee(i, r.day), Exact(PaidOn(l, i)))
      OBVIOUS
    <3>4. rest = p.due \ {i} /\ spread = Plus(p.spread, share)
      OBVIOUS
    <3>5. list = p.rows \/ (pays /\ list = Append(p.rows, row))
      OBVIOUS
    <3> HIDE DEF i, own, share, row, rest, spread, list, pays
    <3>9. /\ plan.due = rest /\ plan.spread = spread /\ plan.rows = list
          /\ plan.alloc = p.alloc
      BY <2>4 DEF Plans
    <3> HIDE DEF plan
    <3>10. PICK last, fee :
             share = Share(p.alloc, p.spread, Exact(Principal[l][i]), p.principalDue,
                           last, fee, Exact(PaidOn(l, i)))
      BY <3>3
    <3>6. CASE pays
      <4>1. row \in PlanRows(l) /\ list \in {p.rows, Append(p.rows, row)}
        BY <3>1, <3>5, <3>6
      <4> QED
        BY <1>0, <2>2, <2>4, <2>5, <3>2, <3>4, <3>9, <3>10, <4>1, ShareKeepsPlan
    <3>7. CASE ~pays
      <4>1. PICK x : x = [inst |-> i, principal |-> Stored(share.principal),
                          total |-> 0, covered |-> Covered(own, share)]
        OBVIOUS
      <4>2. x \in PlanRows(l)
        BY <2>5, <3>8, <4>1 DEF PlanRows
      <4> QED
        BY <1>0, <2>2, <2>4, <2>5, <3>2, <3>4, <3>5, <3>7, <3>9, <3>10, <4>1, <4>2,
           ShareKeepsPlan DEF row
    <3> QED
      BY <3>6, <3>7
  <2> HIDE DEF plan
  <2>7. Holds("share", q)
    BY <1>2, <2>2, <2>3, <2>6 DEF Holds
  <2> QED
    BY <1>0, <2>1, <2>7, ReadsGoOn
<1>8. CASE CheckTransfer(w) /\ ~RollBack(w)
  <2>1. /\ pc' = [pc EXCEPT ![w] = "pay"] /\ req' = [req EXCEPT ![w] = r]
        /\ UNCHANGED tables /\ Affordable(Owner[l], r.plan.amount)
    BY <1>3, <1>8 DEF CheckTransfer, Begin, Goto
  <2>2. r.last <= r.day /\ PlanKept(l, r.plan)
    BY <1>3, <1>8 DEF Holds, CheckTransfer, Paying
  <2>3. Holds("pay", r)
    BY <1>3, <1>2, <2>1, <2>2 DEF Holds
  <2> QED
    BY <1>0, <2>1, <2>3, ReadsGoOn
<1> QED
  BY <1>4, <1>5, <1>6, <1>7, <1>8

-----------------------------------------------------------------------------
(***************************************************************************)
(* What a commit does to the loan it is about, and to no other.            *)
(***************************************************************************)
\* Nothing that concerns a loan other than l changes.
Untouched(l) ==
  \A m \in Loans : m # l =>
    /\ loan'[m] = loan[m] /\ sched'[m] = sched[m]
    /\ disbTxns'[m] = disbTxns[m] /\ reversals'[m] = reversals[m]
    /\ Completed(m)' = Completed(m) /\ Made(m)' = Made(m)
    /\ \A k \in Completed(m) : payments'[k] = payments[k]
    /\ PrincipalPaid(m)' = PrincipalPaid(m)
    /\ \A i : PaidOn(m, i)' = PaidOn(m, i)

\* No payment of a loan stands.
NothingPaid(l) ==
  /\ Completed(l) = {} /\ PrincipalPaid(l) = 0
  /\ \A i : PaidOn(l, i) = 0

\* A loan gets its money.
Disbursed(l) ==
  /\ disbTxns[l] = 0 /\ reversals[l] = 0 /\ Funded(l)'
  /\ NothingPaid(l) /\ NothingPaid(l)'
  /\ loan'[l] = [status |-> "ACTIVE", outstanding |-> Amount[l]]
  /\ \A i \in Installments(l) : sched'[l][i] = "PENDING"

\* Its money is taken back.
Reversed(l) ==
  /\ Funded(l) /\ ~Funded(l)' /\ NothingPaid(l) /\ NothingPaid(l)'
  /\ loan'[l] = [status |-> "APPROVED", outstanding |-> 0]
  /\ \A i \in Installments(l) : sched'[l][i] = "NONE"

\* A payment of it is refunded.
Refunded(l, k) ==
  LET p == payments[k] IN
  /\ Funded(l) /\ Funded(l)'
  /\ k \in Completed(l) /\ Completed(l)' = Completed(l) \ {k}
  /\ \A j \in Completed(l) : j # k => payments'[j] = payments[j]
  /\ PrincipalPaid(l)' = PrincipalPaid(l) - p.principal
  /\ Made(l)' = Made(l)
  /\ loan'[l].outstanding = loan[l].outstanding + p.principal
  /\ \A i \in Installments(l) :
       /\ sched'[l][i] = IF i = p.inst THEN "ROLLED_BACK" ELSE sched[l][i]
       /\ PaidOn(l, i)' = IF i = p.inst THEN PaidOn(l, i) - p.principal
                                        ELSE PaidOn(l, i)

\* A payment of request r is recorded.
Paid(l, r) ==
  LET rows == r.plan.rows
      rest == Exact(loan[l].outstanding) - r.plan.alloc.principal
  IN
  /\ Funded(l) /\ Funded(l)' /\ loan[l].outstanding > 0
  /\ loan'[l].status = IF rest = 0 THEN "CLOSED" ELSE "ACTIVE"
  /\ loan'[l].outstanding = Stored(rest)
  /\ Recorded(rows) \in Int
  /\ PrincipalPaid(l)' = PrincipalPaid(l) + Recorded(rows)
  /\ Cardinality(Made(l)') = Cardinality(Made(l)) + Len(rows)
  /\ \A k \in Completed(l) : k \in Completed(l)' /\ payments'[k] = payments[k]
  /\ Completed(l)' = Completed(l)
                       \cup ((Len(payments) + 1)..(Len(payments) + Len(rows)))
  /\ \A n \in DOMAIN rows :
       /\ payments'[Len(payments) + n] = RowOf(l, r.day, rows[n])
       /\ sched'[l][rows[n].inst] = IF rows[n].covered THEN "PAID"
                                                       ELSE "PARTIALLY_PAID"
       /\ PaidOn(l, rows[n].inst)' = PaidOn(l, rows[n].inst) + rows[n].principal
  /\ \A i \in Installments(l) :
       (\A n \in DOMAIN rows : rows[n].inst # i) =>
         sched'[l][i] = sched[l][i] /\ PaidOn(l, i)' = PaidOn(l, i)

\* Nothing is paid where no payment stands.
NothingForNothing == \A l : Completed(l) = {} => NothingPaid(l)

\* That is so in every state.
LEMMA NoneStands == TablesOK => NothingForNothing
<1> SUFFICES ASSUME TablesOK, NEW l, Completed(l) = {} PROVE NothingPaid(l)
  BY DEF NothingForNothing
<1>1. Summed
  BY AsCredits
<1>2. \A i : CreditsOn(l, i) = {}
  BY DEF CreditsOn
<1> QED
  BY <1>1, <1>2, NoCredits DEF NothingPaid, Summed

\* Payments of a loan that stand as before are worth as much.
LEMMA PaidStays ==
  ASSUME TablesOK, TablesOK', NEW l, Completed(l)' = Completed(l),
         \A k \in Completed(l) : payments'[k] = payments[k]
  PROVE  /\ PrincipalPaid(l)' = PrincipalPaid(l)
         /\ \A i : PaidOn(l, i)' = PaidOn(l, i)
<1>1. Summed /\ Summed'
  BY AsCredits, PTL
<1>2. ASSUME NEW K \in SUBSET Completed(l)
      PROVE  Credits(payments', K) = Credits(payments, K)
  <2>1. /\ K \in SUBSET DOMAIN payments
        /\ \A k \in K : k \in DOMAIN payments' /\ payments'[k].principal = payments[k].principal
    <3>1. \A k \in Completed(l)' : k \in DOMAIN payments'
      BY DEF Completed
    <3>2. \A k \in Completed(l) : k \in DOMAIN payments
      BY DEF Completed
    <3> QED
      BY <3>1, <3>2
  <2> QED
    BY <2>1, CreditsStay
<1>3. \A i : CreditsOn(l, i)' = CreditsOn(l, i) /\ CreditsOn(l, i) \in SUBSET Completed(l)
  BY DEF CreditsOn
<1>4. PrincipalPaid(l)' = PrincipalPaid(l)
  BY <1>1, <1>2 DEF Summed
<1>5. ASSUME NEW i PROVE PaidOn(l, i)' = PaidOn(l, i)
  <2>1. /\ PaidOn(l, i)' = Credits(payments', CreditsOn(l, i))
        /\ PaidOn(l, i) = Credits(payments, CreditsOn(l, i))
    BY <1>1, <1>3 DEF Summed
  <2> QED
    BY <1>2, <1>3, <2>1
<1> QED
  BY <1>4, <1>5

\* The commit of a disbursement.
LEMMA DisbursementEffect ==
  ASSUME NEW w, Workers = {w}, Known, Known', CommitDisbursement(w)
  PROVE  \E l \in Loans : Disbursed(l) /\ Untouched(l)
<1>1. PICK l \in Loans : l = req[w].loan
  BY DEF CommitDisbursement, Known, Inv, DisbursementTypeOK, Disbursing
<1>2. /\ disbTxns' = [disbTxns EXCEPT ![l] = @ + 1]
      /\ loan' = [loan EXCEPT ![l] = [status |-> "ACTIVE", outstanding |-> Amount[l]]]
      /\ sched' = [sched EXCEPT ![l] = [i \in Installments(l) |-> "PENDING"]]
      /\ UNCHANGED <<payments, reversals>>
  BY <1>1 DEF CommitDisbursement
<1>3. TablesOK /\ TablesOK' /\ DOMAIN loan = Loans /\ DOMAIN sched = Loans
      /\ disbTxns \in [Loans -> Nat] /\ reversals \in [Loans -> Nat]
  BY DEF Known, MoneyInv, TablesOK, Inv, DisbursementTypeOK
<1>4. disbTxns[l] = 0 /\ reversals[l] = 0 /\ Completed(l) = {}
  BY <1>1, SMTT(30) DEF CommitDisbursement, Known, Inv, ClaimInv, StageInv, LedgerInv,
              SerialInv, LoanTable, Funded
<1>5. \A m : Completed(m)' = Completed(m) /\ Made(m)' = Made(m)
  BY <1>2 DEF Completed, Made
<1>6. \A m \in Loans : /\ PrincipalPaid(m)' = PrincipalPaid(m)
                       /\ \A i : PaidOn(m, i)' = PaidOn(m, i)
  BY <1>2, <1>3, <1>5, PaidStays
<1>7. Untouched(l)
  BY <1>2, <1>3, <1>5, <1>6 DEF Untouched
<1>8. NothingPaid(l) /\ NothingPaid(l)'
  <2>1. NothingPaid(l)
    BY <1>3, <1>4, NoneStands DEF NothingForNothing
  <2> QED
    BY <1>5, <1>6, <2>1 DEF NothingPaid
<1>9. Disbursed(l)
  BY <1>2, <1>3, <1>4, <1>8 DEF Disbursed, Funded
<1> QED
  BY <1>7, <1>9

\* The commit of a reversal.
LEMMA ReversalEffect ==
  ASSUME NEW w, Workers = {w}, Known, Known', CommitReversal(w)
  PROVE  \E l \in Loans : Reversed(l) /\ Untouched(l)
<1>1. PICK l \in Loans : l = req[w].loan
  BY DEF CommitReversal, Known, Inv, DisbursementTypeOK, Undoing
<1>2. /\ loan' = [loan EXCEPT ![l] = [status |-> "APPROVED", outstanding |-> 0]]
      /\ sched' = [sched EXCEPT ![l] = [i \in Installments(l) |-> "NONE"]]
      /\ payments' = [k \in DOMAIN payments |->
                       IF payments[k].loan = l THEN [payments[k] EXCEPT !.inst = 0]
                                               ELSE payments[k]]
      /\ reversals' = [reversals EXCEPT ![l] = @ + 1]
      /\ UNCHANGED disbTxns
  BY <1>1 DEF CommitReversal, ScheduleDeleted
<1>3. TablesOK /\ TablesOK' /\ DOMAIN loan = Loans /\ DOMAIN sched = Loans
      /\ disbTxns \in [Loans -> Nat] /\ reversals \in [Loans -> Nat]
  BY DEF Known, MoneyInv, TablesOK, Inv, DisbursementTypeOK
<1>4. disbTxns[l] = 1 /\ reversals[l] = 0 /\ Completed(l) = {}
  BY <1>1 DEF CommitReversal, Known, Inv, ClaimInv, LedgerInv, Undoing,
              SerialInv, HandlerOK
<1>5. \A k \in DOMAIN payments :
        /\ payments'[k].loan = payments[k].loan
        /\ payments'[k].status = payments[k].status
        /\ payments[k].loan # l => payments'[k] = payments[k]
  BY <1>2, <1>3, PaymentsNumbered DEF PaymentRows
<1>6. \A m : Completed(m)' = Completed(m) /\ Made(m)' = Made(m)
  BY <1>2, <1>5 DEF Completed, Made
<1>7. \A m \in Loans : m # l =>
        /\ PrincipalPaid(m)' = PrincipalPaid(m)
        /\ \A i : PaidOn(m, i)' = PaidOn(m, i)
        /\ \A k \in Completed(m) : payments'[k] = payments[k]
  <2> SUFFICES ASSUME NEW m \in Loans, m # l
               PROVE  /\ PrincipalPaid(m)' = PrincipalPaid(m)
                      /\ \A i : PaidOn(m, i)' = PaidOn(m, i)
                      /\ \A k \in Completed(m) : payments'[k] = payments[k]
    OBVIOUS
  <2>1. \A k \in Completed(m) : payments'[k] = payments[k]
    BY <1>5 DEF Completed
  <2> QED
    BY <1>3, <1>6, <2>1, PaidStays
<1>8. Untouched(l)
  BY <1>2, <1>3, <1>6, <1>7 DEF Untouched
<1>9. NothingPaid(l) /\ NothingPaid(l)'
  <2>1. NothingForNothing /\ NothingForNothing'
    BY <1>3, NoneStands, PTL
  <2> QED
    BY <1>4, <1>6, <2>1 DEF NothingForNothing
<1>10. Reversed(l)
  BY <1>2, <1>3, <1>4, <1>9 DEF Reversed, Funded
<1> QED
  BY <1>8, <1>10

\* The commit of a refund.
LEMMA RefundEffect ==
  ASSUME NEW w, Workers = {w}, Known, Known', RepaymentInv, CommitRefund(w)
  PROVE  \E l \in Loans, k \in DOMAIN payments :
           /\ Refunded(l, k) /\ Untouched(l) /\ req[w].loan = l
           /\ payments[k].principal >= 0 /\ req[w].status # "NONE"
           /\ loan'[l].status = IF loan'[l].outstanding > 0 THEN "ACTIVE"
                                                            ELSE req[w].status
<1>0. PICK r, l, k : r = req[w] /\ l = r.loan /\ k = r.payment
  OBVIOUS
<1>1. /\ l \in Loans /\ r \in RefundRequests(l)
      /\ pc[w] = "refund" /\ Holds("refund", r) /\ HandlerOK(w)
  BY <1>0 DEF CommitRefund, Known, SerialInv, MoneyInv, LocalsOK, RefundRequests,
              RepaymentInv, ReadsOK
<1>2. /\ k \in DOMAIN payments /\ payments[k].status = "COMPLETED"
      /\ payments[k].loan = l /\ Funded(l)
      /\ r.outstanding = loan[l].outstanding /\ r.outstanding \in Int
      /\ r.principal = payments[k].principal /\ r.principal \in Int
      /\ r.inst = payments[k].inst /\ r.inst \in {0} \cup Installments(l)
      /\ r.status # "NONE" /\ r.principal >= 0
  BY <1>0, <1>1 DEF HandlerOK, Holds, RefundRequests, RepaymentInv, BooksOK
<1>3. /\ loan' = [loan EXCEPT ![l] = [status |-> StatusAfterRefund(r),
                                      outstanding |-> OutstandingAfterRefund(r)]]
      /\ payments' = [payments EXCEPT
                       ![k] = [payments[k] EXCEPT
                                !.status = "ROLLED_BACK", !.refunds = @ + 1]]
      /\ sched' = IF r.inst # 0
                  THEN [sched EXCEPT ![l] = [sched[l] EXCEPT ![r.inst] = "ROLLED_BACK"]]
                  ELSE sched
      /\ UNCHANGED <<disbTxns, reversals>>
  BY <1>0 DEF CommitRefund
<1>4. TablesOK /\ TablesOK' /\ DOMAIN loan = Loans /\ DOMAIN sched = Loans
      /\ \A m \in Loans : DOMAIN sched[m] = Installments(m)
  BY DEF Known, MoneyInv, TablesOK
<1>5. /\ DOMAIN payments' = DOMAIN payments
      /\ \A j \in DOMAIN payments : j # k => payments'[j] = payments[j]
      /\ payments'[k].status = "ROLLED_BACK" /\ payments'[k].loan = l
      /\ "ROLLED_BACK" # "COMPLETED"
  <2>1. payments[k] \in PaymentRows
    BY <1>2, <1>4, PaymentsNumbered
  <2>2. [payments[k] EXCEPT !.status = "ROLLED_BACK", !.refunds = @ + 1].status
          = "ROLLED_BACK"
        /\ [payments[k] EXCEPT !.status = "ROLLED_BACK", !.refunds = @ + 1].loan = l
    BY <1>2, <2>1 DEF PaymentRows
  <2> QED
    BY <1>2, <1>3, <2>2
<1>6. /\ Completed(l)' = Completed(l) \ {k} /\ k \in Completed(l)
      /\ Made(l)' = Made(l)
      /\ \A m : m # l => Completed(m)' = Completed(m) /\ Made(m)' = Made(m)
      /\ \A j \in Completed(l) : j # k => payments'[j] = payments[j]
      /\ \A m : m # l => \A j \in Completed(m) : payments'[j] = payments[j]
  BY <1>2, <1>5 DEF Completed, Made
<1>7. Untouched(l)
  <2>1. \A m \in Loans : m # l => /\ PrincipalPaid(m)' = PrincipalPaid(m)
                                  /\ \A i : PaidOn(m, i)' = PaidOn(m, i)
    BY <1>4, <1>6, PaidStays
  <2> QED
    BY <1>3, <1>4, <1>6, <2>1 DEF Untouched
<1>8. Summed /\ Summed'
  BY <1>4, AsCredits, PTL
<1>9. ASSUME NEW K \in SUBSET Completed(l), k \notin K
      PROVE  Credits(payments', K) = Credits(payments, K)
  <2>1. /\ K \in SUBSET DOMAIN payments
        /\ \A j \in K : j \in DOMAIN payments' /\ payments'[j].principal = payments[j].principal
    BY <1>5, <1>6, <1>9 DEF Completed
  <2> QED
    BY <1>4, <2>1, CreditsStay
<1>10. ASSUME NEW K \in SUBSET Completed(l), k \in K
       PROVE  Credits(payments', K \ {k}) = Credits(payments, K) - payments[k].principal
  <2>1. K \in SUBSET DOMAIN payments
    BY DEF Completed
  <2>2. Credits(payments, K) = payments[k].principal + Credits(payments, K \ {k})
    BY <1>4, <1>10, <2>1, CreditsWithout
  <2>3. Credits(payments', K \ {k}) = Credits(payments, K \ {k})
    <3>1. K \ {k} \in SUBSET Completed(l) /\ k \notin K \ {k}
      OBVIOUS
    <3> QED
      BY <1>9, <3>1
  <2>4. Credits(payments, K \ {k}) \in Int /\ payments[k].principal \in Int
    BY <1>2, <1>8, <2>1 DEF Summed
  <2> QED
    BY <2>2, <2>3, <2>4
<1>11. PrincipalPaid(l)' = PrincipalPaid(l) - payments[k].principal
  BY <1>6, <1>8, <1>10 DEF Summed
<1>12. ASSUME NEW i \in Installments(l)
       PROVE  PaidOn(l, i)' = IF i = payments[k].inst
                              THEN PaidOn(l, i) - payments[k].principal
                              ELSE PaidOn(l, i)
  <2>1. CreditsOn(l, i)' = CreditsOn(l, i) \ {k}
    BY <1>6 DEF CreditsOn
  <2>2. CreditsOn(l, i) \in SUBSET Completed(l)
        /\ (k \in CreditsOn(l, i) <=> i = payments[k].inst)
    BY <1>6 DEF CreditsOn
  <2>3. /\ PaidOn(l, i)' = Credits(payments', CreditsOn(l, i) \ {k})
        /\ PaidOn(l, i) = Credits(payments, CreditsOn(l, i))
    BY <1>8, <2>1 DEF Summed
  <2>4. CASE i = payments[k].inst
    BY <1>10, <2>2, <2>3, <2>4
  <2>5. CASE i # payments[k].inst
    <3>1. CreditsOn(l, i) \ {k} = CreditsOn(l, i) /\ k \notin CreditsOn(l, i)
      BY <2>2, <2>5
    <3> QED
      BY <1>9, <2>2, <2>3, <2>5, <3>1
  <2> QED
    BY <2>4, <2>5
<1>13. Funded(l)'
  BY <1>2, <1>3 DEF Funded
<1>14. /\ loan'[l].outstanding = loan[l].outstanding + payments[k].principal
       /\ loan'[l].status = IF loan'[l].outstanding > 0 THEN "ACTIVE" ELSE r.status
  <2>1. loan'[l] = [status |-> StatusAfterRefund(r),
                    outstanding |-> OutstandingAfterRefund(r)]
    BY <1>1, <1>3, <1>4
  <2>2. /\ loan'[l].status = StatusAfterRefund(r)
        /\ loan'[l].outstanding = OutstandingAfterRefund(r)
    BY <2>1
  <2> QED
    BY <1>2, <2>2 DEF OutstandingAfterRefund, StatusAfterRefund
<1>15. \A i \in Installments(l) :
         sched'[l][i] = IF i = payments[k].inst THEN "ROLLED_BACK" ELSE sched[l][i]
  <2>1. \A i \in Installments(l) : i # 0
    BY <1>1, InstallmentsNumbered
  <2> QED
    BY <1>1, <1>2, <1>3, <1>4, <2>1
<1>16. Refunded(l, k)
  BY <1>2, <1>6, <1>11, <1>12, <1>13, <1>14, <1>15 DEF Refunded
<1> QED
  BY <1>0, <1>1, <1>2, <1>7, <1>14, <1>16

\* The commit of a payment.
LEMMA PaymentEffect ==
  ASSUME NEW w, Workers = {w}, Known, Known', RepaymentInv, CommitPayment(w)
  PROVE  \E l \in Loans : \E r :
           /\ r = req[w] /\ r \in PayRequests(l) /\ Holds("pay", r)
           /\ r.loan = l /\ Paid(l, r) /\ Untouched(l)
<1>0. pc[w] = "pay" /\ TablesOK /\ TablesOK'
      /\ DOMAIN loan = Loans /\ DOMAIN sched = Loans
      /\ \A m \in Loans : DOMAIN sched[m] = Installments(m)
  BY DEF CommitPayment, Known, MoneyInv, TablesOK
<1>1. PICK l \in Loans : \E r :
        /\ r = req[w] /\ r \in PayRequests(l) /\ r.loan = l
        /\ Funded(l) /\ Holds(pc[w], r)
        /\ r.day \in Nat /\ r.last \in Nat /\ r.plan \in Plans(l)
        /\ r.amount \in Nat
  BY <1>0, PayerKnows DEF Paying
<1>2. PICK r, rows, rest, s :
        /\ r = req[w] /\ rows = r.plan.rows
        /\ rest = Exact(r.outstanding) - r.plan.alloc.principal
        /\ s = IF rest = 0 THEN "CLOSED" ELSE "ACTIVE"
  OBVIOUS
<1>3. /\ r \in PayRequests(l) /\ r.loan = l /\ Funded(l) /\ Holds("pay", r)
      /\ r.plan \in Plans(l) /\ rows \in Seq(PlanRows(l))
      /\ r.outstanding = loan[l].outstanding /\ r.outstanding > 0
      /\ PlanKept(l, r.plan)
  BY <1>0, <1>1, <1>2 DEF Holds, Paying, Plans
<1>4. /\ payments' = payments \o Added(l, r.day, rows)
      /\ loan' = [loan EXCEPT ![l] = [status |-> s, outstanding |-> Stored(rest)]]
      /\ UNCHANGED <<disbTxns, reversals>>
  BY <1>2, <1>3 DEF CommitPayment, Added, RowOf, OutstandingAfterPayment
<1>5. sched' = [sched EXCEPT ![l] =
                 [i \in Installments(l) |->
                   IF i \notin {x.inst : x \in Range(rows)} THEN sched[l][i]
                   ELSE IF (CHOOSE x \in Range(rows) : x.inst = i).covered
                        THEN "PAID" ELSE "PARTIALLY_PAID"]]
  BY <1>2, <1>3 DEF CommitPayment
<1>6. /\ Len(rows) \in Nat /\ DOMAIN rows = 1..Len(rows)
      /\ \A n \in 1..Len(rows) : rows[n] \in PlanRows(l)
      /\ DOMAIN payments' = 1..(Len(payments) + Len(rows))
      /\ \A k \in 1..Len(payments) : payments'[k] = payments[k]
      /\ \A n \in 1..Len(rows) :
           payments'[Len(payments) + n] = RowOf(l, r.day, rows[n])
      /\ Completed(l)'
           = Completed(l) \cup ((Len(payments) + 1)..(Len(payments) + Len(rows)))
      /\ \A m : m # l => Completed(m)' = Completed(m) /\ Made(m)' = Made(m)
  BY <1>0, <1>3, <1>4, PaymentsAdded
<1>7. /\ Recorded(rows) \in Int
      /\ PrincipalPaid(l)' = PrincipalPaid(l) + Recorded(rows)
      /\ Cardinality(Made(l)') = Cardinality(Made(l)) + Len(rows)
      /\ \A m : m # l => PrincipalPaid(m)' = PrincipalPaid(m)
      /\ \A m, i : m # l => PaidOn(m, i)' = PaidOn(m, i)
      /\ \A i : (\A n \in DOMAIN rows : rows[n].inst # i)
                 => PaidOn(l, i)' = PaidOn(l, i)
      /\ \A n \in DOMAIN rows :
           (\A m \in DOMAIN rows : rows[m].inst = rows[n].inst => m = n)
             => PaidOn(l, rows[n].inst)' = PaidOn(l, rows[n].inst) + rows[n].principal
  BY <1>0, <1>3, <1>4, CreditsAdded
<1>8. \A n \in DOMAIN rows :
        /\ rows[n].inst \in Installments(l)
        /\ \A m \in DOMAIN rows : rows[m].inst = rows[n].inst => m = n
  BY <1>2, <1>3, <1>6 DEF PlanKept, PlanRows
<1>9. Range(rows) = {rows[n] : n \in DOMAIN rows}
  BY DEF Range
<1>10. ASSUME NEW n \in DOMAIN rows
       PROVE  sched'[l][rows[n].inst] = IF rows[n].covered THEN "PAID"
                                                           ELSE "PARTIALLY_PAID"
  <2>1. (CHOOSE x \in Range(rows) : x.inst = rows[n].inst) = rows[n]
    BY <1>8, <1>9
  <2>2. rows[n].inst \in {x.inst : x \in Range(rows)}
    BY <1>9
  <2> QED
    BY <1>0, <1>5, <1>8, <2>1, <2>2
<1>11. ASSUME NEW i \in Installments(l), \A n \in DOMAIN rows : rows[n].inst # i
       PROVE  sched'[l][i] = sched[l][i]
  <2>1. i \notin {x.inst : x \in Range(rows)}
    BY <1>9, <1>11
  <2> QED
    BY <1>0, <1>5, <2>1
<1>12. \A m : Completed(m) \subseteq 1..Len(payments)
  BY <1>0, PaymentsNumbered DEF Completed
<1>13. Untouched(l)
  <2>1. \A m \in Loans : m # l => /\ loan'[m] = loan[m] /\ sched'[m] = sched[m]
                                  /\ disbTxns'[m] = disbTxns[m]
                                  /\ reversals'[m] = reversals[m]
    BY <1>0, <1>4, <1>5
  <2>2. \A m : \A k \in Completed(m) : payments'[k] = payments[k]
    BY <1>6, <1>12
  <2> QED
    BY <1>6, <1>7, <2>1, <2>2 DEF Untouched
<1>14. Funded(l)'
  BY <1>3, <1>4 DEF Funded
<1>15. loan'[l].status = s /\ loan'[l].outstanding = Stored(rest)
  BY <1>0, <1>4
<1>16. \A k \in Completed(l) : k \in Completed(l)' /\ payments'[k] = payments[k]
  BY <1>6, <1>12
<1>17. \A n \in DOMAIN rows :
         /\ payments'[Len(payments) + n] = RowOf(l, r.day, rows[n])
         /\ sched'[l][rows[n].inst] = IF rows[n].covered THEN "PAID"
                                                         ELSE "PARTIALLY_PAID"
         /\ PaidOn(l, rows[n].inst)' = PaidOn(l, rows[n].inst) + rows[n].principal
  BY <1>6, <1>7, <1>8, <1>10
<1>18. \A i \in Installments(l) :
         (\A n \in DOMAIN rows : rows[n].inst # i) =>
           sched'[l][i] = sched[l][i] /\ PaidOn(l, i)' = PaidOn(l, i)
  BY <1>7, <1>11
<1>19. /\ rest = Exact(loan[l].outstanding) - r.plan.alloc.principal
       /\ s = IF rest = 0 THEN "CLOSED" ELSE "ACTIVE"
       /\ rows = r.plan.rows /\ loan[l].outstanding > 0
       /\ Funded(l) /\ Funded(l)'
  BY <1>2, <1>3, <1>14
<1>20. /\ Recorded(rows) \in Int
       /\ PrincipalPaid(l)' = PrincipalPaid(l) + Recorded(rows)
       /\ Cardinality(Made(l)') = Cardinality(Made(l)) + Len(rows)
       /\ Completed(l)' = Completed(l)
                            \cup ((Len(payments) + 1)..(Len(payments) + Len(rows)))
  BY <1>6, <1>7
<1>21. Paid(l, r)
  BY <1>15, <1>16, <1>17, <1>18, <1>19, <1>20, Zenon DEF Paid
<1> QED
  BY <1>2, <1>3, <1>13, <1>21

-----------------------------------------------------------------------------
(***************************************************************************)
(* Steps that change the books.                                            *)
(***************************************************************************)
\* What the invariant says of one loan.
BookOK(l) ==
  /\ Funded(l) => /\ loan[l].status # "NONE"
                  /\ loan[l].outstanding
                       <= Amount[l] - PrincipalPaid(l) + Cardinality(Made(l))
  /\ \A i \in Installments(l) :
       /\ PaidOn(l, i) <= Principal[l][i]
       /\ sched[l][i] = "PAID" => Principal[l][i] - PaidOn(l, i) <= 1

\* The books are those of the loans.
LEMMA Books ==
  BooksOK <=> /\ \A k \in DOMAIN payments : payments[k].principal >= 0
              /\ \A l \in Loans : BookOK(l)
BY DEF BooksOK, BookOK, InstallmentNotOverpaid, PaidMeansCovered, OwesWhatIsLacking

\* A commit that keeps the book of its loan keeps them all.
LEMMA OthersKeep ==
  ASSUME BooksOK, NEW l \in Loans, Untouched(l), BookOK(l)',
         \A k \in DOMAIN payments' : payments'[k].principal >= 0
  PROVE  BooksOK'
<1>1. ASSUME NEW m \in Loans, m # l PROVE BookOK(m)'
  <2>1. BookOK(m)
    BY Books
  <2> QED
    BY <1>1, <2>1 DEF Untouched, BookOK, Funded
<1>2. \A m \in Loans : BookOK(m)'
  BY <1>1
<1> QED
  BY <1>2 DEF BooksOK, BookOK, InstallmentNotOverpaid, PaidMeansCovered,
              OwesWhatIsLacking

\* No negative number of payments is made, and what they record is an integer.
LEMMA BookNumbers ==
  ASSUME TablesOK, BooksOK, NEW l \in Loans
  PROVE  /\ Cardinality(Made(l)) \in Nat /\ PrincipalPaid(l) \in Int
         /\ Amount[l] \in Nat
         /\ loan[l].outstanding \in Int
         /\ \A i \in Installments(l) :
              Principal[l][i] \in Nat /\ PaidOn(l, i) \in Nat
<1>1. Cardinality(Made(l)) \in Nat
  BY PaymentsNumbered, FS_CardinalityType
<1>2. Summed
  BY AsCredits
<1>3. /\ Completed(l) \in SUBSET DOMAIN payments
      /\ \A i : CreditsOn(l, i) \in SUBSET DOMAIN payments
  BY DEF Completed, CreditsOn
<1>4. PrincipalPaid(l) \in Int
  BY <1>2, <1>3 DEF Summed
<1>5. \A i : PaidOn(l, i) \in Int /\ PaidOn(l, i) >= 0
  BY <1>2, <1>3 DEF Summed, BooksOK
<1> QED
  BY <1>1, <1>4, <1>5, InstallmentsNumbered, DatabaseAssumption DEF TablesOK

\* The commits of a disbursement and of its reversal.
LEMMA FundingKeepsBooks ==
  ASSUME NEW w, Workers = {w}, Known, Known', RepaymentInv,
         CommitDisbursement(w) \/ CommitReversal(w)
  PROVE  RepaymentInv'
<1>1. PICK l \in Loans : (Disbursed(l) \/ Reversed(l)) /\ Untouched(l)
  BY DisbursementEffect, ReversalEffect
<1>2. TablesOK /\ TablesOK' /\ BooksOK
  BY DEF Known, MoneyInv, RepaymentInv
<1>3. /\ \A i \in Installments(l) : Principal[l][i] \in Nat
      /\ Amount[l] \in Nat
  BY <1>2, BookNumbers
<1>4. Cardinality(Made(l)') \in Nat
  <2>1. Made(l)' = Made(l)
    <3>1. /\ DOMAIN payments' = DOMAIN payments
          /\ \A k \in DOMAIN payments : payments'[k].loan = payments[k].loan
      <4>1. \A k \in DOMAIN payments : payments[k] \in PaymentRows
        BY <1>2, PaymentsNumbered
      <4> QED
        BY <4>1 DEF CommitDisbursement, CommitReversal, PaymentRows
    <3> QED
      BY <3>1 DEF Made
  <2> QED
    BY <1>2, <2>1, BookNumbers
<1>5. BookOK(l)'
  <2>1. PrincipalPaid(l)' = 0 /\ \A i : PaidOn(l, i)' = 0
    BY <1>1 DEF Disbursed, Reversed, NothingPaid
  <2>2. \A i \in Installments(l) : sched'[l][i] # "PAID"
    BY <1>1 DEF Disbursed, Reversed
  <2>3. Funded(l)' => loan'[l].status # "NONE" /\ loan'[l].outstanding = Amount[l]
    BY <1>1 DEF Disbursed, Reversed
  <2> QED
    BY <1>3, <1>4, <2>1, <2>2, <2>3 DEF BookOK
<1>6. \A k \in DOMAIN payments' : payments'[k].principal >= 0
  <2>1. /\ DOMAIN payments' = DOMAIN payments
        /\ \A k \in DOMAIN payments : payments'[k].principal = payments[k].principal
    <3>1. \A k \in DOMAIN payments : payments[k] \in PaymentRows
      BY <1>2, PaymentsNumbered
    <3> QED
      BY <3>1 DEF CommitDisbursement, CommitReversal, PaymentRows
  <2> QED
    BY <1>2, <2>1 DEF BooksOK
<1>7. BooksOK'
  BY <1>1, <1>2, <1>5, <1>6, OthersKeep
<1>8. \A v \in Workers : ReadsOK(v)'
  <2>1. CASE CommitDisbursement(w)
    <3>1. \E label \in {"complete", "fail"} : pc' = [pc EXCEPT ![w] = label]
      BY <2>1 DEF CommitDisbursement, Goto
    <3> QED
      BY <3>1, NothingHeld DEF Known, Inv, Relying, Paying
  <2>2. CASE CommitReversal(w)
    BY <2>2, EndsHeld DEF CommitReversal, Known
  <2> QED
    BY <2>1, <2>2
<1> QED
  BY <1>7, <1>8 DEF RepaymentInv

\* The commit of a refund.
LEMMA RefundKeepsBooks ==
  ASSUME NEW w, Workers = {w}, Known, Known', RepaymentInv, CommitRefund(w)
  PROVE  RepaymentInv'
<1>1. PICK l \in Loans, k \in DOMAIN payments :
        /\ Refunded(l, k) /\ Untouched(l)
        /\ payments[k].principal >= 0 /\ req[w].status # "NONE"
        /\ loan'[l].status = IF loan'[l].outstanding > 0 THEN "ACTIVE"
                                                         ELSE req[w].status
  BY RefundEffect
<1>2. TablesOK /\ TablesOK' /\ BooksOK /\ BookOK(l)
  BY Books DEF Known, MoneyInv, RepaymentInv
<1>3. PICK x \in Int : x = payments[k].principal
  BY <1>2, PaymentsNumbered DEF PaymentRows
<1>4. BookOK(l)'
  <2>1. /\ Cardinality(Made(l)) \in Nat /\ PrincipalPaid(l) \in Int
        /\ Amount[l] \in Nat /\ loan[l].outstanding \in Int
        /\ \A i \in Installments(l) :
             Principal[l][i] \in Nat /\ PaidOn(l, i) \in Nat
    BY <1>2, BookNumbers
  <2>2. loan'[l].status # "NONE"
    BY <1>1
  <2>3. loan'[l].outstanding
          <= Amount[l] - PrincipalPaid(l)' + Cardinality(Made(l)')
    BY <1>1, <1>2, <1>3, <2>1 DEF Refunded, BookOK
  <2>4. ASSUME NEW i \in Installments(l)
        PROVE  /\ PaidOn(l, i)' <= Principal[l][i]
               /\ sched'[l][i] = "PAID" => Principal[l][i] - PaidOn(l, i)' <= 1
    <3>1. /\ sched'[l][i] = IF i = payments[k].inst THEN "ROLLED_BACK"
                                                    ELSE sched[l][i]
          /\ PaidOn(l, i)' = IF i = payments[k].inst THEN PaidOn(l, i) - x
                                                     ELSE PaidOn(l, i)
      BY <1>1, <1>3 DEF Refunded
    <3> QED
      BY <1>1, <1>2, <1>3, <2>1, <3>1 DEF BookOK
  <2> QED
    BY <2>2, <2>3, <2>4 DEF BookOK
<1>5. \A j \in DOMAIN payments' : payments'[j].principal >= 0
  <2>1. /\ DOMAIN payments' = DOMAIN payments
        /\ \A j \in DOMAIN payments : payments'[j].principal = payments[j].principal
    <3>1. \A j \in DOMAIN payments : payments[j] \in PaymentRows
      BY <1>2, PaymentsNumbered
    <3>2. payments' = [payments EXCEPT
                        ![req[w].payment] = [payments[req[w].payment] EXCEPT
                          !.status = "ROLLED_BACK", !.refunds = @ + 1]]
      BY DEF CommitRefund
    <3> QED
      BY <3>1, <3>2 DEF PaymentRows
  <2> QED
    BY <1>2, <2>1 DEF BooksOK
<1>6. BooksOK'
  BY <1>1, <1>2, <1>4, <1>5, OthersKeep
<1>7. \A v \in Workers : ReadsOK(v)'
  BY EndsHeld DEF CommitRefund, Known
<1> QED
  BY <1>6, <1>7 DEF RepaymentInv

\* What a loan owes after a payment is rounded up by half a cent at most, and what
\* the payment records by half a cent for each of its rows.
LEMMA RestCovered ==
  ASSUME NEW out \in Int, NEW a \in Int, NEW y \in Int, NEW rec \in Int,
         NEW n \in Nat, y <= a, 2 * Scale * rec <= 2 * y + Scale * n
  PROVE  Stored(Exact(out) - a) <= out - rec + n
<1> DEFINE x == Stored(Exact(out) - a)
<1>1. Exact(out) \in Int /\ Exact(out) - a \in Int
  BY ExactInt
<1>2. x \in Int /\ 2 * Scale * x <= 2 * (Exact(out) - a) + Scale
  BY <1>1, StoredNear
<1> HIDE DEF x
<1>3. PICK s \in Nat \ {0} : s = Scale
  BY DatabaseAssumption
<1>4. PICK e \in Int : e = out * s /\ e = Exact(out)
  BY <1>1, <1>3 DEF Exact
<1>5. 2 * s * x <= 2 * (e - a) + s /\ 2 * s * rec <= 2 * y + s * n
  BY <1>2, <1>3, <1>4
<1>6. x \in Int
  BY <1>2
<1>7. x + rec <= out + n
  <2>1. SUFFICES ASSUME x + rec >= out + n + 1 PROVE FALSE
    BY <1>6
  <2>2. /\ s * x \in Int /\ s * rec \in Int /\ s * n \in Int
        /\ s * (x + rec) = s * x + s * rec
        /\ s * (out + n + 1) = e + s * n + s
        /\ s * (out + n + 1) <= s * (x + rec)
        /\ 2 * s * x = 2 * (s * x) /\ 2 * s * rec = 2 * (s * rec)
    <3>1. s * (out + n + 1) <= s * (x + rec)
      BY <1>6, <2>1, Multiples
    <3>2. s * (x + rec) = s * x + s * rec
      BY <1>6, Multiples
    <3>3. s * (out + n + 1) = e + s * n + s
      BY <1>4
    <3>4. /\ s * x \in Int /\ s * rec \in Int /\ s * n \in Int
          /\ 2 * s * x = 2 * (s * x) /\ 2 * s * rec = 2 * (s * rec)
      BY <1>6
    <3> QED
      BY <3>1, <3>2, <3>3, <3>4
  <2>3. s * n >= 0
    BY <1>3
  <2> QED
    BY <1>3, <1>4, <1>5, <2>2, <2>3
<1> QED
  BY <1>6, <1>7 DEF x

\* The commit of a payment.
LEMMA PaymentKeepsBooks ==
  ASSUME NEW w, Workers = {w}, Known, Known', RepaymentInv, CommitPayment(w)
  PROVE  RepaymentInv'
<1>1. PICK l \in Loans : \E r :
        /\ r = req[w] /\ r \in PayRequests(l) /\ Holds("pay", r)
        /\ r.loan = l /\ Paid(l, r) /\ Untouched(l)
  BY PaymentEffect
<1>2. PICK r : /\ r = req[w] /\ r \in PayRequests(l) /\ Holds("pay", r)
               /\ r.loan = l /\ Paid(l, r) /\ Untouched(l)
  BY <1>1
<1>3. PICK rows, a, y : /\ rows = r.plan.rows /\ a = r.plan.alloc.principal
                        /\ y = r.plan.spread.principal
  OBVIOUS
<1>4. TablesOK /\ TablesOK' /\ BooksOK /\ BookOK(l)
  BY Books DEF Known, MoneyInv, RepaymentInv
<1>5. /\ rows \in Seq(PlanRows(l)) /\ a \in Int /\ y \in Int
      /\ PlanKept(l, r.plan)
  BY <1>2, <1>3 DEF PayRequests, Plans, Shares, Holds
<1>6. /\ y <= a /\ 2 * Scale * Recorded(rows) <= 2 * y + Scale * Len(rows)
      /\ \A n \in DOMAIN rows :
           /\ rows[n].principal
                \in 0..(Principal[l][rows[n].inst] - PaidOn(l, rows[n].inst))
           /\ rows[n].covered => Principal[l][rows[n].inst] - rows[n].principal <= 1
  BY <1>3, <1>5 DEF PlanKept
<1>7. /\ Cardinality(Made(l)) \in Nat /\ PrincipalPaid(l) \in Int
      /\ Amount[l] \in Nat /\ loan[l].outstanding \in Int
      /\ \A i \in Installments(l) :
           Principal[l][i] \in Nat /\ PaidOn(l, i) \in Nat
  BY <1>4, BookNumbers
<1>8. Len(rows) \in Nat /\ Recorded(rows) \in Int
  BY <1>2, <1>3, <1>5, LenProperties DEF Paid
<1>9. /\ loan'[l].outstanding = Stored(Exact(loan[l].outstanding) - a)
      /\ PrincipalPaid(l)' = PrincipalPaid(l) + Recorded(rows)
      /\ Cardinality(Made(l)') = Cardinality(Made(l)) + Len(rows)
      /\ Funded(l) /\ loan'[l].status # "NONE"
  BY <1>2, <1>3 DEF Paid
<1>10. loan'[l].outstanding <= loan[l].outstanding - Recorded(rows) + Len(rows)
  BY <1>5, <1>6, <1>7, <1>8, <1>9, RestCovered
<1>11. loan'[l].outstanding
         <= Amount[l] - PrincipalPaid(l)' + Cardinality(Made(l)')
  <2>1. loan[l].outstanding <= Amount[l] - PrincipalPaid(l) + Cardinality(Made(l))
    BY <1>4, <1>9 DEF BookOK
  <2>2. loan'[l].outstanding \in Int
    BY <1>4 DEF TablesOK
  <2>3. PICK owed, rest, made, record, paid, count, lent :
          /\ owed = loan[l].outstanding /\ rest = loan'[l].outstanding
          /\ lent = Amount[l]
          /\ made = Len(rows) /\ record = Recorded(rows)
          /\ paid = PrincipalPaid(l) /\ count = Cardinality(Made(l))
    OBVIOUS
  <2>4. /\ owed \in Int /\ rest \in Int /\ made \in Int /\ record \in Int
        /\ paid \in Int /\ count \in Int /\ lent \in Int
    BY <1>7, <1>8, <2>2, <2>3
  <2>5. rest <= owed - record + made /\ owed <= lent - paid + count
    BY <1>10, <2>1, <2>3
  <2>6. rest <= lent - (paid + record) + (count + made)
    BY <2>4, <2>5
  <2> QED
    BY <1>9, <2>3, <2>6
<1>12. ASSUME NEW i \in Installments(l)
       PROVE  /\ PaidOn(l, i)' <= Principal[l][i]
              /\ sched'[l][i] = "PAID" => Principal[l][i] - PaidOn(l, i)' <= 1
  <2>1. CASE \A n \in DOMAIN rows : rows[n].inst # i
    <3>1. sched'[l][i] = sched[l][i] /\ PaidOn(l, i)' = PaidOn(l, i)
      BY <1>2, <1>3, <2>1 DEF Paid
    <3> QED
      BY <1>4, <3>1 DEF BookOK
  <2>2. CASE \E n \in DOMAIN rows : rows[n].inst = i
    <3>1. PICK n \in DOMAIN rows : rows[n].inst = i
      BY <2>2
    <3>2. /\ PaidOn(l, i)' = PaidOn(l, i) + rows[n].principal
          /\ sched'[l][i] = IF rows[n].covered THEN "PAID" ELSE "PARTIALLY_PAID"
      BY <1>2, <1>3, <3>1 DEF Paid
    <3>3. /\ rows[n].principal \in 0..(Principal[l][i] - PaidOn(l, i))
          /\ rows[n].covered => Principal[l][i] - rows[n].principal <= 1
      BY <1>6, <3>1
    <3> QED
      BY <1>7, <3>2, <3>3
  <2> QED
    BY <2>1, <2>2
<1>13. BookOK(l)'
  BY <1>9, <1>11, <1>12 DEF BookOK
<1>14. \A k \in DOMAIN payments' : payments'[k].principal >= 0
  <2>1. /\ payments' = payments \o Added(l, r.day, rows)
    BY <1>2, <1>3 DEF CommitPayment, Added, RowOf
  <2>2. /\ Len(rows) \in Nat /\ DOMAIN rows = 1..Len(rows)
        /\ DOMAIN payments' = 1..(Len(payments) + Len(rows))
        /\ \A k \in 1..Len(payments) : payments'[k] = payments[k]
        /\ \A n \in 1..Len(rows) :
             payments'[Len(payments) + n] = RowOf(l, r.day, rows[n])
    BY <1>4, <1>5, <2>1, PaymentsAdded
  <2>3. Len(payments) \in Nat /\ DOMAIN payments = 1..Len(payments)
    BY <1>4, PaymentsNumbered
  <2>4. \A x : RowOf(l, r.day, x).principal = x.principal
    BY DEF RowOf
  <2>5. \A n \in 1..Len(rows) : rows[n].principal >= 0
    BY <1>6, <2>2
  <2>6. \A k \in DOMAIN payments' :
          k \in 1..Len(payments) \/ k - Len(payments) \in 1..Len(rows)
    BY <2>2, <2>3
  <2>7. ASSUME NEW k \in DOMAIN payments' PROVE payments'[k].principal >= 0
    <3>1. CASE k \in 1..Len(payments)
      BY <1>4, <2>2, <2>3, <3>1 DEF BooksOK
    <3>2. CASE k - Len(payments) \in 1..Len(rows)
      <4>1. PICK n \in 1..Len(rows) : k = Len(payments) + n
        BY <2>2, <2>3, <3>2
      <4> QED
        BY <2>2, <2>4, <2>5, <4>1
    <3> QED
      BY <2>6, <3>1, <3>2
  <2> QED
    BY <2>7
<1>15. BooksOK'
  BY <1>2, <1>4, <1>13, <1>14, OthersKeep
<1>16. \A v \in Workers : ReadsOK(v)'
  BY EndsHeld DEF CommitPayment, Known
<1> QED
  BY <1>15, <1>16 DEF RepaymentInv

\* A loan is created, or its status patched: one that has money owes as much.
LEMMA OwedStays ==
  ASSUME TablesOK, BooksOK, NEW l \in Loans,
         CreateLoan(l) \/ \E s \in LoanStatus : UpdateLoanStatus(l, s),
         NEW m \in Loans, Funded(m)
  PROVE  loan'[m].status # "NONE" /\ loan'[m].outstanding = loan[m].outstanding
<1>1. /\ loan \in [Loans -> [status : Statuses, outstanding : Int]]
      /\ "NONE" \notin LoanStatus /\ loan[m].status # "NONE"
  BY DEF TablesOK, LoanStatus, BooksOK
<1>2. CASE CreateLoan(l)
  BY <1>1, <1>2 DEF CreateLoan
<1>3. CASE \E s \in LoanStatus : UpdateLoanStatus(l, s)
  BY <1>1, <1>3 DEF UpdateLoanStatus
<1> QED
  BY <1>2, <1>3

\* Handlers hold loans that have money.
LEMMA LoanChangesKeepBooks ==
  ASSUME NEW w, Workers = {w}, Known, RepaymentInv, NEW l \in Loans,
         CreateLoan(l) \/ \E s \in LoanStatus : UpdateLoanStatus(l, s)
  PROVE  RepaymentInv'
<1>1. /\ UNCHANGED <<sched, payments, balance, disbTxns, reversals, pc, req>>
      /\ BooksOK /\ ReadsOK(w) /\ HandlerOK(w) /\ LocalsOK(w)
  BY DEF CreateLoan, UpdateLoanStatus, RepaymentInv, Known, SerialInv, MoneyInv,
         handler
<1>3. \A m \in Loans : Funded(m) =>
        loan'[m].status # "NONE" /\ loan'[m].outstanding = loan[m].outstanding
  BY <1>1, OwedStays DEF Known, MoneyInv
<1>4. BooksOK'
  BY <1>1, <1>3 DEF BooksOK, Funded, InstallmentNotOverpaid, PaidMeansCovered,
                    OwesWhatIsLacking, PaidOn, PrincipalPaid, Completed, Made
<1>5. ReadsOK(w)'
  <2>1. pc[w] \in Paying \cup {"refund"} =>
          /\ req[w].loan \in Loans /\ Funded(req[w].loan)
          /\ loan'[req[w].loan].outstanding = loan[req[w].loan].outstanding
    BY <1>1, <1>3 DEF HandlerOK, LocalsOK, RefundRequests
  <2>2. /\ \A m, p : PlanKept(m, p)' <=> PlanKept(m, p)
        /\ \A a, x : Affordable(a, x)' <=> Affordable(a, x)
    BY <1>1 DEF PlanKept, PaidOn, Completed, Affordable
  <2> QED
    BY <1>1, <2>1, <2>2 DEF ReadsOK, Holds
<1> QED
  BY <1>4, <1>5 DEF RepaymentInv

\* There are no payments and no requests.
LEMMA RepaymentStarts == Init => RepaymentInv
<1> SUFFICES ASSUME Init PROVE RepaymentInv
  OBVIOUS
<1>1. TablesOK
  BY MoneyStarts DEF MoneyInv
<1>2. payments = <<>> /\ DOMAIN payments = {}
      /\ \A l \in Loans : /\ ~Funded(l)
                          /\ \A i \in Installments(l) : sched[l][i] = "NONE"
  BY DEF Init, DatabaseInit, Funded
<1>3. \A l : Completed(l) = {}
  BY <1>2 DEF Completed
<1>4. \A l \in Loans : NothingPaid(l)
  BY <1>1, <1>3, NoneStands DEF NothingForNothing
<1>5. BooksOK
  <2>1. \A l \in Loans : \A i \in Installments(l) : Principal[l][i] \in Nat
    BY InstallmentsNumbered
  <2>2. \A l \in Loans : \A i \in Installments(l) : PaidOn(l, i) = 0
    BY <1>4 DEF NothingPaid
  <2> QED
    BY <1>2, <2>1, <2>2 DEF BooksOK, InstallmentNotOverpaid, PaidMeansCovered,
                            OwesWhatIsLacking
<1>6. \A w \in Workers : ReadsOK(w)
  BY DEF Init, DatabaseInit, ReadsOK, Holds, Paying
<1> QED
  BY <1>5, <1>6 DEF RepaymentInv

\* Every step of the system with one handler keeps the invariant.
LEMMA RepaymentStep ==
  ASSUME OneHandler, Known, Known', RepaymentInv, [Next]_vars
  PROVE  RepaymentInv'
<1>1. PICK w : Workers = {w}
  BY DEF OneHandler
<1>2. Inv /\ BooksOK
  BY DEF Known, RepaymentInv
<1>3. CASE UNCHANGED vars \/ \E v \in Workers : Lock(v)
  <2>1. UNCHANGED <<tables, handler>>
    BY <1>3 DEF vars, tables, handler, Lock
  <2>2. BooksOK'
    BY <1>2, <2>1, BooksStay DEF tables, books
  <2>3. ReadsOK(w)'
    <3>1. /\ \A l, p : PlanKept(l, p)' <=> PlanKept(l, p)
          /\ \A a, x : Affordable(a, x)' <=> Affordable(a, x)
          /\ loan' = loan /\ payments' = payments /\ pc' = pc /\ req' = req
      BY <2>1 DEF PlanKept, PaidOn, Completed, Affordable, tables, handler
    <3> QED
      BY <1>1, <3>1 DEF RepaymentInv, ReadsOK, Holds
  <2> QED
    BY <1>1, <2>2, <2>3 DEF RepaymentInv
<1>4. CASE Crash
  <2>1. UNCHANGED books /\ \A v \in Workers : pc'[v] = "idle"
    BY <1>4 DEF Crash, tables, books
  <2> QED
    BY <1>2, <2>1, BooksStay DEF RepaymentInv, ReadsOK, Holds, Paying
<1>5. CASE Arrive(w)
  BY <1>1, <1>2, <1>5, ClaimsKeepBooks, ReadsKeepBooks DEF Arrive, Claims
<1>6. CASE TransactionFails(w)
  BY <1>1, <1>2, <1>6, RollBackKeepsBooks DEF TransactionFails
<1>7. CASE DisburseStep(w) \/ RollbackStep(w) \/ PaymentStep(w)
  <2>1. CASE ClaimDisbursement(w) \/ CheckFunds(w) \/ CompleteDisbursement(w)
             \/ FailDisbursement(w) \/ Compensate(w) \/ ReadActivePayments(w)
    BY <1>1, <1>2, <2>1, ClaimsKeepBooks DEF Claims
  <2>2. CASE CheckRefundable(w)
    BY <1>1, <2>2, ReadsKeepBooks
  <2>3. CASE CommitDisbursement(w) \/ CommitReversal(w)
    BY <1>1, <2>3, FundingKeepsBooks
  <2>4. CASE CommitRefund(w)
    BY <1>1, <2>4, RefundKeepsBooks
  <2>5. CASE ReadLastPayment(w) \/ PlanPayment(w) \/ ShareOut(w) \/ CheckTransfer(w)
    BY <1>1, <2>5, PlanningKeepsBooks
  <2>6. CASE CommitPayment(w)
    BY <1>1, <2>6, PaymentKeepsBooks
  <2> QED
    BY <1>7, <2>1, <2>2, <2>3, <2>4, <2>5, <2>6
       DEF DisburseStep, RollbackStep, PaymentStep
<1>8. CASE \E l \in Loans : CreateLoan(l) \/ \E s \in LoanStatus : UpdateLoanStatus(l, s)
  BY <1>1, <1>8, LoanChangesKeepBooks
<1> QED
  BY <1>1, <1>3, <1>4, <1>5, <1>6, <1>7, <1>8, PatchAssumption
     DEF Next, Step, Approve, LoanStatus

\* With one handler the invariant holds in every state.
LEMMA RepaymentAlways ==
  ASSUME OneHandler
  PROVE  Spec => [](Known /\ RepaymentInv)
<1>1. Known /\ Known' /\ RepaymentInv /\ [Next]_vars => RepaymentInv'
  BY RepaymentStep
<1>2. Inv /\ MoneyInv /\ SerialInv <=> Known
  BY DEF Known
<1> QED
  BY <1>1, <1>2, RepaymentStarts, InvHolds, MoneyTypes, SerialAlways, PTL DEF Spec

\* While requests come one at a time, no installment records more principal than
\* it has, over any sequence of partial payments, late payments, refunds and
\* failures, for any amounts and with any parts of a cent (the balance
\* processPayment computes from previous payments).
THEOREM SerialNotOverpaid ==
  ASSUME OneHandler
  PROVE  Spec => []InstallmentNotOverpaid
<1>1. RepaymentInv => InstallmentNotOverpaid
  BY DEF RepaymentInv, BooksOK
<1> QED
  BY <1>1, RepaymentAlways, PTL

\* While requests come one at a time, an installment shown PAID lacks no more than
\* the cent the comparison of isPrincipalFullyPaid leaves, rounding included.
THEOREM SerialPaidMeansCovered ==
  ASSUME OneHandler
  PROVE  Spec => []PaidMeansCovered
<1>1. RepaymentInv => PaidMeansCovered
  BY DEF RepaymentInv, BooksOK
<1> QED
  BY <1>1, RepaymentAlways, PTL

\* While requests come one at a time, a loan owes no more principal than its
\* payments still lack, but for a cent for each payment ever made of it
\* (loan.update of processPayment and rollbackPayment).
THEOREM SerialOwesWhatIsLacking ==
  ASSUME OneHandler
  PROVE  Spec => []OwesWhatIsLacking
<1>1. RepaymentInv => OwesWhatIsLacking
  BY DEF RepaymentInv, BooksOK
<1> QED
  BY <1>1, RepaymentAlways, PTL

-----------------------------------------------------------------------------
(***************************************************************************)
(* Transfers.                                                              *)
(***************************************************************************)
\* With one handler, what the platform pays is in whole cents, and what a
\* borrower pays is on the account.
LEMMA TransfersCovered ==
  ASSUME OneHandler, Known, RepaymentInv, [Next]_vars
  PROVE  \/ balance' = balance
         \/ \E l \in Loans, x \in Int : /\ balance' = Transferred(Owner[l], Platform, x)
                                        /\ Affordable(Owner[l], x)
         \/ \E l \in Loans, n \in Nat :
              balance' = Transferred(Platform, Owner[l], Exact(n))
<1>1. ASSUME NEW w \in Workers, CommitDisbursement(w)
      PROVE  \E l \in Loans, n \in Nat :
               balance' = Transferred(Platform, Owner[l], Exact(n))
  <2>1. PICK l \in Loans : l = req[w].loan
    BY <1>1 DEF CommitDisbursement, Known, Inv, DisbursementTypeOK, Disbursing
  <2>2. Amount[l] \in Nat
    BY DatabaseAssumption
  <2> QED
    BY <1>1, <2>1, <2>2 DEF CommitDisbursement
<1>2. ASSUME NEW w \in Workers, CommitReversal(w)
      PROVE  \E l \in Loans, x \in Int :
               /\ balance' = Transferred(Owner[l], Platform, x)
               /\ Affordable(Owner[l], x)
  <2>1. PICK l \in Loans : l = req[w].loan
    BY <1>2 DEF CommitReversal, Known, Inv, DisbursementTypeOK, Undoing
  <2>2. PICK x \in Int : x = Exact(Amount[l])
    BY AmountInt
  <2>3. Affordable(Owner[l], x)
    BY <1>2, <2>1, <2>2 DEF CommitReversal, RepaymentInv, ReadsOK, Holds
  <2> QED
    BY <1>2, <2>1, <2>2, <2>3 DEF CommitReversal
<1>3. ASSUME NEW w \in Workers, CommitRefund(w), balance' # balance
      PROVE  \E l \in Loans, n \in Nat :
               balance' = Transferred(Platform, Owner[l], Exact(n))
  <2>1. PICK l \in Loans : req[w] \in RefundRequests(l)
    BY <1>3 DEF CommitRefund, Known, MoneyInv, LocalsOK
  <2>2. PICK n \in Nat : n = req[w].principal /\ req[w].loan = l
    BY <1>3, <2>1 DEF RefundRequests, CommitRefund
  <2> QED
    BY <1>3, <2>1, <2>2 DEF CommitRefund
<1>4. ASSUME NEW w \in Workers, CommitPayment(w)
      PROVE  \E l \in Loans, x \in Int :
               /\ balance' = Transferred(Owner[l], Platform, x)
               /\ Affordable(Owner[l], x)
  <2>1. pc[w] \in Paying /\ pc[w] = "pay"
    BY <1>4 DEF CommitPayment, Paying
  <2>2. PICK l \in Loans : req[w] \in PayRequests(l)
    BY <2>1 DEF Known, MoneyInv, LocalsOK
  <2>3. PICK x \in Int : x = req[w].plan.amount /\ req[w].loan = l
    BY <2>2 DEF PayRequests, Plans
  <2>4. Affordable(Owner[l], x)
    BY <2>1, <2>3 DEF RepaymentInv, ReadsOK, Holds
  <2> QED
    BY <1>4, <2>3, <2>4 DEF CommitPayment
<1> QED
  BY <1>1, <1>2, <1>3, <1>4, CommitsMoveMoney DEF ledger

\* While requests come one at a time, no step makes money disappear, or adds more
\* than a cent, for any amounts with parts of a cent: the two updates of a transfer
\* are rounded one by one (balance is DECIMAL(15,2)).
THEOREM SerialRounding ==
  ASSUME OneHandler
  PROVE  Spec => RoundedInFavour
<1>1. ASSUME Known, RepaymentInv, [Next]_vars
      PROVE  Held' \in Held..(Held + 1)
  <2>0. balance \in [Accounts -> Int] /\ Platform \in Accounts
        /\ \A l \in Loans : Owner[l] \in Accounts /\ Owner[l] # Platform
    BY <1>1, DatabaseAssumption DEF Known, MoneyInv, TablesOK, Accounts
  <2>1. CASE balance' = balance
    <3>1. Held' = Held
      BY <2>1 DEF Held
    <3>2. Held \in Int
      <4>1. IsFiniteSet(Accounts)
        BY DatabaseAssumption, FS_AddElement DEF Accounts
      <4> QED
        BY <2>0, <4>1, SumType DEF Held, SumFunction
    <3> QED
      BY <3>1, <3>2
  <2>2. CASE balance' # balance
    <3>1. PICK from \in Accounts, to \in Accounts, x \in Int :
            /\ from # to /\ balance' = Transferred(from, to, x)
            /\ Affordable(from, x) \/ \E n \in Nat : x = Exact(n)
      <4>1. \A n \in Nat : Exact(n) \in Int
        BY ExactInt
      <4> QED
        BY <1>1, <2>0, <2>2, <4>1, TransfersCovered
    <3>2. /\ balance[from] \in Int /\ balance[to] \in Int
      BY <2>0
    <3> DEFINE a == Stored(Exact(balance[from]) - x)
               b == Stored(Exact(balance[to]) + x)
    <3>3. /\ Held \in Int
          /\ Held' = Held - balance[from] - balance[to] + a + b
      BY <2>0, <3>1, TransferSum
    <3>4. /\ a \in Int /\ b \in Int
          /\ a + b \in (balance[from] + balance[to])
                        ..(balance[from] + balance[to] + 1)
      <4>1. CASE Affordable(from, x)
        BY <3>2, <4>1, TwoRounded DEF Affordable
      <4>2. CASE \E n \in Nat : x = Exact(n)
        <5>1. PICK n \in Nat : x = Exact(n)
          BY <4>2
        <5>2. /\ Exact(balance[from]) - x = Exact(balance[from] - n)
              /\ Exact(balance[to]) + x = Exact(balance[to] + n)
          <6>1. \A u \in Int, v \in Nat : /\ u * Scale - v * Scale = (u - v) * Scale
                                          /\ u * Scale + v * Scale = (u + v) * Scale
            BY DatabaseAssumption
          <6> QED
            BY <3>2, <5>1, <6>1 DEF Exact
        <5>3. a = balance[from] - n /\ b = balance[to] + n
          BY <3>2, <5>2, StoredExact
        <5> QED
          BY <3>2, <5>3
      <4> QED
        BY <3>1, <4>1, <4>2
    <3> HIDE DEF a, b
    <3> QED
      BY <3>2, <3>3, <3>4
  <2> QED
    BY <2>1, <2>2
<1> QED
  BY <1>1, RepaymentAlways, PTL DEF Spec, RoundedInFavour
=============================================================================
