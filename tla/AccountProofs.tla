---------------------------- MODULE AccountProofs ----------------------------
(***************************************************************************)
(* The account of a loan that is paid installment by installment: one      *)
(* handler, and payments that name no amount, so that each pays what is    *)
(* due.  A payment then covers every installment it is for, but for the    *)
(* error of doubles, and what is paid and what is owed add up.             *)
(***************************************************************************)
EXTENDS RepaymentProofs

NoAmounts == PayAmounts \subseteq {0}

\* What installments have in principal, and those that are paid.
Due(l, S) == SumFunctionOnSet(Principal[l], S)
PaidOff(l) == {i \in Installments(l) : sched[l][i] = "PAID"}

\* The installments the rows of a plan are for.
PaidBy(p) == {p.rows[n].inst : n \in DOMAIN p.rows}

(***************************************************************************)
(* A plan pays the principal of its installments, but for an error: of     *)
(* those it has rows for already, and of those still to come.  The error   *)
(* shows when the last principal is given away.                            *)
(***************************************************************************)
Close(x, y) == x \in Int /\ 4 * (x - y) < Scale /\ 4 * (y - x) < Scale

WholePlan(l, p) ==
  /\ p.alloc.interest >= 0
  /\ Close(p.alloc.principal, Exact(Due(l, PaidBy(p))) + Exact(Due(l, p.due)))
  /\ \/ p.spread.principal = Exact(Due(l, PaidBy(p)))
     \/ p.spread.principal = p.alloc.principal /\ Due(l, p.due) = 0
  /\ Recorded(p.rows) = Due(l, PaidBy(p))
  /\ \A i \in p.due \cup PaidBy(p) : sched[l][i] = "PENDING"
  /\ \A n \in DOMAIN p.rows :
       /\ p.rows[n].covered
       /\ p.rows[n].principal = Principal[l][p.rows[n].inst]

WholeRead(label, r) ==
  /\ label \in Paying => r.amount = 0
  /\ label \in {"share", "pay"} => WholePlan(r.loan, r.plan)
  /\ label = "pay" => r.plan.due = {}

\* Each payment that stands paid one installment, and no other paid it.
WholeBook(l) ==
  /\ PrincipalPaid(l) = Due(l, PaidOff(l))
  /\ Funded(l) => loan[l].outstanding = Amount[l] - PrincipalPaid(l)
  /\ \A i \in Installments(l) : sched[l][i] # "PARTIALLY_PAID"
  /\ \A k \in Completed(l) :
       /\ payments[k].inst \in PaidOff(l)
       /\ payments[k].principal = Principal[l][payments[k].inst]
  /\ \A j, k \in Completed(l) : payments[j].inst = payments[k].inst => j = k

WholeInv ==
  /\ \A l \in Loans : WholeBook(l)
  /\ \A w \in Workers : WholeRead(pc[w], req[w])

\* What was proved before of one handler.
Serial == Known /\ RepaymentInv

-----------------------------------------------------------------------------
(***************************************************************************)
(* The arithmetic of payments of all that is due.                          *)
(***************************************************************************)
\* Whole cents add up.
LEMMA ExactSum ==
  ASSUME NEW m \in Int, NEW n \in Int
  PROVE  Exact(m + n) = Exact(m) + Exact(n) /\ Exact(m - n) = Exact(m) - Exact(n)
<1>1. PICK s \in Int : s = Scale
  BY DatabaseAssumption
<1>2. (m + n) * s = m * s + n * s /\ (m - n) * s = m * s - n * s
  OBVIOUS
<1> QED
  BY <1>1, <1>2 DEF Exact

\* Sums of principal.
LEMMA DueSums ==
  ASSUME NEW l \in Loans, NEW S \in SUBSET Installments(l)
  PROVE  /\ IsFiniteSet(S) /\ Due(l, S) \in Nat /\ Due(l, {}) = 0
         /\ \A i \in S : /\ Principal[l][i] \in Nat /\ Due(l, S \ {i}) \in Nat
                         /\ Due(l, S) = Principal[l][i] + Due(l, S \ {i})
         /\ \A i \in S : Principal[l][i] <= Due(l, S)
<1>1. IsFiniteSet(S) /\ \A i \in S : Principal[l][i] \in Nat
  BY InstallmentsNumbered, FS_Subset
<1>2. Due(l, {}) = 0
  BY SumOfNone DEF Due
<1>3. ASSUME NEW T \in SUBSET S PROVE Due(l, T) \in Nat
  <2>1. IsFiniteSet(T) /\ \A i \in T : Principal[l][i] \in Int /\ Principal[l][i] >= 0
    BY <1>1, FS_Subset
  <2> QED
    BY <2>1, SumType DEF Due
<1>4. ASSUME NEW i \in S
      PROVE  Due(l, S) = Principal[l][i] + Due(l, S \ {i})
  <2>1. \A j \in S : Principal[l][j] \in Int
    BY <1>1
  <2> QED
    BY <1>1, <2>1, SumWithout DEF Due
<1>5. \A i \in S : Due(l, S \ {i}) \in Nat
  BY <1>3
<1>6. ASSUME NEW i \in S PROVE Principal[l][i] <= Due(l, S)
  <2>1. PICK n, m \in Nat : n = Principal[l][i] /\ m = Due(l, S \ {i})
    BY <1>1, <1>5
  <2>2. Due(l, S) = n + m
    BY <1>4, <2>1
  <2> QED
    BY <2>1, <2>2
<1> QED
  BY <1>1, <1>2, <1>3, <1>4, <1>5, <1>6

\* One of them taken out.
LEMMA DueWithout ==
  ASSUME NEW l \in Loans, NEW S \in SUBSET Installments(l), NEW i \in S,
         NEW T, T = S \ {i}
  PROVE  /\ Principal[l][i] \in Nat /\ Due(l, T) \in Nat
         /\ Due(l, S) = Principal[l][i] + Due(l, T)
         /\ Exact(Due(l, S)) = Exact(Principal[l][i]) + Exact(Due(l, T))
<1>1. /\ Principal[l][i] \in Nat /\ Due(l, T) \in Nat
      /\ Due(l, S) = Principal[l][i] + Due(l, T)
  BY DueSums
<1>2. PICK m, n \in Int : m = Principal[l][i] /\ n = Due(l, T)
  BY <1>1
<1>3. Exact(m + n) = Exact(m) + Exact(n)
  BY <1>2, ExactSum
<1> QED
  BY <1>1, <1>2, <1>3

\* Sums over separate installments.
LEMMA DueOfBoth ==
  ASSUME NEW l \in Loans, NEW S \in SUBSET Installments(l),
         NEW T \in SUBSET Installments(l), S \cap T = {}
  PROVE  Due(l, S \cup T) = Due(l, S) + Due(l, T)
<1>1. IsFiniteSet(S) /\ IsFiniteSet(T)
  BY DueSums
<1>2. \A i \in S \cup T : Principal[l][i] \in Int
  BY InstallmentsNumbered
<1> QED
  BY <1>1, <1>2, SumOfBoth DEF Due

\* What is close to whole cents is stored as them.
LEMMA StoredClose ==
  ASSUME NEW n \in Int, NEW x, Close(x, Exact(n))
  PROVE  Stored(x) = n
<1> DEFINE r == Stored(x)
           d == 2 * Scale
<1>1. PICK y : y = Exact(n)
  OBVIOUS
<1>2. /\ x \in Int /\ y \in Int /\ 4 * (x - y) < Scale /\ 4 * (y - x) < Scale
      /\ 2 * y = d * n /\ Scale \in Nat \ {0}
      /\ d \in Nat \ {0} /\ d = Scale + Scale /\ d * n \in Int
  BY <1>1, DatabaseAssumption DEF Exact, Close
<1>3. r \in Int /\ 2 * x - Scale <= d * r /\ d * r <= 2 * x + Scale
  BY <1>2, StoredNear
<1> HIDE DEF r, d
<1>4. /\ d * (n + 1) = d * n + d /\ d * (n - 1) = d * n - d
      /\ d * r \in Int
  BY <1>2, <1>3
<1>5. d * r < d * (n + 1) /\ d * (n - 1) < d * r
  BY <1>2, <1>3, <1>4
<1>6. r < n + 1 /\ n - 1 < r
  BY <1>2, <1>3, <1>5, Multiples
<1> QED
  BY <1>3, <1>6 DEF r

\* Principal is a multiple of a cent, and an error less than one.
LEMMA CentsOrMore ==
  ASSUME NEW n, n \in Nat
  PROVE  Exact(n) \in Nat /\ Exact(0) = 0 /\ (n # 0 => Exact(n) >= Scale)
<1>1. n # 0 => n - 1 \in Nat
  OBVIOUS
<1>2. /\ \A m, s \in Nat : m * s \in Nat /\ 0 * s = 0 /\ (m + 1) * s = m * s + s
      /\ Scale \in Nat
  BY DatabaseAssumption
<1>3. Exact(n) \in Nat /\ Exact(0) = 0
  BY <1>2 DEF Exact
<1>4. ASSUME n # 0 PROVE Exact(n) >= Scale
  <2>1. PICK m, s, x : m = n - 1 /\ s = Scale /\ x = m * s
    OBVIOUS
  <2>2. m \in Nat /\ s \in Nat /\ x \in Nat /\ n = m + 1
    BY <1>1, <1>2, <1>4, <2>1
  <2>3. Exact(n) = x + s
    BY <1>2, <2>1, <2>2 DEF Exact
  <2> QED
    BY <2>1, <2>2, <2>3
<1> QED
  BY <1>3, <1>4

\* What a turn takes of a plan that has "given" for the rows it has, "own" for this
\* installment and "left" for those to come.
TakesWhole(alloc, spread, given, own, left, share) ==
  /\ Close(share.principal, Exact(own))
  /\ \/ spread.principal + share.principal = given + Exact(own)
     \/ spread.principal + share.principal = alloc.principal /\ left = 0
  /\ own = 0 => share.principal = 0

LEMMA TurnPrincipal ==
  ASSUME NEW alloc, alloc \in Shares, NEW spread, spread \in Shares,
         NEW given, given \in Int, NEW own, own \in Nat, NEW left, left \in Nat,
         Close(alloc.principal, given + Exact(own + left)),
         \/ spread.principal = given
         \/ spread.principal = alloc.principal /\ own + left = 0,
         NEW share,
         share.principal = PrincipalShare(alloc, spread, Exact(own), Exact(0))
  PROVE  TakesWhole(alloc, spread, given, own, left, share)
<1>1. PICK a, b, e, f, s : /\ a = alloc.principal /\ b = spread.principal
                           /\ e = Exact(own) /\ f = Exact(left) /\ s = Scale
  OBVIOUS
<1>2. /\ a \in Int /\ b \in Int /\ e \in Nat /\ f \in Nat /\ s \in Nat \ {0}
      /\ Exact(0) = 0 /\ (own # 0 => e >= s) /\ (left # 0 => f >= s)
      /\ (own = 0 => e = 0) /\ (left = 0 => f = 0)
  BY <1>1, CentsOrMore, DatabaseAssumption DEF Shares
<1>3. Exact(own + left) = e + f
  BY <1>1, ExactSum
<1>4. 4 * (a - (given + (e + f))) < s /\ 4 * ((given + (e + f)) - a) < s
  BY <1>1, <1>3 DEF Close
<1>5. share.principal = IF b < a THEN Lesser(e, a - b) ELSE 0
  BY <1>1, <1>2 DEF PrincipalShare
<1>6. share.principal = IF b < a THEN (IF e <= a - b THEN e ELSE a - b) ELSE 0
  BY <1>5 DEF Lesser
<1>7. PICK x : x = share.principal
  OBVIOUS
<1>8. CASE b = given
  <2>1. own = 0 => x = 0
    BY <1>2, <1>6, <1>7
  <2>2. own # 0 => b < a
    BY <1>2, <1>4, <1>8
  <2>3. CASE own = 0
    BY <1>1, <1>2, <1>7, <1>8, <2>1, <2>3 DEF TakesWhole, Close
  <2>4. CASE own # 0 /\ e <= a - b
    <3>1. x = e
      BY <1>6, <1>7, <2>2, <2>4
    <3> QED
      BY <1>1, <1>2, <1>7, <1>8, <2>4, <3>1 DEF TakesWhole, Close
  <2>5. CASE own # 0 /\ ~(e <= a - b)
    <3>1. x = a - b
      BY <1>6, <1>7, <2>2, <2>5
    <3>2. left = 0 /\ f = 0
      BY <1>2, <1>4, <1>8, <2>5
    <3>3. 4 * (x - e) < s /\ 4 * (e - x) < s /\ x \in Int /\ b + x = a
      BY <1>2, <1>4, <1>8, <3>1, <3>2
    <3> QED
      BY <1>1, <1>7, <2>5, <3>2, <3>3 DEF TakesWhole, Close
  <2> QED
    BY <2>3, <2>4, <2>5
<1>9. CASE b = a /\ own + left = 0
  <2>1. own = 0 /\ left = 0 /\ e = 0
    BY <1>2, <1>9
  <2>2. x = 0
    BY <1>2, <1>6, <1>7, <1>9
  <2> QED
    BY <1>1, <1>2, <1>7, <1>9, <2>1, <2>2 DEF TakesWhole, Close
<1>10. b = given \/ (b = a /\ own + left = 0)
  BY <1>1
<1> QED
  BY <1>8, <1>9, <1>10

\* An installment nothing was paid on takes its whole principal, when the payment
\* has it to spend.  Only one without principal gets no row.
FullTurn(alloc, spread, given, own, left, due, last, fee, share) ==
  /\ alloc \in Shares /\ spread \in Shares /\ alloc.interest >= 0
  /\ given \in Int /\ own \in Nat /\ left \in Nat /\ due \in Nat /\ fee \in Int
  /\ Close(alloc.principal, given + Exact(own + left))
  /\ \/ spread.principal = given
     \/ spread.principal = alloc.principal /\ own + left = 0
  /\ share = Share(alloc, spread, Exact(own), due, last, fee, Exact(0))

LEMMA FullShare ==
  ASSUME NEW alloc, NEW spread, NEW given, NEW own, NEW left, NEW due, NEW last,
         NEW fee, NEW share,
         FullTurn(alloc, spread, given, own, left, due, last, fee, share)
  PROVE  /\ TakesWhole(alloc, spread, given, own, left, share)
         /\ Plus(spread, share).principal = spread.principal + share.principal
         /\ Stored(share.principal) = own
         /\ Covered(Exact(own), share)
         /\ Total(share) <= 0 => own = 0
<1>0. /\ alloc \in Shares /\ spread \in Shares /\ alloc.interest >= 0
      /\ given \in Int /\ own \in Nat /\ left \in Nat /\ due \in Nat /\ fee \in Int
      /\ Close(alloc.principal, given + Exact(own + left))
      /\ \/ spread.principal = given
         \/ spread.principal = alloc.principal /\ own + left = 0
      /\ share = Share(alloc, spread, Exact(own), due, last, fee, Exact(0))
  BY DEF FullTurn
<1> USE <1>0
<1>1. PICK e : e = Exact(own)
  OBVIOUS
<1>2. e \in Nat /\ Exact(0) = 0 /\ (own # 0 => e >= Scale) /\ Scale \in Nat \ {0}
  BY <1>1, CentsOrMore, DatabaseAssumption
<1>3. /\ alloc.interest \in Int /\ spread.interest \in Int
      /\ alloc.fees \in Int /\ spread.fees \in Int
  BY DEF Shares
<1>4. TakesWhole(alloc, spread, given, own, left, share)
  <2>1. share.principal = PrincipalShare(alloc, spread, Exact(own), Exact(0))
    BY DEF Share
  <2> QED
    BY <2>1, TurnPrincipal
<1>5. Plus(spread, share).principal = spread.principal + share.principal
  BY DEF Plus
<1>6. Stored(share.principal) = own
  BY <1>4, StoredClose DEF TakesWhole
<1>7. /\ share.principal \in Int
      /\ 4 * (share.principal - e) < Scale /\ 4 * (e - share.principal) < Scale
  BY <1>1, <1>4 DEF TakesWhole, Close
<1>11. Covered(e, share)
  BY <1>2, <1>7 DEF Covered
<1>8. share.interest \in Int /\ share.interest >= 0
  <2>1. share.interest = InterestShare(alloc, spread, e, due, last)
    BY <1>1 DEF Share
  <2>2. PICK q : q = (alloc.interest * e) \div due
    OBVIOUS
  <2>3. due # 0 => q \in Int /\ q >= 0
    <3>1. alloc.interest * e \in Nat
      BY <1>2, <1>3, Products
    <3> QED
      BY <2>2, <3>1, Quotients
  <2> QED
    BY <1>3, <2>1, <2>2, <2>3 DEF InterestShare, Lesser
<1>9. share.fees \in Int /\ share.fees >= 0
  BY <1>3 DEF Share, FeeShare, Lesser
<1>10. Total(share) <= 0 => own = 0
  BY <1>2, <1>7, <1>8, <1>9 DEF Total
<1> QED
  BY <1>1, <1>4, <1>5, <1>6, <1>10, <1>11

\* Plan q is plan p after a turn of the loop for installment i.
Turn(l, p, q, i, due, last, fee, share, row) ==
  /\ p \in Plans(l) /\ i \in p.due /\ due \in Nat /\ fee \in Int
  /\ row \in PlanRows(l)
  /\ share = Share(p.alloc, p.spread, Exact(Principal[l][i]), due, last, fee,
                   Exact(PaidOn(l, i)))
  /\ row.inst = i /\ row.principal = Stored(share.principal)
  /\ row.covered = Covered(Exact(Principal[l][i]), share)
  /\ q.due = p.due \ {i} /\ q.spread = Plus(p.spread, share) /\ q.alloc = p.alloc
  /\ \/ q.rows = Append(p.rows, row) /\ row.total = Stored(Total(share))
     \/ q.rows = p.rows /\ Total(share) <= 0

\* What one turn of the loop takes: the whole principal of its installment.
LEMMA TurnTakes ==
  ASSUME NEW l \in Loans, TablesOK, WholeBook(l), NEW p, PlanKept(l, p),
         WholePlan(l, p), NEW q, NEW i, NEW due, NEW last, NEW fee, NEW share,
         NEW row, Turn(l, p, q, i, due, last, fee, share, row)
  PROVE  /\ PaidOn(l, i) = 0
         /\ Principal[l][i] \in Nat /\ Due(l, q.due) \in Nat
         /\ Due(l, p.due) = Principal[l][i] + Due(l, q.due)
         /\ TakesWhole(p.alloc, p.spread, Exact(Due(l, PaidBy(p))),
                       Principal[l][i], Due(l, q.due), share)
         /\ q.spread.principal = p.spread.principal + share.principal
         /\ Stored(share.principal) = Principal[l][i]
         /\ Covered(Exact(Principal[l][i]), share)
         /\ Total(share) <= 0 => Principal[l][i] = 0
<1>0. PICK rest, spread, list :
        /\ p \in Plans(l) /\ i \in p.due /\ due \in Nat /\ fee \in Int
        /\ share = Share(p.alloc, p.spread, Exact(Principal[l][i]), due, last, fee,
                         Exact(PaidOn(l, i)))
        /\ row \in PlanRows(l) /\ row.inst = i
        /\ row.principal = Stored(share.principal)
        /\ row.covered = Covered(Exact(Principal[l][i]), share)
        /\ list = Append(p.rows, row) \/ (list = p.rows /\ Total(share) <= 0)
        /\ rest = p.due \ {i} /\ spread = Plus(p.spread, share)
        /\ q.due = rest /\ q.spread = spread /\ q.rows = list /\ q.alloc = p.alloc
  BY DEF Turn
<1> USE <1>0

<1>1. /\ p.alloc \in Shares /\ p.spread \in Shares
      /\ p.due \in SUBSET Installments(l) /\ p.rows \in Seq(PlanRows(l))
      /\ i \in Installments(l) /\ rest \in SUBSET Installments(l)
      /\ p.alloc.interest >= 0
  BY DEF Plans, WholePlan
<1>2. PaidOn(l, i) = 0
  <2>1. sched[l][i] = "PENDING"
    BY DEF WholePlan
  <2>2. CreditsOn(l, i) = {}
    BY <2>1 DEF CreditsOn, WholeBook, PaidOff
  <2>3. PaidOn(l, i) = Credits(payments, CreditsOn(l, i))
    BY AsCredits DEF Summed
  <2> QED
    BY <2>2, <2>3, NoCredits
<1>3. /\ Principal[l][i] \in Nat /\ Due(l, rest) \in Nat
      /\ Due(l, p.due) = Principal[l][i] + Due(l, rest)
  <2>1. PICK S, T : S = p.due /\ T = rest
    OBVIOUS
  <2>2. S \in SUBSET Installments(l) /\ i \in S /\ T = S \ {i}
    BY <1>1, <2>1
  <2>3. /\ Principal[l][i] \in Nat /\ Due(l, T) \in Nat
        /\ Due(l, S) = Principal[l][i] + Due(l, T)
    BY ONLY l \in Loans, <2>2, DueWithout
  <2> QED
    BY <2>1, <2>3
<1>4. PaidBy(p) \in SUBSET Installments(l)
  <2>1. \A n \in DOMAIN p.rows : p.rows[n] \in PlanRows(l)
    BY <1>1, ElementOfSeq, LenProperties
  <2> QED
    BY <2>1 DEF PaidBy, PlanRows
<1>5. PICK own, left, given, alloc, before :
        /\ own = Principal[l][i] /\ left = Due(l, rest)
        /\ given = Exact(Due(l, PaidBy(p)))
        /\ alloc = p.alloc /\ before = p.spread
  OBVIOUS
<1>6. /\ own \in Nat /\ left \in Nat /\ given \in Int
      /\ alloc \in Shares /\ before \in Shares /\ alloc.interest >= 0
      /\ share = Share(alloc, before, Exact(own), due, last, fee, Exact(0))
      /\ spread = Plus(before, share)
  <2>1. Due(l, PaidBy(p)) \in Int
    BY <1>4, DueSums
  <2>2. given \in Int
    BY <1>5, <2>1, ExactInt
  <2> QED
    BY <1>1, <1>2, <1>3, <1>5, <2>2
<1>7. Due(l, p.due) = own + left
  BY <1>3, <1>5
<1>8. /\ Close(alloc.principal, given + Exact(own + left))
      /\ \/ before.principal = given
         \/ before.principal = alloc.principal /\ own + left = 0
  BY <1>5, <1>7 DEF WholePlan
<1>9. /\ TakesWhole(alloc, before, given, own, left, share)
      /\ Plus(before, share).principal = before.principal + share.principal
      /\ Stored(share.principal) = own
      /\ Covered(Exact(own), share)
      /\ Total(share) <= 0 => own = 0
  <2>1. due \in Nat /\ fee \in Int
    OBVIOUS
  <2> QED
    <3>1. FullTurn(alloc, before, given, own, left, due, last, fee, share)
      BY <1>6, <1>8, <2>1 DEF FullTurn
    <3> QED
      BY ONLY <3>1, FullShare
<1> QED
  BY <1>2, <1>3, <1>5, <1>6, <1>9

\* So the plan stays one that pays whole installments.
LEMMA ShareKeepsWhole ==
  ASSUME NEW l \in Loans, TablesOK, WholeBook(l), NEW p, PlanKept(l, p),
         WholePlan(l, p), NEW q, NEW i, NEW due, NEW last, NEW fee, NEW share,
         NEW row, Turn(l, p, q, i, due, last, fee, share, row)
  PROVE  WholePlan(l, q)
<1>0. PICK rest, spread, list :
        /\ p \in Plans(l) /\ i \in p.due /\ due \in Nat /\ fee \in Int
        /\ share = Share(p.alloc, p.spread, Exact(Principal[l][i]), due, last, fee,
                         Exact(PaidOn(l, i)))
        /\ row \in PlanRows(l) /\ row.inst = i
        /\ row.principal = Stored(share.principal)
        /\ row.covered = Covered(Exact(Principal[l][i]), share)
        /\ list = Append(p.rows, row) \/ (list = p.rows /\ Total(share) <= 0)
        /\ rest = p.due \ {i} /\ spread = Plus(p.spread, share)
        /\ q.due = rest /\ q.spread = spread /\ q.rows = list /\ q.alloc = p.alloc
  BY DEF Turn
<1>T. /\ PaidOn(l, i) = 0
      /\ Principal[l][i] \in Nat /\ Due(l, q.due) \in Nat
      /\ Due(l, p.due) = Principal[l][i] + Due(l, q.due)
      /\ TakesWhole(p.alloc, p.spread, Exact(Due(l, PaidBy(p))),
                    Principal[l][i], Due(l, q.due), share)
      /\ q.spread.principal = p.spread.principal + share.principal
      /\ Stored(share.principal) = Principal[l][i]
      /\ Covered(Exact(Principal[l][i]), share)
      /\ Total(share) <= 0 => Principal[l][i] = 0
  BY TurnTakes
<1> USE <1>0

<1>1. /\ p.alloc \in Shares /\ p.spread \in Shares
      /\ p.due \in SUBSET Installments(l) /\ p.rows \in Seq(PlanRows(l))
      /\ i \in Installments(l) /\ rest \in SUBSET Installments(l)
      /\ p.alloc.interest >= 0
  BY DEF Plans, WholePlan
<1>3. PICK own, left, given, a, b, x :
        /\ own = Principal[l][i] /\ left = Due(l, rest)
        /\ given = Due(l, PaidBy(p)) /\ x = share.principal
        /\ a = p.alloc.principal /\ b = spread.principal
  OBVIOUS
<1>4. /\ row.covered /\ row.principal = own /\ own \in Nat /\ left \in Nat
      /\ Due(l, p.due) = own + left
      /\ b = p.spread.principal + x
      /\ Total(share) <= 0 => own = 0
  BY <1>T, <1>3
<1>5. PaidBy(p) \in SUBSET Installments(l) /\ i \notin PaidBy(p)
  <2>1. \A n \in DOMAIN p.rows : p.rows[n] \in PlanRows(l)
    BY <1>1, ElementOfSeq, LenProperties
  <2>2. \A n \in DOMAIN p.rows : p.rows[n].inst \in Installments(l) /\ p.rows[n].inst # i
    BY <2>1 DEF PlanRows, PlanKept
  <2> QED
    BY <1>1, <2>2 DEF PaidBy
<1>6. /\ given \in Nat /\ Due(l, PaidBy(p) \cup {i}) = own + given
  <2>1. PICK S, T : S = PaidBy(p) \cup {i} /\ T = PaidBy(p)
    OBVIOUS
  <2>2. S \in SUBSET Installments(l) /\ i \in S /\ S \ {i} = T
    BY <1>1, <1>5, <2>1
  <2>3. /\ Due(l, T) \in Nat /\ Due(l, S) = Principal[l][i] + Due(l, T)
    BY ONLY l \in Loans, <2>2, DueWithout
  <2> QED
    BY <1>3, <2>1, <2>3
<1>7. /\ Recorded(Append(p.rows, row)) = Recorded(p.rows) + row.principal
      /\ DOMAIN Append(p.rows, row) = DOMAIN p.rows \cup {Len(p.rows) + 1}
      /\ \A n \in DOMAIN p.rows :
           Append(p.rows, row)[n] = p.rows[n] /\ n # Len(p.rows) + 1
      /\ Append(p.rows, row)[Len(p.rows) + 1] = row
  BY <1>1, RecordedMore
<1>8. PICK e, f, g : e = Exact(own) /\ f = Exact(left) /\ g = Exact(given)
  OBVIOUS
<1>9. /\ e \in Int /\ f \in Int /\ g \in Int /\ Recorded(p.rows) \in Int
      /\ Exact(own + left) = e + f /\ Exact(own + given) = e + g
  <2>1. Recorded(p.rows) \in Int
    BY <1>1, RecordedMore
  <2> QED
    BY <1>4, <1>6, <1>8, <2>1, ExactInt, ExactSum
<1>12. /\ Close(a, g + (e + f)) /\ (b = g + e \/ (b = a /\ left = 0))
       /\ a \in Int
  <2>1. Close(a, g + Exact(own + left))
    BY <1>3, <1>4, <1>8 DEF WholePlan
  <2>2. b = g + e \/ (b = a /\ left = 0)
    BY <1>T, <1>3, <1>4, <1>8 DEF TakesWhole
  <2> QED
    BY <1>9, <2>1, <2>2 DEF Close
<1>13. ASSUME Exact(Due(l, PaidBy(q))) = e + g
       PROVE  /\ q.alloc.interest >= 0
              /\ Close(q.alloc.principal, Exact(Due(l, PaidBy(q))) + Exact(Due(l, q.due)))
              /\ \/ q.spread.principal = Exact(Due(l, PaidBy(q)))
                 \/ q.spread.principal = q.alloc.principal /\ Due(l, q.due) = 0
  <2>1. g + (e + f) = (e + g) + f /\ g + e = e + g
    BY <1>9
  <2> QED
    BY <1>1, <1>3, <1>8, <1>12, <1>13, <2>1
<1>10. CASE list = Append(p.rows, row)
  <2>1. PaidBy(q) = PaidBy(p) \cup {i}
    BY <1>7, <1>10 DEF PaidBy
  <2>2. Due(l, PaidBy(q)) = own + given /\ Exact(Due(l, PaidBy(q))) = e + g
    BY <1>6, <1>9, <2>1
  <2>3. Recorded(q.rows) = Due(l, PaidBy(q))
    <3>1. Recorded(p.rows) = given
      BY <1>3 DEF WholePlan
    <3>2. Recorded(q.rows) = given + own
      BY <1>4, <1>7, <1>10, <3>1
    <3> QED
      BY <1>4, <1>6, <2>2, <3>2
  <2>4. \A j \in q.due \cup PaidBy(q) : sched[l][j] = "PENDING"
    BY <2>1 DEF WholePlan
  <2>5. \A n \in DOMAIN q.rows :
          q.rows[n].covered /\ q.rows[n].principal = Principal[l][q.rows[n].inst]
    <3>1. row.covered /\ row.principal = Principal[l][row.inst]
      BY <1>3, <1>4
    <3>2. \A n \in DOMAIN p.rows :
            p.rows[n].covered /\ p.rows[n].principal = Principal[l][p.rows[n].inst]
      BY DEF WholePlan
    <3>3. \A n \in DOMAIN q.rows : \/ n \in DOMAIN p.rows /\ q.rows[n] = p.rows[n]
                                  \/ q.rows[n] = row
      BY <1>7, <1>10
    <3> QED
      BY <3>1, <3>2, <3>3
  <2> QED
    BY <1>13, <2>2, <2>3, <2>4, <2>5 DEF WholePlan
<1>11. CASE list = p.rows /\ Total(share) <= 0
  <2>1. PaidBy(q) = PaidBy(p) /\ own = 0
    BY <1>4, <1>11 DEF PaidBy
  <2>2. Exact(Due(l, PaidBy(q))) = e + g
    <3>1. e = 0
      BY <1>8, <2>1, CentsOrMore
    <3> QED
      BY <1>3, <1>8, <1>9, <2>1, <3>1
  <2>3. \A j \in q.due \cup PaidBy(q) : sched[l][j] = "PENDING"
    BY <2>1 DEF WholePlan
  <2>4. Recorded(q.rows) = Due(l, PaidBy(q))
    BY <1>11, <2>1 DEF WholePlan
  <2>5. \A n \in DOMAIN q.rows :
          q.rows[n].covered /\ q.rows[n].principal = Principal[l][q.rows[n].inst]
    BY <1>11 DEF WholePlan
  <2> QED
    BY <1>13, <2>2, <2>3, <2>4, <2>5 DEF WholePlan
<1> QED
  BY <1>10, <1>11

-----------------------------------------------------------------------------
(***************************************************************************)
(* What processPayment works out before it commits.                        *)
(***************************************************************************)
\* Request q is request r of loan l with a plan for the due installments.
Planned(l, r, q, due, interest, fees, principal) ==
  LET amount == IF r.amount # 0 THEN Exact(r.amount)
                                ELSE principal + interest + fees
  IN
  /\ interest \in Nat /\ fees \in Nat /\ principal \in Nat
  /\ due = DueInstallments(l, r.day)
  /\ interest = r.outstanding * DailyInterest * (r.day - r.last)
  /\ fees = SumFunction([i \in due |-> LateFee(i, r.day)])
  /\ principal = SumFunction([i \in due |-> Exact(Principal[l][i])])
  /\ q.loan = l /\ q.day = r.day /\ q.amount = r.amount
  /\ q.plan.due = due
  /\ \E e \in Error : q.plan.alloc = Allocate(amount, interest, fees, principal, e)
  /\ q.plan.amount = amount
  /\ q.plan.spread = Nothing /\ q.plan.rows = <<>>

\* The plan that is made.
LEMMA PlanEffect ==
  ASSUME NEW w, Workers = {w}, Serial, PlanPayment(w)
  PROVE  \E l \in Loans : \E r, q, due, interest, fees, principal :
           /\ r = req[w] /\ r \in PayRequests(l) /\ pc[w] = "plan"
           /\ pc' = [pc EXCEPT ![w] = "share"] /\ req' = [req EXCEPT ![w] = q]
           /\ UNCHANGED tables
           /\ Planned(l, r, q, due, interest, fees, principal)
<1>0. TablesOK /\ Known /\ RepaymentInv /\ pc[w] = "plan" /\ pc[w] \in Paying
  BY DEF Serial, Known, MoneyInv, PlanPayment, Paying
<1>1. PICK l \in Loans : \E r :
        /\ r = req[w] /\ r \in PayRequests(l) /\ r.loan = l
        /\ Funded(l) /\ Holds(pc[w], r)
        /\ r.day \in Nat /\ r.last \in Nat /\ r.plan \in Plans(l)
        /\ r.amount \in Nat
  BY <1>0, PayerKnows
<1>2. PICK r : r = req[w]
  OBVIOUS
<1>3. /\ r \in PayRequests(l) /\ r.loan = l /\ Holds("plan", r)
      /\ r.outstanding > 0 /\ r.last <= r.day
  BY <1>0, <1>1, <1>2 DEF Holds
<1> DEFINE due == DueInstallments(l, r.day)
           interest  == r.outstanding * DailyInterest * (r.day - r.last)
           fees      == SumFunction([i \in due |-> LateFee(i, r.day)])
           principal == SumFunction([i \in due |-> Exact(Principal[l][i])])
           amount    == IF r.amount # 0 THEN Exact(r.amount)
                                        ELSE principal + interest + fees
           alloc(e) == Allocate(amount, interest, fees, principal, e)
           plan(e) == [NoPlan EXCEPT !.alloc = alloc(e), !.principalDue = principal,
                                     !.amount = amount, !.due = due]
<1>E. PICK e \in Error :
        Begin(w, "share",
              [r EXCEPT !.plan =
                [NoPlan EXCEPT
                  !.alloc = Allocate(amount, interest, fees, principal, e),
                  !.principalDue = principal, !.amount = amount, !.due = due]],
              <<>>)
  BY <1>2, <1>3, ZenonT(60) DEF PlanPayment
<1> DEFINE q == [r EXCEPT !.plan = plan(e)]
<1>4. /\ pc' = [pc EXCEPT ![w] = "share"] /\ req' = [req EXCEPT ![w] = q]
      /\ UNCHANGED tables
  BY <1>E, Zenon DEF Begin, Goto
<1>5. interest \in Nat /\ fees \in Nat /\ principal \in Nat
  <2>1. due = DueInstallments(l, r.day)
    OBVIOUS
  <2> HIDE DEF due
  <2> QED
    BY <1>0, <1>3, <2>1, PlanAmounts
<1>6. Planned(l, r, q, due, interest, fees, principal)
  <2>0. /\ due = DueInstallments(l, r.day)
        /\ interest = r.outstanding * DailyInterest * (r.day - r.last)
        /\ fees = SumFunction([i \in due |-> LateFee(i, r.day)])
        /\ principal = SumFunction([i \in due |-> Exact(Principal[l][i])])
    OBVIOUS
  <2> HIDE DEF due, interest, fees, principal, amount, alloc
  <2>1. /\ plan(e).alloc = alloc(e) /\ plan(e).spread = Nothing /\ plan(e).rows = <<>>
        /\ plan(e).amount = amount /\ plan(e).due = due
    BY DEF NoPlan
  <2> HIDE DEF plan
  <2>2. q.plan = plan(e) /\ q.loan = l /\ q.day = r.day /\ q.amount = r.amount
    BY <1>3 DEF PayRequests
  <2> HIDE DEF q
  <2> QED
    BY <1>5, <2>0, <2>1, <2>2 DEF Planned, alloc, amount
<1> HIDE DEF due, interest, fees, principal, q
<1> QED
  BY <1>0, <1>2, <1>3, <1>4, <1>6

\* Request q is request r of loan l after one turn of the loop, for installment i.
Shared(l, r, q, i, due, last, fee, share, row) ==
  /\ i = Oldest(r.plan.due) /\ fee = LateFee(i, r.day)
  /\ last = (r.plan.due = {i}) /\ due = r.plan.principalDue
  /\ q.loan = l /\ q.day = r.day /\ q.amount = r.amount
  /\ q.plan.amount = r.plan.amount
  /\ Turn(l, r.plan, q.plan, i, due, last, fee, share, row)

\* The turn of the loop that is made.
LEMMA ShareEffect ==
  ASSUME NEW w, Workers = {w}, Serial, ShareOut(w)
  PROVE  \E l \in Loans : \E r, q, i, due, last, fee, share, row :
           /\ r = req[w] /\ r \in PayRequests(l) /\ pc[w] = "share"
           /\ pc' = [pc EXCEPT ![w] = "share"] /\ req' = [req EXCEPT ![w] = q]
           /\ UNCHANGED tables /\ PlanKept(l, r.plan)
           /\ Shared(l, r, q, i, due, last, fee, share, row)
<1>0. TablesOK /\ Known /\ RepaymentInv /\ pc[w] = "share" /\ pc[w] \in Paying
  BY DEF Serial, Known, MoneyInv, ShareOut, Paying
<1>1. PICK l \in Loans : \E r :
        /\ r = req[w] /\ r \in PayRequests(l) /\ r.loan = l
        /\ Funded(l) /\ Holds(pc[w], r)
        /\ r.day \in Nat /\ r.last \in Nat /\ r.plan \in Plans(l)
        /\ r.amount \in Nat
  BY <1>0, PayerKnows
<1>2. PICK r : r = req[w]
  OBVIOUS
<1>3. /\ r \in PayRequests(l) /\ r.loan = l /\ r.day \in Nat /\ r.plan \in Plans(l)
      /\ PlanKept(l, r.plan)
  BY <1>0, <1>1, <1>2 DEF Holds
<1> DEFINE p == r.plan
           i == Oldest(p.due)
           own == Exact(Principal[l][i])
           share == Share(p.alloc, p.spread, own, p.principalDue, p.due = {i},
                          LateFee(i, r.day), Exact(PaidOn(l, i)))
           row == [inst |-> i, principal |-> Stored(share.principal),
                   total |-> Stored(Total(share)), covered |-> Covered(own, share)]
           pays == Total(share) > 0
           rest == p.due \ {i}
           spread == Plus(p.spread, share)
           list == IF pays THEN Append(p.rows, row) ELSE p.rows
           plan == [p EXCEPT !.due = rest, !.spread = spread, !.rows = list]
           q == [r EXCEPT !.plan = plan]
           free == [inst |-> i, principal |-> Stored(share.principal),
                    total |-> 0, covered |-> Covered(own, share)]
<1>4. /\ pc' = [pc EXCEPT ![w] = "share"] /\ req' = [req EXCEPT ![w] = q]
      /\ UNCHANGED tables /\ p.due # {}
  BY <1>2, <1>3, ZenonT(60) DEF ShareOut, Begin, Goto
<1>5. p \in Plans(l) /\ p.due \in SUBSET Installments(l)
      /\ p.alloc \in Shares /\ p.spread \in Shares /\ p.principalDue \in Nat
  BY <1>3 DEF Plans
<1>6. i \in p.due /\ i \in Installments(l)
  <2> HIDE DEF p
  <2> QED
    BY <1>4, <1>5, OldestDue
<1>7. own \in Int /\ LateFee(i, r.day) \in Int /\ Exact(PaidOn(l, i)) \in Int
  <2> HIDE DEF i
  <2> QED
    BY <1>0, <1>3, <1>6, DueInt, ExactInt
<1>8. share.principal \in Int /\ Total(share) \in Int
      /\ Stored(share.principal) \in Int /\ (pays => Stored(Total(share)) \in Nat)
      /\ Covered(own, share) \in BOOLEAN
  <2> HIDE DEF own, i, p
  <2>1. share \in Shares
    BY <1>5, <1>7, SharesInt
  <2> HIDE DEF share
  <2>2. share.principal \in Int /\ Total(share) \in Int
    BY <2>1, SharesInt DEF Shares
  <2>3. Stored(share.principal) \in Int /\ (pays => Stored(Total(share)) \in Nat)
    BY <2>2, StoredInt
  <2> QED
    BY <2>2, <2>3 DEF Covered
<1>9. /\ q.loan = l /\ q.day = r.day /\ q.amount = r.amount
      /\ q.plan.due = rest /\ q.plan.spread = spread /\ q.plan.rows = list
      /\ q.plan.alloc = p.alloc /\ q.plan.amount = p.amount
  <2> HIDE DEF i, own, share, row, rest, spread, list, pays
  <2>1. /\ plan.due = rest /\ plan.spread = spread /\ plan.rows = list
        /\ plan.alloc = p.alloc /\ plan.amount = p.amount
    BY <1>5 DEF Plans
  <2> HIDE DEF plan
  <2>2. q.plan = plan /\ q.loan = l /\ q.day = r.day /\ q.amount = r.amount
    BY <1>3 DEF PayRequests
  <2> QED
    BY <2>1, <2>2
<1>10. CASE pays
  <2>1. row \in PlanRows(l)
    BY <1>6, <1>8, <1>10 DEF PlanRows
  <2>2. list = Append(p.rows, row)
    BY <1>10
  <2>3. PICK due, last, fee : /\ due = p.principalDue /\ last = (p.due = {i})
                              /\ fee = LateFee(i, r.day)
    OBVIOUS
  <2>4. due \in Nat /\ fee \in Int
    BY <1>5, <1>7, <2>3
  <2>5. Shared(l, r, q, i, due, last, fee, share, row)
    <3>1. share = Share(p.alloc, p.spread, own, due, last, fee, Exact(PaidOn(l, i)))
      BY <2>3
    <3>2. /\ row.inst = i /\ row.principal = Stored(share.principal)
          /\ row.covered = Covered(own, share)
          /\ q.plan.rows = Append(p.rows, row) => row.total = Stored(Total(share))
      OBVIOUS
    <3> HIDE DEF q, list, share, row
    <3>3. Turn(l, p, q.plan, i, due, last, fee, share, row)
      BY <1>5, <1>6, <1>9, <2>1, <2>2, <2>3, <2>4, <3>1, <3>2 DEF Turn
    <3> QED
      BY <1>6, <1>9, <2>3, <3>3 DEF Shared
  <2> HIDE DEF q, i, share, row, list
  <2> QED
    BY <1>0, <1>2, <1>3, <1>4, <2>1, <2>4, <2>5
<1>11. CASE ~pays
  <2>1. free \in PlanRows(l)
    BY <1>6, <1>8 DEF PlanRows
  <2>2. list = p.rows /\ Total(share) <= 0
    BY <1>8, <1>11
  <2>3. PICK due, last, fee : /\ due = p.principalDue /\ last = (p.due = {i})
                              /\ fee = LateFee(i, r.day)
    OBVIOUS
  <2>4. due \in Nat /\ fee \in Int
    BY <1>5, <1>7, <2>3
  <2>5. Shared(l, r, q, i, due, last, fee, share, free)
    <3>1. share = Share(p.alloc, p.spread, own, due, last, fee, Exact(PaidOn(l, i)))
      BY <2>3
    <3>2. /\ free.inst = i /\ free.principal = Stored(share.principal)
          /\ free.covered = Covered(own, share)
      OBVIOUS
    <3> HIDE DEF q, list, share, free
    <3>3. Turn(l, p, q.plan, i, due, last, fee, share, free)
      BY <1>5, <1>6, <1>9, <2>1, <2>2, <2>3, <2>4, <3>1, <3>2 DEF Turn
    <3> QED
      BY <1>6, <1>9, <2>3, <3>3 DEF Shared
  <2> HIDE DEF q, i, share, free, list
  <2> QED
    BY <1>0, <1>2, <1>3, <1>4, <2>1, <2>4, <2>5
<1> QED
  BY <1>10, <1>11

-----------------------------------------------------------------------------
(***************************************************************************)
(* Steps that leave the account alone.                                     *)
(***************************************************************************)
\* What the invariant says of the books.
LEMMA WholeStays ==
  ASSUME \A l \in Loans : WholeBook(l), UNCHANGED books
  PROVE  \A l \in Loans : WholeBook(l)'
<1> SUFFICES ASSUME NEW l \in Loans PROVE WholeBook(l)'
  OBVIOUS
<1>1. /\ Completed(l)' = Completed(l) /\ PaidOff(l)' = PaidOff(l)
      /\ PrincipalPaid(l)' = PrincipalPaid(l) /\ Funded(l)' = Funded(l)
      /\ loan' = loan /\ sched' = sched /\ payments' = payments
  BY DEF books, Funded, PaidOff, PrincipalPaid, Completed
<1> QED
  BY <1>1 DEF WholeBook

\* The only handler goes on with what it has read.
LEMMA WholeGoesOn ==
  ASSUME NEW w, Workers = {w}, Inv, WholeInv, UNCHANGED tables,
         NEW label, NEW r, WholeRead(label, r),
         pc' = [pc EXCEPT ![w] = label], req' = [req EXCEPT ![w] = r]
  PROVE  WholeInv'
<1>1. pc'[w] = label /\ req'[w] = r
  BY DEF Inv, DisbursementTypeOK
<1>2. WholeRead(pc[w], req[w])'
  <2>1. \A l, p : WholePlan(l, p)' <=> WholePlan(l, p)
    BY DEF WholePlan, tables
  <2> QED
    BY <1>1, <2>1 DEF WholeRead
<1>3. \A l \in Loans : WholeBook(l)'
  BY WholeStays DEF WholeInv, books, tables
<1> QED
  BY <1>2, <1>3 DEF WholeInv

\* The only handler is where it has no payment to make.
LEMMA WholeElsewhere ==
  ASSUME NEW w, Workers = {w}, Inv, \A l \in Loans : WholeBook(l)',
         NEW label, label \notin Paying, pc' = [pc EXCEPT ![w] = label]
  PROVE  WholeInv'
<1>1. pc'[w] = label
  BY DEF Inv, DisbursementTypeOK
<1> QED
  BY <1>1 DEF WholeInv, WholeRead, Paying

\* A transaction ends, with a commit or without.
LEMMA WholeEnds ==
  ASSUME NEW w, Workers = {w}, Inv, \A l \in Loans : WholeBook(l)',
         AfterTransaction(w)
  PROVE  WholeInv'
<1>1. PICK label : label \in {"idle", "fail"} /\ pc' = [pc EXCEPT ![w] = label]
  BY DEF AfterTransaction, Answer, Goto
<1> QED
  BY <1>1, WholeElsewhere DEF Paying

\* One that rolls back leaves the books as they were.
LEMMA RollBackKeepsWhole ==
  ASSUME NEW w, Workers = {w}, Inv, WholeInv, RollBack(w)
  PROVE  WholeInv'
<1>1. UNCHANGED books /\ AfterTransaction(w)
  BY DEF RollBack, tables, books
<1>2. \A l \in Loans : WholeBook(l)'
  BY <1>1, WholeStays DEF WholeInv
<1> QED
  BY <1>1, <1>2, WholeEnds

\* What all due installments have in principal, in the parts handlers compute with.
LEMMA AllDue ==
  ASSUME NEW l \in Loans, NEW S \in SUBSET Installments(l)
  PROVE  SumFunction([i \in S |-> Exact(Principal[l][i])]) = Exact(Due(l, S))
<1> DEFINE g == [i \in S |-> Exact(Principal[l][i])]
<1>1. PICK f, c : f = Principal[l] /\ c = Scale
  OBVIOUS
<1>2. IsFiniteSet(S) /\ c \in Int /\ \A i \in S : f[i] \in Int
  <2>1. IsFiniteSet(S)
    BY DueSums
  <2>2. c \in Int
    BY <1>1, DatabaseAssumption
  <2>3. \A i \in S : f[i] \in Int
    BY <1>1, InstallmentsNumbered
  <2> QED
    BY <2>1, <2>2, <2>3
<1>3. \A i \in S : g[i] = f[i] * c
  BY <1>1 DEF Exact
<1>4. SumFunction(g) = SumFunctionOnSet(g, S)
  BY DEF SumFunction
<1> HIDE DEF g
<1>5. SumFunctionOnSet(g, S) = SumFunctionOnSet(f, S) * c
  BY <1>2, <1>3, SumOfMultiples
<1> QED
  BY <1>1, <1>4, <1>5 DEF g, Due, Exact

\* The plan of a payment that names no amount.
LEMMA PlanBegins ==
  ASSUME NEW l \in Loans, WholeBook(l), TablesOK,
         NEW r \in PayRequests(l), r.amount = 0, NEW q,
         NEW due, NEW interest, NEW fees, NEW principal,
         Planned(l, r, q, due, interest, fees, principal)
  PROVE  WholePlan(l, q.plan)
<1>1. due \in SUBSET Installments(l) /\ \A i \in due : sched[l][i] = "PENDING"
  BY DEF Planned, DueInstallments, WholeBook
<1>2. principal = Exact(Due(l, due)) /\ Exact(Due(l, {})) = 0 /\ Due(l, {}) = 0
  <2>1. Due(l, {}) = 0 /\ Exact(0) = 0
    BY <1>1, DueSums, DatabaseAssumption DEF Exact
  <2> QED
    BY <1>1, <2>1, AllDue DEF Planned
<1>3. PICK a : a = q.plan.alloc
  OBVIOUS
<1>4. a.interest = interest /\ Close(a.principal, principal)
  <2>1. PICK i, f, p, amount : /\ i = interest /\ f = fees /\ p = principal
                               /\ amount = p + i + f
    OBVIOUS
  <2>2. PICK e \in Error : /\ i \in Nat /\ f \in Nat /\ p \in Nat
                           /\ a = Allocate(amount, i, f, p, e)
    BY <1>3, <2>1 DEF Planned
  <2>3. e \in Int /\ 4 * e < Scale /\ -4 * e < Scale /\ Scale \in Nat \ {0}
    BY <2>2, ErrorAssumption, DatabaseAssumption
  <2>4. /\ a.interest = i
        /\ a.principal = IF p = 0 THEN 0 ELSE Greater(p + e, 0)
    BY ONLY <2>1, <2>2, <2>3 DEF Allocate, Lesser
  <2>5. 4 * (a.principal - p) < Scale /\ 4 * (p - a.principal) < Scale
        /\ a.principal \in Int
    BY ONLY <2>2, <2>3, <2>4 DEF Greater
  <2> QED
    BY <2>1, <2>4, <2>5 DEF Close
<1>5. /\ q.plan.rows = <<>> /\ q.plan.due = due /\ q.plan.spread.principal = 0
  BY DEF Planned, Nothing
<1>6. Recorded(<<>>) = 0 /\ DOMAIN <<>> = {}
  BY RecordedNone
<1>7. PaidBy(q.plan) = {}
  BY <1>5, <1>6 DEF PaidBy
<1>8. /\ Close(q.plan.alloc.principal,
                Exact(Due(l, PaidBy(q.plan))) + Exact(Due(l, q.plan.due)))
      /\ q.plan.spread.principal = Exact(Due(l, PaidBy(q.plan)))
      /\ q.plan.alloc.interest >= 0
  <2>1. interest \in Nat /\ principal \in Nat
    BY DEF Planned
  <2>2. 0 + principal = principal
    BY <2>1
  <2> QED
    BY <1>2, <1>3, <1>4, <1>5, <1>7, <2>1, <2>2
<1> QED
  BY <1>1, <1>2, <1>5, <1>6, <1>7, <1>8 DEF WholePlan

\* processPayment before its commit.
LEMMA PlanningKeepsWhole ==
  ASSUME NEW w, Workers = {w}, Serial, WholeInv,
         ReadLastPayment(w) \/ PlanPayment(w) \/ ShareOut(w) \/ CheckTransfer(w)
  PROVE  WholeInv'
<1>0. TablesOK /\ Inv /\ pc[w] \in Paying /\ WholeRead(pc[w], req[w])
      /\ Known /\ RepaymentInv
  BY DEF Serial, Known, MoneyInv, WholeInv, ReadLastPayment, PlanPayment, ShareOut,
         CheckTransfer, Paying
<1>1. PICK l \in Loans : req[w] \in PayRequests(l)
  BY <1>0 DEF Known, MoneyInv, LocalsOK
<1>2. CASE RollBack(w)
  BY <1>0, <1>2, RollBackKeepsWhole
<1>3. CASE ReadLastPayment(w) /\ ~RollBack(w)
  <2> DEFINE q == [req[w] EXCEPT !.last = LastPaymentDay(req[w].loan)]
  <2>1. /\ pc' = [pc EXCEPT ![w] = "plan"] /\ req' = [req EXCEPT ![w] = q]
        /\ UNCHANGED tables
    BY <1>3 DEF ReadLastPayment, Begin, Goto
  <2>2. q.amount = req[w].amount
    BY <1>1 DEF PayRequests
  <2>3. WholeRead("plan", q)
    BY <1>0, <2>2 DEF WholeRead
  <2> HIDE DEF q
  <2> QED
    BY <1>0, <2>1, <2>3, WholeGoesOn
<1>4. CASE PlanPayment(w)
  <2>1. PICK m \in Loans : \E r, q, due, interest, fees, principal :
          /\ r = req[w] /\ r \in PayRequests(m) /\ pc[w] = "plan"
          /\ pc' = [pc EXCEPT ![w] = "share"] /\ req' = [req EXCEPT ![w] = q]
          /\ UNCHANGED tables
          /\ Planned(m, r, q, due, interest, fees, principal)
    BY <1>0, <1>4, PlanEffect
  <2>2. PICK r, q, due, interest, fees, principal :
          /\ r = req[w] /\ r \in PayRequests(m) /\ pc[w] = "plan"
          /\ pc' = [pc EXCEPT ![w] = "share"] /\ req' = [req EXCEPT ![w] = q]
          /\ UNCHANGED tables
          /\ Planned(m, r, q, due, interest, fees, principal)
    BY <2>1
  <2>3. r.amount = 0 /\ WholeBook(m)
    BY <1>0, <2>2 DEF WholeRead, WholeInv
  <2>4. WholePlan(m, q.plan)
    BY <1>0, <2>2, <2>3, PlanBegins
  <2>5. q.loan = m /\ q.amount = 0
    BY <2>2, <2>3 DEF Planned
  <2>6. WholeRead("share", q)
    BY <2>4, <2>5 DEF WholeRead
  <2> QED
    BY <1>0, <2>2, <2>6, WholeGoesOn
<1>5. CASE ShareOut(w)
  <2>1. PICK m \in Loans : \E r, q, i, due, last, fee, share, row :
          /\ r = req[w] /\ r \in PayRequests(m) /\ pc[w] = "share"
          /\ pc' = [pc EXCEPT ![w] = "share"] /\ req' = [req EXCEPT ![w] = q]
          /\ UNCHANGED tables /\ PlanKept(m, r.plan)
          /\ Shared(m, r, q, i, due, last, fee, share, row)
    BY <1>0, <1>5, ShareEffect
  <2>2. PICK r, q, i, due, last, fee, share, row :
          /\ r = req[w] /\ r \in PayRequests(m) /\ pc[w] = "share"
          /\ pc' = [pc EXCEPT ![w] = "share"] /\ req' = [req EXCEPT ![w] = q]
          /\ UNCHANGED tables /\ PlanKept(m, r.plan)
          /\ Shared(m, r, q, i, due, last, fee, share, row)
    BY <2>1
  <2>3. r.amount = 0 /\ WholeBook(m) /\ r.loan = m /\ WholePlan(m, r.plan)
    BY <1>0, <2>2 DEF WholeRead, WholeInv, PayRequests
  <2>4. PICK p, x : p = r.plan /\ x = q.plan
    OBVIOUS
  <2>5. /\ TablesOK /\ WholeBook(m) /\ PlanKept(m, p) /\ WholePlan(m, p)
        /\ Turn(m, p, x, i, due, last, fee, share, row)
        /\ q.loan = m /\ q.amount = 0
    BY <1>0, <2>2, <2>3, <2>4 DEF Shared
  <2>7. WholePlan(m, x)
    BY ONLY m \in Loans, <2>5, ShareKeepsWhole
  <2>8. WholeRead("share", q)
    BY <2>4, <2>5, <2>7 DEF WholeRead
  <2> QED
    BY <1>0, <2>2, <2>8, WholeGoesOn
<1>6. CASE CheckTransfer(w) /\ ~RollBack(w)
  <2>1. /\ pc' = [pc EXCEPT ![w] = "pay"] /\ req' = [req EXCEPT ![w] = req[w]]
        /\ UNCHANGED tables /\ req[w].plan.due = {} /\ pc[w] = "share"
    BY <1>6 DEF CheckTransfer, Begin, Goto
  <2>2. WholeRead("pay", req[w])
    BY <1>0, <2>1 DEF WholeRead
  <2> QED
    BY <1>0, <2>1, <2>2, WholeGoesOn
<1> QED
  BY <1>2, <1>3, <1>4, <1>5, <1>6

-----------------------------------------------------------------------------
(***************************************************************************)
(* Commits.                                                                *)
(***************************************************************************)
\* One that keeps the book of its loan keeps them all.
LEMMA WholeOthers ==
  ASSUME \A m \in Loans : WholeBook(m), NEW l \in Loans, Untouched(l), WholeBook(l)'
  PROVE  \A m \in Loans : WholeBook(m)'
<1> SUFFICES ASSUME NEW m \in Loans, m # l PROVE WholeBook(m)'
  OBVIOUS
<1>1. /\ Completed(m)' = Completed(m) /\ PrincipalPaid(m)' = PrincipalPaid(m)
      /\ loan'[m] = loan[m] /\ sched'[m] = sched[m]
      /\ disbTxns'[m] = disbTxns[m] /\ reversals'[m] = reversals[m]
      /\ \A k \in Completed(m) : payments'[k] = payments[k]
  BY DEF Untouched
<1>2. PaidOff(m)' = PaidOff(m) /\ Funded(m)' = Funded(m)
  BY <1>1 DEF PaidOff, Funded
<1> QED
  BY <1>1, <1>2 DEF WholeBook

\* The commits of a disbursement and of its reversal.
LEMMA FundingKeepsWhole ==
  ASSUME NEW w, Workers = {w}, Known, Known', WholeInv,
         CommitDisbursement(w) \/ CommitReversal(w)
  PROVE  WholeInv'
<1>1. PICK l \in Loans : (Disbursed(l) \/ Reversed(l)) /\ Untouched(l)
  BY DisbursementEffect, ReversalEffect
<1>2. /\ Completed(l)' = {} /\ PrincipalPaid(l)' = 0
      /\ Funded(l)' => loan'[l].outstanding = Amount[l]
      /\ \A i \in Installments(l) : sched'[l][i] \notin {"PAID", "PARTIALLY_PAID"}
  BY <1>1 DEF Disbursed, Reversed, NothingPaid
<1>3. PaidOff(l)' = {}
  BY <1>2 DEF PaidOff
<1>4. Due(l, {}) = 0 /\ Amount[l] \in Nat
  BY DueSums, DatabaseAssumption
<1>5. WholeBook(l)'
  BY <1>2, <1>3, <1>4 DEF WholeBook
<1>6. \A m \in Loans : WholeBook(m)'
  BY <1>1, <1>5, WholeOthers DEF WholeInv
<1>7. CASE CommitDisbursement(w)
  <2>1. PICK label : label \in {"complete", "fail"} /\ pc' = [pc EXCEPT ![w] = label]
    BY <1>7 DEF CommitDisbursement, Goto
  <2>2. label \notin Paying
    BY <2>1 DEF Paying
  <2> QED
    BY <1>6, <2>1, <2>2, WholeElsewhere DEF Known
<1>8. CASE CommitReversal(w)
  BY <1>6, <1>8, WholeEnds DEF CommitReversal, Known
<1> QED
  BY <1>7, <1>8

\* The commit of a refund.
LEMMA RefundKeepsWhole ==
  ASSUME NEW w, Workers = {w}, Known, Known', RepaymentInv, WholeInv, CommitRefund(w)
  PROVE  WholeInv'
<1>1. PICK l \in Loans, k \in DOMAIN payments : Refunded(l, k) /\ Untouched(l)
  BY RefundEffect
<1>2. TablesOK /\ BooksOK /\ WholeBook(l) /\ k \in Completed(l) /\ Funded(l)
  BY <1>1 DEF Known, MoneyInv, RepaymentInv, WholeInv, Refunded
<1>3. PICK i, S, T : i = payments[k].inst /\ S = PaidOff(l) /\ T = S \ {i}
  OBVIOUS
<1>4. /\ i \in S /\ S \in SUBSET Installments(l)
      /\ payments[k].principal = Principal[l][i]
  BY <1>2, <1>3 DEF WholeBook, PaidOff
<1>5. /\ Principal[l][i] \in Nat /\ Due(l, T) \in Nat
      /\ Due(l, S) = Principal[l][i] + Due(l, T)
  <2>1. T = S \ {i}
    BY <1>3
  <2> QED
    BY <1>4, <2>1, DueWithout
<1>6. PaidOff(l)' = T
  BY <1>1, <1>3, <1>4 DEF Refunded, PaidOff
<1>7. PrincipalPaid(l)' = Due(l, T)
  BY <1>1, <1>2, <1>3, <1>4, <1>5 DEF Refunded, WholeBook
<1>8. loan'[l].outstanding = Amount[l] - PrincipalPaid(l)'
  <2>1. PICK x, y, n, m : /\ x = Amount[l] /\ y = loan[l].outstanding
                          /\ n = Principal[l][i] /\ m = Due(l, T)
    OBVIOUS
  <2>2. x \in Int /\ y \in Int /\ n \in Int /\ m \in Int
    BY <1>2, <1>5, <2>1, BookNumbers
  <2>3. loan'[l].outstanding = y + n
    BY <1>1, <1>4, <2>1 DEF Refunded
  <2>4. y = x - (n + m)
    BY <1>2, <1>3, <1>5, <2>1 DEF WholeBook
  <2>5. y + n = x - m
    BY <2>2, <2>4
  <2> QED
    BY <1>7, <2>1, <2>3, <2>5
<1>9. \A j \in Completed(l)' :
        /\ j \in Completed(l) /\ payments'[j] = payments[j]
        /\ payments[j].inst \in T
        /\ payments[j].principal = Principal[l][payments[j].inst]
  BY <1>1, <1>2, <1>3 DEF Refunded, WholeBook
<1>10. \A j \in Installments(l) : sched'[l][j] # "PARTIALLY_PAID"
  BY <1>1, <1>2 DEF Refunded, WholeBook
<1>11. \A j, h \in Completed(l)' : payments'[j].inst = payments'[h].inst => j = h
  BY <1>2, <1>9 DEF WholeBook
<1>12. WholeBook(l)'
  BY <1>6, <1>7, <1>8, <1>9, <1>10, <1>11 DEF WholeBook
<1> QED
  BY <1>1, <1>12, WholeOthers, WholeEnds DEF WholeInv, CommitRefund, Known

\* The commit of a payment.
LEMMA PaymentKeepsWhole ==
  ASSUME NEW w, Workers = {w}, Known, Known', RepaymentInv, WholeInv, CommitPayment(w)
  PROVE  WholeInv'
<1>1. PICK l \in Loans : \E r :
        /\ r = req[w] /\ r \in PayRequests(l) /\ Holds("pay", r)
        /\ r.loan = l /\ Paid(l, r) /\ Untouched(l)
  BY PaymentEffect
<1>2. PICK r, rows, N, M :
        /\ r = req[w] /\ rows = r.plan.rows /\ N = Len(payments) /\ M = Len(rows)
  OBVIOUS
<1>3. /\ r \in PayRequests(l) /\ r.loan = l /\ Paid(l, r)
      /\ r.plan \in Plans(l) /\ PlanKept(l, r.plan)
      /\ TablesOK /\ BooksOK /\ WholeBook(l) /\ pc[w] = "pay"
      /\ WholePlan(l, r.plan) /\ r.plan.due = {}
  BY <1>1, <1>2 DEF CommitPayment, Known, MoneyInv, RepaymentInv, WholeInv,
                    WholeRead, Holds, Paying, PayRequests
<1>4. /\ rows \in Seq(PlanRows(l)) /\ M \in Nat /\ DOMAIN rows = 1..M
      /\ \A n \in 1..M : rows[n].inst \in Installments(l)
  <2>1. rows \in Seq(PlanRows(l))
    BY <1>2, <1>3 DEF Plans
  <2>2. M \in Nat /\ DOMAIN rows = 1..M /\ \A n \in 1..M : rows[n] \in PlanRows(l)
    BY <1>2, <2>1, LenProperties, ElementOfSeq
  <2> QED
    BY <2>1, <2>2 DEF PlanRows
<1>5. PICK S, T, d : S = PaidOff(l) /\ T = PaidBy(r.plan) /\ d = Due(l, T)
  OBVIOUS
<1>6. /\ S \in SUBSET Installments(l) /\ T \in SUBSET Installments(l)
      /\ S \cap T = {}
      /\ \A n \in 1..M : /\ rows[n].inst \in T /\ rows[n].covered
                         /\ rows[n].principal = Principal[l][rows[n].inst]
      /\ \A i \in T : \E n \in 1..M : rows[n].inst = i
  <2>1. T = {rows[n].inst : n \in 1..M}
    BY <1>2, <1>4, <1>5 DEF PaidBy
  <2>2. /\ \A i \in T : sched[l][i] = "PENDING"
        /\ \A n \in 1..M : /\ rows[n].covered
                           /\ rows[n].principal = Principal[l][rows[n].inst]
    BY <1>2, <1>3, <1>4, <1>5 DEF WholePlan
  <2>3. S \in SUBSET Installments(l) /\ \A i \in S : sched[l][i] = "PAID"
    BY <1>5 DEF PaidOff
  <2> QED
    BY <1>4, <2>1, <2>2, <2>3
<1>7. d \in Nat /\ Due(l, S) \in Nat /\ Due(l, S \cup T) = Due(l, S) + d
  BY <1>5, <1>6, DueSums, DueOfBoth
<1>8. \A i \in Installments(l) :
         sched'[l][i] = IF i \in T THEN "PAID" ELSE sched[l][i]
  <2>1. /\ \A n \in 1..M : sched'[l][rows[n].inst] = IF rows[n].covered
                                                       THEN "PAID" ELSE "PARTIALLY_PAID"
        /\ \A i \in Installments(l) :
             (\A n \in 1..M : rows[n].inst # i) => sched'[l][i] = sched[l][i]
    <3>1. Paid(l, r) /\ r.plan.rows = rows /\ DOMAIN rows = 1..M
      BY <1>2, <1>3, <1>4
    <3>2. \A n \in DOMAIN rows :
            sched'[l][rows[n].inst] = IF rows[n].covered THEN "PAID" ELSE "PARTIALLY_PAID"
      BY <3>1 DEF Paid
    <3>3. \A i \in Installments(l) :
            (\A n \in DOMAIN rows : rows[n].inst # i) => sched'[l][i] = sched[l][i]
      BY <3>1 DEF Paid
    <3> QED
      BY <3>1, <3>2, <3>3
  <2>2. ASSUME NEW i \in T PROVE sched'[l][i] = "PAID"
    <3>1. PICK n \in 1..M : rows[n].inst = i /\ rows[n].covered
      BY <1>6
    <3> QED
      BY <2>1, <3>1
  <2>3. ASSUME NEW i \in Installments(l), i \notin T PROVE sched'[l][i] = sched[l][i]
    BY <1>6, <2>1, <2>3
  <2> QED
    BY <1>6, <2>2, <2>3
<1>9. PaidOff(l)' = S \cup T
  BY <1>5, <1>6, <1>8 DEF PaidOff
<1>10. PrincipalPaid(l)' = Due(l, S \cup T)
  <2>1. PrincipalPaid(l)' = PrincipalPaid(l) + Recorded(rows)
    BY <1>2, <1>3 DEF Paid
  <2>2. PrincipalPaid(l) = Due(l, S) /\ Recorded(rows) = d
    BY <1>2, <1>3, <1>5 DEF WholeBook, WholePlan
  <2> QED
    BY <1>7, <2>1, <2>2
<1>11. loan'[l].outstanding = Amount[l] - PrincipalPaid(l)'
  <2>0. PICK x, y, m : x = Amount[l] /\ y = loan[l].outstanding /\ m = Due(l, S)
    OBVIOUS
  <2>1. /\ x = Amount[l] /\ y = loan[l].outstanding /\ m = Due(l, S)
        /\ x \in Int /\ y \in Int /\ m \in Int
    BY <1>3, <1>7, <2>0, BookNumbers
  <2>2. Close(r.plan.alloc.principal, Exact(d))
    <3>1. Close(r.plan.alloc.principal, Exact(d) + Exact(Due(l, {})))
      BY <1>3, <1>5 DEF WholePlan
    <3>2. Due(l, {}) = 0 /\ Exact(0) = 0 /\ Exact(d) \in Int
      BY <1>7, DueSums, ExactInt, DatabaseAssumption DEF Exact
    <3>3. Exact(d) + 0 = Exact(d)
      BY <3>2
    <3> QED
      BY <3>1, <3>2, <3>3
  <2>3. loan'[l].outstanding = Stored(Exact(y) - r.plan.alloc.principal)
    BY <1>2, <1>3, <2>1 DEF Paid
  <2>4. Stored(Exact(y) - r.plan.alloc.principal) = y - d
    <3>1. PICK a, b, c : a = r.plan.alloc.principal /\ b = Exact(y) /\ c = Exact(d)
      OBVIOUS
    <3>2. b \in Int /\ c \in Int /\ Exact(y - d) = b - c /\ y - d \in Int
      <4>1. d \in Int /\ y \in Int
        BY <1>7, <2>1
      <4> QED
        BY <3>1, <4>1, ExactSum, ExactInt
    <3>3. a \in Int /\ 4 * (a - c) < Scale /\ 4 * (c - a) < Scale
      BY <2>2, <3>1 DEF Close
    <3>4. Close(b - a, b - c)
      BY <3>2, <3>3, DatabaseAssumption DEF Close
    <3>5. Stored(b - a) = y - d
      BY <3>2, <3>4, StoredClose
    <3> QED
      BY <3>1, <3>5
  <2>5. y = x - m
    BY <1>3, <1>5, <2>1 DEF WholeBook, Paid
  <2> QED
    BY <1>7, <1>10, <2>1, <2>3, <2>4, <2>5
<1>12. /\ N \in Nat
       /\ \A k \in Completed(l)' : \/ k \in Completed(l)
                                   \/ \E n \in 1..M : k = N + n
       /\ \A k \in Completed(l) : payments'[k] = payments[k]
       /\ \A n \in 1..M : /\ payments'[N + n].inst = rows[n].inst
                          /\ payments'[N + n].principal = rows[n].principal
  <2>1. Completed(l)' = Completed(l) \cup ((N + 1)..(N + M)) /\ N \in Nat
    BY <1>2, <1>3, PaymentsNumbered DEF Paid
  <2>2. \A k \in (N + 1)..(N + M) : k - N \in 1..M /\ k = N + (k - N)
    BY <1>4, <2>1
  <2>3. \A n \in 1..M : payments'[N + n] = RowOf(l, r.day, rows[n])
    BY <1>2, <1>3, <1>4 DEF Paid
  <2>4. \A x : RowOf(l, r.day, x).inst = x.inst /\ RowOf(l, r.day, x).principal = x.principal
    BY DEF RowOf
  <2>5. \A k \in Completed(l) : payments'[k] = payments[k]
    BY <1>3 DEF Paid
  <2> QED
    BY <2>1, <2>2, <2>3, <2>4, <2>5
<1>13. \A k \in Completed(l)' : /\ payments'[k].inst \in S \cup T
                                /\ payments'[k].principal
                                     = Principal[l][payments'[k].inst]
  BY <1>3, <1>5, <1>6, <1>12 DEF WholeBook
<1>14. ASSUME NEW j \in Completed(l)', NEW k \in Completed(l)',
              payments'[j].inst = payments'[k].inst
       PROVE  j = k
  <2>1. \A m, n \in 1..M : rows[m].inst = rows[n].inst => m = n
    BY <1>2, <1>3, <1>4 DEF PlanKept
  <2>2. \A h \in Completed(l) : payments'[h].inst \in S
    BY <1>3, <1>5, <1>12 DEF WholeBook
  <2>3. \A n \in 1..M : payments'[N + n].inst \in T
    BY <1>6, <1>12
  <2>4. CASE j \in Completed(l) /\ k \in Completed(l)
    BY <1>3, <1>12, <1>14, <2>4 DEF WholeBook
  <2>5. CASE j \notin Completed(l) /\ k \notin Completed(l)
    BY <1>12, <1>14, <2>1, <2>5
  <2> QED
    BY <1>6, <1>12, <1>14, <2>2, <2>3, <2>4, <2>5
<1>15. \A i \in Installments(l) : sched'[l][i] # "PARTIALLY_PAID"
  BY <1>3, <1>8 DEF WholeBook
<1>16. WholeBook(l)'
  BY <1>9, <1>10, <1>11, <1>13, <1>14, <1>15 DEF WholeBook
<1> QED
  BY <1>1, <1>16, WholeOthers, WholeEnds DEF WholeInv, CommitPayment, Known

-----------------------------------------------------------------------------
(***************************************************************************)
(* All steps.                                                              *)
(***************************************************************************)
\* Handlers that stay where they are keep what they rely on.
LEMMA WholeReadsStay ==
  ASSUME \A w \in Workers : WholeRead(pc[w], req[w]), UNCHANGED <<sched, pc, req>>
  PROVE  \A w \in Workers : WholeRead(pc[w], req[w])'
<1>1. \A l, p : WholePlan(l, p)' <=> WholePlan(l, p)
  BY DEF WholePlan
<1> QED
  BY <1>1 DEF WholeRead

\* Steps that have no payment to make and leave the books alone.
LEMMA OtherReadsKeepWhole ==
  ASSUME NEW w, Workers = {w}, Inv, WholeInv,
         \/ Claims(w) \/ CheckRefundable(w)
         \/ \E k \in DOMAIN payments : StartRollbackPayment(w, k)
  PROVE  WholeInv'
<1>1. CASE RollBack(w)
  BY <1>1, RollBackKeepsWhole
<1>2. CASE ~RollBack(w)
  <2>1. PICK label : /\ UNCHANGED books /\ pc' = [pc EXCEPT ![w] = label]
                     /\ label \notin Paying
    <3>1. CASE Claims(w)
      BY <1>2, <3>1, ClaimsLeaveBooks DEF Paying
    <3>2. CASE CheckRefundable(w)
      BY <1>2, <3>2 DEF CheckRefundable, Begin, Goto, Paying, tables, books
    <3>3. CASE \E k \in DOMAIN payments : StartRollbackPayment(w, k)
      <4>1. UNCHANGED books /\ pc' = [pc EXCEPT ![w] = "refund"]
        BY <3>3 DEF StartRollbackPayment, Begin, Goto, tables, books
      <4>2. "refund" \notin Paying
        BY DEF Paying
      <4> QED
        BY <4>1, <4>2
    <3> QED
      BY <3>1, <3>2, <3>3
  <2>2. \A l \in Loans : WholeBook(l)'
    BY <2>1, WholeStays DEF WholeInv
  <2> QED
    BY <2>1, <2>2, WholeElsewhere
<1> QED
  BY <1>1, <1>2

\* A payment request arrives, and names no amount.
LEMMA StartPaymentKeepsWhole ==
  ASSUME NEW w, Workers = {w}, Inv, WholeInv, NoAmounts, NEW l \in Loans,
         NEW day \in PayDays, NEW amount \in PayAmounts, StartPayment(w, l, day, amount)
  PROVE  WholeInv'
<1>1. PICK r : r = [op |-> "pay", loan |-> l, day |-> day, amount |-> amount,
                    outstanding |-> loan[l].outstanding, last |-> 0,
                    plan |-> NoPlan]
  OBVIOUS
<1>2. /\ pc' = [pc EXCEPT ![w] = "lastPayment"] /\ req' = [req EXCEPT ![w] = r]
      /\ UNCHANGED tables
  BY <1>1 DEF StartPayment, Begin, Goto
<1>3. WholeRead("lastPayment", r)
  BY <1>1 DEF WholeRead, NoAmounts
<1> QED
  BY <1>2, <1>3, WholeGoesOn

\* A loan is created, or its status patched.
LEMMA LoanChangesKeepWhole ==
  ASSUME TablesOK, BooksOK, WholeInv, NEW l \in Loans,
         CreateLoan(l) \/ \E s \in LoanStatus : UpdateLoanStatus(l, s)
  PROVE  WholeInv'
<1>1. UNCHANGED <<sched, payments, disbTxns, reversals, pc, req>>
  BY DEF CreateLoan, UpdateLoanStatus, handler
<1>2. \A m \in Loans : Funded(m) => loan'[m].outstanding = loan[m].outstanding
  BY OwedStays
<1>3. ASSUME NEW m \in Loans PROVE WholeBook(m)'
  <2>1. /\ Completed(m)' = Completed(m) /\ PaidOff(m)' = PaidOff(m)
        /\ PrincipalPaid(m)' = PrincipalPaid(m) /\ Funded(m)' = Funded(m)
    BY <1>1 DEF Completed, PaidOff, PrincipalPaid, Funded
  <2> QED
    BY <1>1, <1>2, <2>1 DEF WholeInv, WholeBook
<1> QED
  BY <1>1, <1>3, WholeReadsStay DEF WholeInv

\* There are no payments and no requests.
LEMMA WholeStarts == Init => WholeInv
<1> SUFFICES ASSUME Init PROVE WholeInv
  OBVIOUS
<1>1. TablesOK
  BY MoneyStarts DEF MoneyInv
<1>2. ASSUME NEW l \in Loans PROVE WholeBook(l)
  <2>1. /\ Completed(l) = {} /\ PaidOff(l) = {} /\ ~Funded(l)
        /\ \A i \in Installments(l) : sched[l][i] = "NONE"
    BY DEF Init, DatabaseInit, Completed, PaidOff, Funded
  <2>2. PrincipalPaid(l) = 0
    BY <1>1, <2>1, NoneStands DEF NothingForNothing, NothingPaid
  <2>3. Due(l, {}) = 0
    BY DueSums
  <2> QED
    BY <2>1, <2>2, <2>3 DEF WholeBook
<1>3. \A w \in Workers : WholeRead(pc[w], req[w])
  BY DEF Init, DatabaseInit, WholeRead, Paying
<1> QED
  BY <1>2, <1>3 DEF WholeInv

\* Every step of the system keeps the invariant.
LEMMA WholeStep ==
  ASSUME OneHandler, NoAmounts, Serial, Serial', WholeInv, [Next]_vars
  PROVE  WholeInv'
<1>1. PICK w : Workers = {w}
  BY DEF OneHandler
<1>2. Known /\ Known' /\ Inv /\ RepaymentInv /\ BooksOK /\ TablesOK
  BY DEF Serial, Known, MoneyInv, RepaymentInv
<1>3. CASE UNCHANGED vars \/ \E v \in Workers : Lock(v)
  <2>1. UNCHANGED <<tables, handler>>
    BY <1>3 DEF vars, tables, handler, Lock
  <2>2. \A l \in Loans : WholeBook(l)'
    BY <2>1, WholeStays DEF WholeInv, tables, books
  <2>3. \A v \in Workers : WholeRead(pc[v], req[v])'
    BY <2>1, WholeReadsStay DEF WholeInv, tables, handler
  <2> QED
    BY <2>2, <2>3 DEF WholeInv
<1>4. CASE Crash
  <2>1. UNCHANGED books /\ \A v \in Workers : pc'[v] = "idle"
    BY <1>4 DEF Crash, tables, books
  <2>2. \A l \in Loans : WholeBook(l)'
    BY <2>1, WholeStays DEF WholeInv
  <2> QED
    BY <2>1, <2>2 DEF WholeInv, WholeRead, Paying
<1>5. CASE Arrive(w)
  BY <1>1, <1>2, <1>5, OtherReadsKeepWhole, StartPaymentKeepsWhole
     DEF Arrive, Claims
<1>6. CASE TransactionFails(w)
  BY <1>1, <1>2, <1>6, RollBackKeepsWhole DEF TransactionFails
<1>7. CASE DisburseStep(w) \/ RollbackStep(w) \/ PaymentStep(w)
  <2>1. CASE ClaimDisbursement(w) \/ CheckFunds(w) \/ CompleteDisbursement(w)
             \/ FailDisbursement(w) \/ Compensate(w) \/ ReadActivePayments(w)
             \/ CheckRefundable(w)
    BY <1>1, <1>2, <2>1, OtherReadsKeepWhole DEF Claims
  <2>2. CASE CommitDisbursement(w) \/ CommitReversal(w)
    BY <1>1, <1>2, <2>2, FundingKeepsWhole
  <2>3. CASE CommitRefund(w)
    BY <1>1, <1>2, <2>3, RefundKeepsWhole
  <2>4. CASE ReadLastPayment(w) \/ PlanPayment(w) \/ ShareOut(w) \/ CheckTransfer(w)
    BY <1>1, <2>4, PlanningKeepsWhole
  <2>5. CASE CommitPayment(w)
    BY <1>1, <1>2, <2>5, PaymentKeepsWhole
  <2> QED
    BY <1>7, <2>1, <2>2, <2>3, <2>4, <2>5 DEF DisburseStep, RollbackStep, PaymentStep
<1>8. CASE \E l \in Loans : CreateLoan(l) \/ \E s \in LoanStatus : UpdateLoanStatus(l, s)
  BY <1>2, <1>8, LoanChangesKeepWhole
<1> QED
  BY <1>1, <1>3, <1>4, <1>5, <1>6, <1>7, <1>8, PatchAssumption
     DEF Next, Step, Approve, LoanStatus

\* With one handler and payments that name no amount the invariant holds in every
\* state.
LEMMA WholeAlways ==
  ASSUME OneHandler, NoAmounts
  PROVE  Spec => [](Serial /\ WholeInv)
<1>1. Serial /\ Serial' /\ WholeInv /\ [Next]_vars => WholeInv'
  BY WholeStep
<1>2. Known /\ RepaymentInv <=> Serial
  BY DEF Serial
<1> QED
  BY <1>1, <1>2, WholeStarts, RepaymentAlways, PTL DEF Spec

\* While requests come one at a time and name no amount, what a loan still owes
\* is its amount less the principal of the payments that stand, through refunds,
\* failures, restarts and changes of its status (loan.update of processPayment
\* and rollbackPayment), whatever parts of a cent fees and interest have.
THEOREM SerialOutstanding ==
  ASSUME OneHandler, NoAmounts
  PROVE  Spec => []OutstandingExplained
<1>1. WholeInv => OutstandingExplained
  BY DEF WholeInv, WholeBook, OutstandingExplained
<1> QED
  BY <1>1, WholeAlways, PTL

-----------------------------------------------------------------------------
(***************************************************************************)
(* The status of a loan, where no client patches it to CLOSED.             *)
(***************************************************************************)
StatusBook(l) ==
  /\ Funded(l) /\ loan[l].status = "CLOSED" => loan[l].outstanding = 0
  /\ ~Funded(l) => loan[l].status # "CLOSED"

\* rollbackPayment writes back a status it has read.
StatusRead(label, r) ==
  label = "refund" /\ r.status = "CLOSED" => loan[r.loan].outstanding = 0

StatusInv ==
  /\ \A l \in Loans : StatusBook(l)
  /\ \A w \in Workers : StatusRead(pc[w], req[w])

\* Where nothing of it is written, the status of a loan is as it was.
LEMMA StatusStays ==
  ASSUME \A l \in Loans : StatusBook(l), UNCHANGED <<loan, disbTxns, reversals>>
  PROVE  \A l \in Loans : StatusBook(l)'
BY DEF StatusBook, Funded

\* The only handler is not about to refund.
LEMMA StatusElsewhere ==
  ASSUME NEW w, Workers = {w}, Inv, \A l \in Loans : StatusBook(l)',
         NEW label, label # "refund", pc' = [pc EXCEPT ![w] = label]
  PROVE  StatusInv'
<1>1. pc'[w] = label
  BY DEF Inv, DisbursementTypeOK
<1> QED
  BY <1>1 DEF StatusInv, StatusRead

\* A transaction ends, with a commit or without.
LEMMA StatusEnds ==
  ASSUME NEW w, Workers = {w}, Inv, \A l \in Loans : StatusBook(l)',
         AfterTransaction(w)
  PROVE  StatusInv'
<1>1. PICK label : label \in {"idle", "fail"} /\ pc' = [pc EXCEPT ![w] = label]
  BY DEF AfterTransaction, Answer, Goto
<1> QED
  BY <1>1, StatusElsewhere

\* One that rolls back leaves the books as they were.
LEMMA RollBackKeepsStatus ==
  ASSUME NEW w, Workers = {w}, Inv, StatusInv, RollBack(w)
  PROVE  StatusInv'
<1>1. UNCHANGED <<loan, disbTxns, reversals>> /\ AfterTransaction(w)
  BY DEF RollBack, tables
<1> QED
  BY <1>1, StatusStays, StatusEnds DEF StatusInv

\* Steps that write nothing of a loan.
LEMMA ReadsKeepStatus ==
  ASSUME NEW w, Workers = {w}, Serial, StatusInv,
         \/ Claims(w) \/ CheckRefundable(w)
         \/ \E k \in DOMAIN payments : StartRollbackPayment(w, k)
         \/ \E l \in Loans, day \in PayDays, amount \in PayAmounts :
              StartPayment(w, l, day, amount)
         \/ ReadLastPayment(w) \/ PlanPayment(w) \/ ShareOut(w) \/ CheckTransfer(w)
  PROVE  StatusInv'
<1>0. Inv /\ pc \in [Workers -> Labels]
  BY DEF Serial, Known, Inv, DisbursementTypeOK
<1>1. CASE RollBack(w)
  BY <1>0, <1>1, RollBackKeepsStatus
<1>2. CASE \E k \in DOMAIN payments : StartRollbackPayment(w, k)
  <2>1. PICK k \in DOMAIN payments : StartRollbackPayment(w, k)
    BY <1>2
  <2>2. PICK r : r = [op |-> "refund", payment |-> k, loan |-> payments[k].loan,
                      inst |-> payments[k].inst, principal |-> payments[k].principal,
                      status |-> loan[payments[k].loan].status,
                      outstanding |-> loan[payments[k].loan].outstanding]
    OBVIOUS
  <2>9. payments[k].loan \in Loans /\ Funded(payments[k].loan)
    <3>1. payments[k].status = "COMPLETED" /\ payments[k].loan \in Loans
      BY <2>1 DEF StartRollbackPayment, Refundable, Serial, Known, SerialInv,
                  PaymentTable, IsRow
    <3>2. k \in Completed(payments[k].loan)
      BY <3>1 DEF Completed
    <3> QED
      BY <3>1, <3>2 DEF Serial, Known, SerialInv, LoanTable
  <2>3. /\ pc' = [pc EXCEPT ![w] = "refund"] /\ req' = [req EXCEPT ![w] = r]
        /\ UNCHANGED tables
    BY <2>1, <2>2 DEF StartRollbackPayment, Begin, Goto
  <2>4. req'[w] = r
    BY <1>0, <2>3 DEF Inv, DisbursementTypeOK
  <2>5. StatusRead("refund", r) /\ UNCHANGED <<loan, disbTxns, reversals>>
    BY <2>2, <2>3, <2>9 DEF StatusRead, tables, StatusInv, StatusBook
  <2>6. pc'[w] = "refund"
    BY <1>0, <2>3
  <2>7. StatusRead(pc[w], req[w])'
    BY <2>4, <2>5, <2>6 DEF StatusRead
  <2>8. \A l \in Loans : StatusBook(l)'
    BY <2>5, StatusStays DEF StatusInv
  <2> QED
    BY <2>7, <2>8 DEF StatusInv
<1>3. CASE /\ ~RollBack(w)
           /\ ~\E k \in DOMAIN payments : StartRollbackPayment(w, k)
  <2>1. PICK label : /\ UNCHANGED <<loan, disbTxns, reversals>>
                     /\ pc' = [pc EXCEPT ![w] = label] /\ label # "refund"
    <3>1. CASE Claims(w)
      <4>1. PICK label \in {"claim", "idle", "funds", "fund", "rollback",
                            "activePayments", "refundable"} :
              UNCHANGED books /\ pc' = [pc EXCEPT ![w] = label]
        BY <1>3, <3>1, ClaimsLeaveBooks
      <4> QED
        BY <4>1 DEF books
    <3>2. CASE CheckRefundable(w) \/ ReadLastPayment(w) \/ CheckTransfer(w)
      BY <1>3, <3>2 DEF CheckRefundable, ReadLastPayment, CheckTransfer, Begin, Goto,
                        tables
    <3>3. CASE \E l \in Loans, day \in PayDays, amount \in PayAmounts :
                 StartPayment(w, l, day, amount)
      BY <3>3 DEF StartPayment, Begin, Goto, tables
    <3>4. CASE PlanPayment(w)
      <4>1. UNCHANGED tables /\ pc' = [pc EXCEPT ![w] = "share"]
        BY <3>4, PlanEffect
      <4> QED
        BY <4>1 DEF tables
    <3>5. CASE ShareOut(w)
      <4>1. UNCHANGED tables /\ pc' = [pc EXCEPT ![w] = "share"]
        BY <3>5, ShareEffect
      <4> QED
        BY <4>1 DEF tables
    <3> QED
      BY <1>3, <3>1, <3>2, <3>3, <3>4, <3>5
  <2>2. \A l \in Loans : StatusBook(l)'
    BY <2>1, StatusStays DEF StatusInv
  <2> QED
    BY <1>0, <2>1, <2>2, StatusElsewhere
<1> QED
  BY <1>1, <1>2, <1>3

\* A commit that keeps the status of its loan keeps them all.
LEMMA StatusOthers ==
  ASSUME \A m \in Loans : StatusBook(m), NEW l \in Loans, Untouched(l), StatusBook(l)'
  PROVE  \A m \in Loans : StatusBook(m)'
BY DEF Untouched, StatusBook, Funded

\* Commits.
LEMMA CommitsKeepStatus ==
  ASSUME NEW w, Workers = {w}, Serial, Serial', StatusInv,
         \/ CommitDisbursement(w) \/ CommitReversal(w)
         \/ CommitRefund(w) \/ CommitPayment(w)
  PROVE  StatusInv'
<1>0. Known /\ Known' /\ RepaymentInv /\ TablesOK /\ TablesOK' /\ BooksOK /\ Inv
  BY DEF Serial, Known, MoneyInv, RepaymentInv
<1>1. PICK l \in Loans : Untouched(l) /\ StatusBook(l)'
  <2>1. CASE CommitDisbursement(w) \/ CommitReversal(w)
    <3>1. PICK l \in Loans : (Disbursed(l) \/ Reversed(l)) /\ Untouched(l)
      BY <1>0, <2>1, DisbursementEffect, ReversalEffect
    <3>2. StatusBook(l)'
      BY <3>1, DatabaseAssumption DEF Disbursed, Reversed, StatusBook
    <3> QED
      BY <3>1, <3>2
  <2>2. CASE CommitRefund(w)
    <3>1. PICK l \in Loans, k \in DOMAIN payments :
            /\ Refunded(l, k) /\ Untouched(l) /\ req[w].loan = l
            /\ payments[k].principal >= 0 /\ req[w].status # "NONE"
            /\ loan'[l].status = IF loan'[l].outstanding > 0 THEN "ACTIVE"
                                                             ELSE req[w].status
      BY <1>0, <2>2, RefundEffect
    <3>2. /\ Funded(l) /\ Funded(l)'
          /\ loan'[l].outstanding = loan[l].outstanding + payments[k].principal
      BY <3>1 DEF Refunded
    <3>3. payments[k].principal \in Int /\ loan[l].outstanding \in Int
      BY <1>0, PaymentsNumbered DEF PaymentRows, TablesOK
    <3>4. req[w].status = "CLOSED" => loan[l].outstanding = 0
      BY <2>2, <3>1 DEF StatusInv, StatusRead, CommitRefund
    <3>5. loan'[l].status = "CLOSED" => loan'[l].outstanding = 0
      <4> SUFFICES ASSUME loan'[l].status = "CLOSED" PROVE loan'[l].outstanding = 0
        OBVIOUS
      <4>1. ~(loan'[l].outstanding > 0) /\ req[w].status = "CLOSED"
        BY <3>1
      <4>2. loan'[l].outstanding = payments[k].principal
        BY <3>2, <3>3, <3>4, <4>1
      <4> QED
        BY <3>1, <3>3, <4>1, <4>2
    <3>6. StatusBook(l)'
      BY <3>2, <3>5 DEF StatusBook
    <3> QED
      BY <3>1, <3>6
  <2>3. CASE CommitPayment(w)
    <3>1. PICK l \in Loans : \E r :
            /\ r = req[w] /\ r \in PayRequests(l) /\ Holds("pay", r)
            /\ r.loan = l /\ Paid(l, r) /\ Untouched(l)
      BY <1>0, <2>3, PaymentEffect
    <3>2. PICK r, rest :
            /\ r = req[w]
            /\ rest = Exact(loan[l].outstanding) - r.plan.alloc.principal
      OBVIOUS
    <3>3. /\ Funded(l)' /\ loan'[l].outstanding = Stored(rest)
          /\ loan'[l].status = IF rest = 0 THEN "CLOSED" ELSE "ACTIVE"
      BY <3>1, <3>2 DEF Paid
    <3>4. Stored(0) = 0
      <4>1. Exact(0) = 0
        BY DatabaseAssumption DEF Exact
      <4> QED
        BY <4>1, StoredExact
    <3>5. StatusBook(l)'
      BY <3>3, <3>4 DEF StatusBook
    <3> QED
      BY <3>1, <3>5
  <2> QED
    BY <2>1, <2>2, <2>3
<1>2. \A m \in Loans : StatusBook(m)'
  BY <1>1, StatusOthers DEF StatusInv
<1>3. CASE CommitDisbursement(w)
  <2>1. PICK label : label \in {"complete", "fail"} /\ pc' = [pc EXCEPT ![w] = label]
    BY <1>3 DEF CommitDisbursement, Goto
  <2> QED
    BY <1>0, <1>2, <2>1, StatusElsewhere
<1>4. CASE CommitReversal(w) \/ CommitRefund(w) \/ CommitPayment(w)
  BY <1>0, <1>2, <1>4, StatusEnds DEF CommitReversal, CommitRefund, CommitPayment
<1> QED
  BY <1>3, <1>4

\* A loan is created, or its status patched.
LEMMA LoanChangesKeepStatus ==
  ASSUME Known, RepaymentInv, StatusInv, NEW l \in Loans,
         CreateLoan(l) \/ \E s \in LoanStatus \ {"CLOSED"} : UpdateLoanStatus(l, s)
  PROVE  StatusInv'
<1>1. /\ UNCHANGED <<payments, disbTxns, reversals, pc, req>>
      /\ TablesOK /\ BooksOK
  BY DEF CreateLoan, UpdateLoanStatus, handler, Known, MoneyInv, RepaymentInv
<1>2. \A m \in Loans : Funded(m) => loan'[m].outstanding = loan[m].outstanding
  BY <1>1, OwedStays
<1>3. /\ \A m \in Loans : m # l => loan'[m] = loan[m]
      /\ loan'[l].status # "CLOSED"
  BY <1>1 DEF CreateLoan, UpdateLoanStatus, TablesOK
<1>4. \A m \in Loans : StatusBook(m)'
  BY <1>1, <1>3 DEF StatusInv, StatusBook, Funded
<1>5. ASSUME NEW w \in Workers PROVE StatusRead(pc[w], req[w])'
  <2>1. pc[w] = "refund" => req[w].loan \in Loans /\ Funded(req[w].loan)
    BY DEF Known, SerialInv, MoneyInv, HandlerOK, LocalsOK, RefundRequests
  <2>2. pc[w] = "refund" =>
          loan'[req[w].loan].outstanding = loan[req[w].loan].outstanding
    BY <1>2, <2>1
  <2>3. StatusRead(pc[w], req[w])
    BY DEF StatusInv
  <2> QED
    BY <1>1, <2>2, <2>3 DEF StatusRead
<1> QED
  BY <1>4, <1>5 DEF StatusInv

\* No loan exists yet.
LEMMA StatusStarts == Init => StatusInv
BY DEF Init, DatabaseInit, StatusInv, StatusBook, StatusRead, Funded

\* Every step of the system keeps the invariant.
LEMMA StatusStep ==
  ASSUME OneHandler, "CLOSED" \notin PatchStatuses, Serial, Serial', StatusInv,
         [Next]_vars
  PROVE  StatusInv'
<1>1. PICK w : Workers = {w}
  BY DEF OneHandler
<1>2. Known /\ Serial /\ Inv /\ RepaymentInv
  BY DEF Serial, Known
<1>3. CASE UNCHANGED vars \/ \E v \in Workers : Lock(v)
  <2>1. UNCHANGED <<loan, disbTxns, reversals, pc, req>>
    BY <1>3 DEF vars, Lock, tables, handler
  <2> QED
    BY <2>1, StatusStays DEF StatusInv, StatusRead
<1>4. CASE Crash
  <2>1. UNCHANGED <<loan, disbTxns, reversals>> /\ \A v \in Workers : pc'[v] = "idle"
    BY <1>4 DEF Crash, tables
  <2> QED
    BY <2>1, StatusStays DEF StatusInv, StatusRead
<1>5. CASE Arrive(w)
  BY <1>1, <1>2, <1>5, ReadsKeepStatus DEF Arrive, Claims
<1>6. CASE TransactionFails(w)
  BY <1>1, <1>2, <1>6, RollBackKeepsStatus DEF TransactionFails
<1>7. CASE DisburseStep(w) \/ RollbackStep(w) \/ PaymentStep(w)
  <2>1. CASE ClaimDisbursement(w) \/ CheckFunds(w) \/ CompleteDisbursement(w)
             \/ FailDisbursement(w) \/ Compensate(w) \/ ReadActivePayments(w)
             \/ CheckRefundable(w) \/ ReadLastPayment(w) \/ PlanPayment(w)
             \/ ShareOut(w) \/ CheckTransfer(w)
    BY <1>1, <1>2, <2>1, ReadsKeepStatus DEF Claims
  <2>2. CASE CommitDisbursement(w) \/ CommitReversal(w) \/ CommitRefund(w)
             \/ CommitPayment(w)
    BY <1>1, <2>2, CommitsKeepStatus
  <2> QED
    BY <1>7, <2>1, <2>2 DEF DisburseStep, RollbackStep, PaymentStep
<1>8. CASE \E l \in Loans : \/ CreateLoan(l)
                           \/ \E s \in LoanStatus \ {"CLOSED"} : UpdateLoanStatus(l, s)
  BY <1>2, <1>8, LoanChangesKeepStatus
<1> QED
  BY <1>1, <1>3, <1>4, <1>5, <1>6, <1>7, <1>8, PatchAssumption
     DEF Next, Step, Approve, LoanStatus

\* The invariant holds in every state.
LEMMA StatusAlways ==
  ASSUME OneHandler, "CLOSED" \notin PatchStatuses
  PROVE  Spec => [](Serial /\ StatusInv)
<1>1. Serial /\ Serial' /\ StatusInv /\ [Next]_vars => StatusInv'
  BY StatusStep
<1>2. Known /\ RepaymentInv <=> Serial
  BY DEF Serial
<1> QED
  BY <1>1, <1>2, StatusStarts, RepaymentAlways, PTL DEF Spec

\* More installments have no less principal.
LEMMA DueMonotone ==
  ASSUME NEW l \in Loans, NEW T \in SUBSET Installments(l), NEW S \in SUBSET T
  PROVE  Due(l, S) \in Nat /\ Due(l, T) \in Nat /\ Due(l, S) <= Due(l, T)
<1>1. PICK R : R = T \ S
  OBVIOUS
<1>2. R \in SUBSET Installments(l) /\ S \in SUBSET Installments(l) /\ S \cap R = {}
      /\ S \cup R = T
  BY <1>1
<1>3. Due(l, S) \in Nat /\ Due(l, R) \in Nat /\ Due(l, T) \in Nat
  BY <1>2, DueSums
<1>4. Due(l, S \cup R) = Due(l, S) + Due(l, R)
  BY <1>2, DueOfBoth
<1> QED
  BY <1>2, <1>3, <1>4

\* The installments of a loan have no more principal than was lent.
WithinAmount == \A l \in Loans : Due(l, Installments(l)) <= Amount[l]

\* While requests come one at a time, name no amount and patch no status to
\* CLOSED, and installments have principal, no more together than was lent, each
\* installment of a closed loan is paid: one that was refunded is never payable
\* again (the statuses processPayment selects) and keeps its loan open.
THEOREM SerialClosedMeansPaidUp ==
  ASSUME OneHandler, NoAmounts, "CLOSED" \notin PatchStatuses, WithinAmount,
         \A l \in Loans : \A i \in Installments(l) : Principal[l][i] > 0
  PROVE  Spec => []ClosedMeansPaidUp
<1>1. WholeInv /\ StatusInv => ClosedMeansPaidUp
  <2> SUFFICES ASSUME WholeInv, StatusInv, NEW l \in Loans, NEW i \in Installments(l),
                      loan[l].status = "CLOSED", sched[l][i] # "PAID"
               PROVE  FALSE
    BY DEF ClosedMeansPaidUp
  <2>1. Funded(l) /\ loan[l].outstanding = 0 /\ WholeBook(l)
    BY DEF StatusInv, StatusBook, WholeInv
  <2>2. PICK S, T, all : S = PaidOff(l) /\ all = Installments(l) /\ T = all \ {i}
    OBVIOUS
  <2>3. /\ all \in SUBSET Installments(l) /\ i \in all /\ T = all \ {i}
        /\ T \in SUBSET Installments(l) /\ S \in SUBSET T
    BY <2>2 DEF PaidOff
  <2>4. Principal[l][i] \in Nat /\ Due(l, all) = Principal[l][i] + Due(l, T)
    <3>1. \A A \in SUBSET Installments(l) : \A B : B = A \ {i} /\ i \in A =>
            /\ Principal[l][i] \in Nat
            /\ Due(l, A) = Principal[l][i] + Due(l, B)
      BY DueWithout
    <3> QED
      BY <2>3, <3>1
  <2>5. Due(l, S) \in Nat /\ Due(l, T) \in Nat /\ Due(l, S) <= Due(l, T)
    BY <2>3, DueMonotone
  <2>6. Due(l, all) <= Amount[l] /\ Amount[l] \in Nat
    BY <2>2, DatabaseAssumption DEF WithinAmount
  <2>7. Amount[l] = Due(l, S)
    BY <2>1, <2>2, <2>5, <2>6 DEF WholeBook
  <2> QED
    BY <2>4, <2>5, <2>6, <2>7
<1> QED
  BY <1>1, StatusAlways, WholeAlways, PTL

-----------------------------------------------------------------------------
(***************************************************************************)
(* The account of a loan, as LoanAccount describes it.                     *)
(***************************************************************************)
\* What was proved before, and what it rests on.
LoanBooks == Serial /\ WholeInv

\* A loan is created or its status patched, or a commit writes of it; nothing else is
\* written of loans, payments and transactions.
LEMMA BooksChange ==
  ASSUME [Next]_vars
  PROVE  \/ UNCHANGED <<loan, payments, disbTxns, reversals>>
         \/ \E l \in Loans : CreateLoan(l) \/ \E s \in LoanStatus : UpdateLoanStatus(l, s)
         \/ \E w \in Workers : \/ CommitDisbursement(w) \/ CommitReversal(w)
                               \/ CommitRefund(w) \/ CommitPayment(w)
<1>1. ASSUME NEW w \in Workers,
             \/ Arrive(w) \/ Lock(w) \/ TransactionFails(w)
             \/ ClaimDisbursement(w) \/ CheckFunds(w) \/ CompleteDisbursement(w)
             \/ FailDisbursement(w)
      PROVE  UNCHANGED <<loan, payments, disbTxns, reversals>>
  BY <1>1 DEF Arrive, Lock, TransactionFails, ClaimDisbursement, CheckFunds,
              CompleteDisbursement, FailDisbursement, MarkDisbursement,
              StartDisburse, StartRollbackDisbursement, StartRollbackPayment,
              StartPayment, Begin, Continue, RollBack, tables
<1>2. ASSUME NEW w \in Workers,
             \/ Compensate(w) \/ ReadActivePayments(w) \/ CheckRefundable(w)
             \/ ReadLastPayment(w) \/ PlanPayment(w) \/ ShareOut(w)
             \/ CheckTransfer(w)
      PROVE  UNCHANGED <<loan, payments, disbTxns, reversals>>
  BY <1>2 DEF Compensate, ReadActivePayments, CheckRefundable, ReadLastPayment,
              PlanPayment, ShareOut, CheckTransfer, Begin, Continue, RollBack, tables
<1>3. CASE Crash \/ UNCHANGED vars
  BY <1>3 DEF Crash, vars, tables
<1> QED
  BY <1>1, <1>2, <1>3, PatchAssumption
     DEF Next, Step, DisburseStep, RollbackStep, PaymentStep, Approve, LoanStatus

\* While nothing is written, the account is as it was.
LEMMA AccountRests ==
  ASSUME UNCHANGED <<phase, owedBy, standing>>
  PROVE  UNCHANGED Account!account
BY DEF Account!account

\* What concerns other loans stays.
LEMMA OtherAccounts ==
  ASSUME NEW l \in Loans, Untouched(l)
  PROVE  /\ phase' = [phase EXCEPT ![l] = phase'[l]]
         /\ owedBy' = [owedBy EXCEPT ![l] = loan'[l].outstanding]
         /\ standing' = [standing EXCEPT ![l] = standing'[l]]
<1>1. ASSUME NEW m \in Loans, m # l
      PROVE  phase'[m] = phase[m] /\ owedBy'[m] = owedBy[m] /\ standing'[m] = standing[m]
  <2>1. /\ loan'[m] = loan[m] /\ disbTxns'[m] = disbTxns[m]
        /\ reversals'[m] = reversals[m] /\ Completed(m)' = Completed(m)
        /\ \A k \in Completed(m) : payments'[k] = payments[k]
    BY <1>1 DEF Untouched
  <2>2. phase'[m] = phase[m] /\ owedBy'[m] = owedBy[m]
    BY <2>1 DEF phase, owedBy
  <2>3. /\ standing'[m] = [k \in Completed(m)' |-> payments'[k].principal]
        /\ standing[m] = [k \in Completed(m) |-> payments[k].principal]
    BY DEF standing
  <2>4. standing'[m] = standing[m]
    BY <2>1, <2>3
  <2> QED
    BY <2>2, <2>4
<1>2. owedBy'[l] = loan'[l].outstanding
  BY DEF owedBy
<1>3. /\ DOMAIN phase = Loans /\ DOMAIN phase' = Loans
      /\ phase = [m \in Loans |-> phase[m]] /\ phase' = [m \in Loans |-> phase'[m]]
  BY DEF phase
<1>4. /\ owedBy = [m \in Loans |-> owedBy[m]] /\ owedBy' = [m \in Loans |-> owedBy'[m]]
  BY DEF owedBy
<1>5. /\ standing = [m \in Loans |-> standing[m]]
      /\ standing' = [m \in Loans |-> standing'[m]]
  BY DEF standing
<1> QED
  BY <1>1, <1>2, <1>3, <1>4, <1>5

\* Loans are lent while they have their money.
LEMMA PhaseFunded ==
  ASSUME Inv, NEW l \in Loans, Funded(l)
  PROVE  phase[l] = "lent"
<1>1. disbTxns[l] \in Nat /\ reversals[l] \in Nat /\ disbTxns[l] <= 1
  BY DEF Inv, DisbursementTypeOK, ClaimInv, LedgerInv
<1>2. reversals[l] = 0 /\ disbTxns[l] = 1
  BY <1>1 DEF Funded
<1> QED
  BY <1>2 DEF phase

Phases == \A l \in Loans : Funded(l) => phase[l] = "lent"

LEMMA PhasesOf == Inv => Phases
BY PhaseFunded DEF Phases

\* The commit of a disbursement lends.
LEMMA DisbursementLends ==
  ASSUME NEW w, Workers = {w}, Known, Known', Phases', CommitDisbursement(w)
  PROVE  Account!AccountNext
<1>1. PICK l \in Loans : Disbursed(l) /\ Untouched(l)
  BY DisbursementEffect
<1>2. phase[l] = "none"
  BY <1>1 DEF Disbursed, phase
<1>3. phase'[l] = "lent" /\ loan'[l].outstanding = Amount[l]
  BY <1>1, DatabaseAssumption DEF Disbursed, Phases
<1>4. standing'[l] = standing[l]
  BY <1>1 DEF Disbursed, NothingPaid, standing
<1>5. /\ phase' = [phase EXCEPT ![l] = "lent"]
      /\ owedBy' = [owedBy EXCEPT ![l] = Amount[l]]
      /\ standing' = [standing EXCEPT ![l] = standing[l]]
  BY <1>1, <1>3, <1>4, OtherAccounts
<1>6. standing' = standing
  BY <1>5 DEF standing
<1> QED
  BY <1>2, <1>5, <1>6 DEF Account!AccountNext, Account!Lend

\* The commit of a reversal undoes.
LEMMA ReversalUndoes ==
  ASSUME NEW w, Workers = {w}, Known, Known', Phases, CommitReversal(w)
  PROVE  Account!AccountNext
<1>1. PICK l \in Loans : Reversed(l) /\ Untouched(l)
  BY ReversalEffect
<1>2. Completed(l) = {} /\ PrincipalPaid(l) = 0 /\ Funded(l) /\ Completed(l)' = {}
  BY <1>1 DEF Reversed, NothingPaid
<1>4. phase[l] = "lent"
  BY <1>2 DEF Phases
<1>5. phase'[l] = "undone" /\ loan'[l].outstanding = 0
  <2>1. disbTxns[l] \in Nat /\ disbTxns'[l] \in Nat /\ reversals'[l] \in Nat
    BY DEF Known, Inv, DisbursementTypeOK
  <2>2. disbTxns[l] > reversals[l] /\ ~(disbTxns'[l] > reversals'[l])
    BY <1>1 DEF Reversed, Funded
  <2>3. disbTxns' = disbTxns /\ reversals[l] \in Nat
    BY DEF CommitReversal, Known, Inv, DisbursementTypeOK
  <2>4. reversals'[l] > 0
    BY <2>1, <2>2, <2>3
  <2> QED
    BY <1>1, <2>4 DEF phase, Reversed
<1>6. standing[l] = Account!NoCredit /\ standing'[l] = standing[l]
  BY <1>2 DEF standing, Account!NoCredit
<1>7. /\ phase' = [phase EXCEPT ![l] = "undone"]
      /\ owedBy' = [owedBy EXCEPT ![l] = 0]
      /\ standing' = [standing EXCEPT ![l] = standing[l]]
  BY <1>1, <1>5, <1>6, OtherAccounts
<1>8. standing' = standing
  BY <1>7 DEF standing
<1> QED
  BY <1>4, <1>6, <1>7, <1>8 DEF Account!AccountNext, Account!Undo

\* The commit of a refund takes a credit back.
LEMMA RefundTakesBack ==
  ASSUME NEW w, Workers = {w}, Known, Known', RepaymentInv, Phases, Phases',
         CommitRefund(w)
  PROVE  Account!AccountNext
<1>1. PICK l \in Loans, k \in DOMAIN payments : Refunded(l, k) /\ Untouched(l)
  BY RefundEffect
<1>2. PICK rest : rest = loan[l].outstanding + payments[k].principal
  OBVIOUS
<1>3. /\ Funded(l) /\ Funded(l)' /\ k \in Completed(l)
      /\ Completed(l)' = Completed(l) \ {k} /\ loan'[l].outstanding = rest
      /\ \A j \in Completed(l) : j # k => payments'[j] = payments[j]
  BY <1>1, <1>2 DEF Refunded
<1>4. phase[l] = "lent" /\ phase'[l] = phase[l]
  BY <1>3 DEF Phases
<1>5. [phase EXCEPT ![l] = phase[l]] = phase
  BY DEF phase
<1>6. /\ DOMAIN standing[l] = Completed(l)
      /\ standing'[l] = [j \in Completed(l) \ {k} |-> standing[l][j]]
      /\ standing[l][k] = payments[k].principal /\ owedBy[l] = loan[l].outstanding
  <2>1. /\ standing[l] = [j \in Completed(l) |-> payments[j].principal]
        /\ standing'[l] = [j \in Completed(l)' |-> payments'[j].principal]
    BY DEF standing
  <2>2. /\ DOMAIN standing[l] = Completed(l)
        /\ \A j \in Completed(l) : standing[l][j] = payments[j].principal
    BY <2>1
  <2>3. standing'[l] = [j \in Completed(l) \ {k} |-> payments'[j].principal]
    BY <1>3, <2>1
  <2>4. standing'[l] = [j \in Completed(l) \ {k} |-> standing[l][j]]
    BY <1>3, <2>2, <2>3
  <2> QED
    BY <1>3, <2>2, <2>4 DEF owedBy
<1>7. PICK after : after = [j \in Completed(l) \ {k} |-> standing[l][j]]
  OBVIOUS
<1>8. /\ phase' = phase
      /\ owedBy' = [owedBy EXCEPT ![l] = rest]
      /\ standing' = [standing EXCEPT ![l] = after]
  BY <1>1, <1>3, <1>4, <1>5, <1>6, <1>7, OtherAccounts
<1>9. /\ phase[l] = "lent" /\ k \in DOMAIN standing[l]
      /\ after = Restrict(standing[l], DOMAIN standing[l] \ {k})
      /\ rest = owedBy[l] + standing[l][k]
  BY <1>2, <1>3, <1>4, <1>6, <1>7 DEF Restrict
<1>10. standing' = [standing EXCEPT ![l] = Restrict(standing[l], DOMAIN standing[l] \ {k})]
  BY <1>8, <1>9
<1>11. owedBy' = [owedBy EXCEPT ![l] = owedBy[l] + standing[l][k]]
  BY <1>8, <1>9
<1>12. Account!TakeBack(l)
  BY <1>8, <1>9, <1>10, <1>11 DEF Account!TakeBack, Account!Restrict, Restrict
<1> QED
  BY <1>12 DEF Account!AccountNext

\* The account sums as the tables do.
LEMMA AccountSums ==
  ASSUME NEW f, NEW S
  PROVE  Account!SumFunctionOnSet(f, S) = SumFunctionOnSet(f, S)
<1>1. Account!SumFunctionOnSet(f, S) = (CHOOSE iter : Sums(S, f, iter))[S]
  BY Zenon DEF Account!SumFunctionOnSet, Account!FoldFunctionOnSet,
               Account!MapThenFoldSet, Sums, AnElement
<1> QED
  BY <1>1, SumIsChosen

\* Credits K join those of C.
Grow(old, now, C, K) ==
  /\ IsFiniteSet(C) /\ IsFiniteSet(K) /\ C \cap K = {}
  /\ \A k \in C : old[k] \in Int /\ now[k] = old[k]
  /\ \A k \in K : now[k] \in Int

\* What their sum grows by.
LEMMA CreditsGrow ==
  ASSUME NEW old, NEW now, NEW C, NEW K, Grow(old, now, C, K)
  PROVE  /\ SumFunctionOnSet(old, C) \in Int /\ SumFunctionOnSet(now, K) \in Int
         /\ SumFunctionOnSet(now, C \cup K)
              = SumFunctionOnSet(old, C) + SumFunctionOnSet(now, K)
<1> USE DEF Grow
<1>1. \A k \in C \cup K : now[k] \in Int
  OBVIOUS
<1>2. SumFunctionOnSet(now, C \cup K)
        = SumFunctionOnSet(now, C) + SumFunctionOnSet(now, K)
  BY <1>1, SumOfBoth
<1>3. SumFunctionOnSet(old, C) = SumFunctionOnSet(now, C)
  BY SumAgree
<1>4. SumFunctionOnSet(old, C) \in Int /\ SumFunctionOnSet(now, K) \in Int
  BY SumType
<1> QED
  BY <1>2, <1>3, <1>4

\* What the payments of one commit add to the account of their loan.
CreditOf(l, K, old, now) ==
  /\ DOMAIN old = Completed(l) /\ DOMAIN now = Completed(l) \cup K
  /\ Completed(l) \cap K = {}
  /\ \A k \in Completed(l) : now[k] = old[k]
  /\ \A k \in K : now[k] > 0
  /\ SumFunctionOnSet(now, K) \in Int
  /\ loan'[l].outstanding = loan[l].outstanding - SumFunctionOnSet(now, K)

LEMMA PaymentAdds ==
  ASSUME NEW w, Workers = {w}, Known, Known', RepaymentInv, WholeInv, WholeInv',
         CommitPayment(w),
         \A l \in Loans : \A i \in Installments(l) : Principal[l][i] > 0
  PROVE  \E l \in Loans : /\ Untouched(l) /\ Funded(l) /\ Funded(l)'
                          /\ loan[l].outstanding > 0
                          /\ \E K : CreditOf(l, K, standing[l], standing'[l])
<1>1. PICK l \in Loans : \E r :
        /\ r = req[w] /\ r \in PayRequests(l) /\ Holds("pay", r)
        /\ r.loan = l /\ Paid(l, r) /\ Untouched(l)
  BY PaymentEffect
<1>2. PICK r : Paid(l, r) /\ r \in PayRequests(l)
  BY <1>1
<1>3. PICK old, now, C, K :
        /\ old = standing[l] /\ now = standing'[l] /\ C = Completed(l)
        /\ K = (Len(payments) + 1)..(Len(payments) + Len(r.plan.rows))
  OBVIOUS
<1>4. /\ Funded(l) /\ Funded(l)' /\ loan[l].outstanding > 0
      /\ Completed(l)' = C \cup K
      /\ \A k \in C : payments'[k] = payments[k]
  BY <1>2, <1>3 DEF Paid
<1>5. TablesOK /\ TablesOK' /\ WholeBook(l) /\ WholeBook(l)'
  BY DEF Known, MoneyInv, WholeInv
<1>6. /\ Len(payments) \in Nat /\ C \subseteq 1..Len(payments) /\ IsFiniteSet(C)
      /\ \A k \in C : payments[k].principal \in Int
  BY <1>3, <1>5, PaymentsNumbered DEF Completed, PaymentRows
<1>7. C \cap K = {} /\ IsFiniteSet(K)
  <2>1. Len(r.plan.rows) \in Nat
    BY <1>2, LenProperties DEF PayRequests, Plans
  <2>2. /\ Len(payments) + 1 \in Int /\ Len(payments) + Len(r.plan.rows) \in Int
    BY <1>6, <2>1
  <2>3. IsFiniteSet(K)
    BY <1>3, <2>2, FS_Interval
  <2>4. \A k \in K : k > Len(payments)
    BY <1>3, <1>6, <2>1
  <2>5. \A k \in C : ~(k > Len(payments))
    BY <1>6
  <2>6. C \cap K = {}
    BY <2>4, <2>5
  <2> QED
    BY <2>3, <2>6
<1>8. /\ old = [k \in C |-> payments[k].principal]
      /\ now = [k \in C \cup K |-> payments'[k].principal]
  <2>1. /\ standing[l] = [k \in Completed(l) |-> payments[k].principal]
        /\ standing'[l] = [k \in Completed(l)' |-> payments'[k].principal]
    BY DEF standing
  <2> QED
    BY <1>3, <1>4, <2>1
<1>9. /\ DOMAIN old = C /\ DOMAIN now = C \cup K
      /\ \A k \in C : now[k] = old[k] /\ old[k] \in Int
  BY <1>4, <1>6, <1>8
<1>10. \A k \in K : now[k] \in Int /\ now[k] > 0
  <2>1. \A k \in Completed(l)' : /\ payments'[k].inst \in Installments(l)
                                /\ payments'[k].principal
                                     = Principal[l][payments'[k].inst]
    BY <1>5 DEF WholeBook, PaidOff
  <2>2. \A i \in Installments(l) : Principal[l][i] \in Nat
    BY InstallmentsNumbered
  <2> QED
    BY <1>4, <1>8, <2>1, <2>2
<1>11. /\ PrincipalPaid(l) = SumFunctionOnSet(old, C)
       /\ PrincipalPaid(l)' = SumFunctionOnSet(now, C \cup K)
  <2>1. /\ PrincipalPaid(l) = SumFunctionOnSet(old, DOMAIN old)
        /\ PrincipalPaid(l)' = SumFunctionOnSet(now, DOMAIN now)
    BY <1>3, <1>4, <1>8 DEF PrincipalPaid, SumFunction
  <2> QED
    BY <1>9, <2>1
<1>12. PICK total : total = SumFunctionOnSet(now, K)
  OBVIOUS
<1>13. /\ total \in Int /\ PrincipalPaid(l) \in Int
       /\ PrincipalPaid(l)' = PrincipalPaid(l) + total
  <2>1. Grow(old, now, C, K)
    BY <1>6, <1>7, <1>9, <1>10 DEF Grow
  <2>2. /\ SumFunctionOnSet(old, C) \in Int /\ SumFunctionOnSet(now, K) \in Int
        /\ SumFunctionOnSet(now, C \cup K)
             = SumFunctionOnSet(old, C) + SumFunctionOnSet(now, K)
    BY <2>1, CreditsGrow
  <2> QED
    BY <1>11, <1>12, <2>2
<1>14. loan'[l].outstanding = loan[l].outstanding - total
  <2>1. /\ loan[l].outstanding = Amount[l] - PrincipalPaid(l)
        /\ loan'[l].outstanding = Amount[l] - PrincipalPaid(l)'
    BY <1>4, <1>5 DEF WholeBook
  <2>2. Amount[l] \in Int
    BY DatabaseAssumption
  <2> QED
    BY <1>13, <2>1, <2>2
<1>15. CreditOf(l, K, old, now)
  BY <1>3, <1>7, <1>9, <1>10, <1>12, <1>13, <1>14 DEF CreditOf
<1> QED
  BY <1>1, <1>3, <1>4, <1>15

\* The commit of a payment credits, unless it pays nothing of the principal.
LEMMA PaymentIsCredited ==
  ASSUME NEW w, Workers = {w}, Known, Known', RepaymentInv, WholeInv, WholeInv',
         Phases, Phases', CommitPayment(w),
         \A l \in Loans : \A i \in Installments(l) : Principal[l][i] > 0
  PROVE  Account!AccountNext \/ UNCHANGED <<phase, owedBy, standing>>
<1>1. PICK l \in Loans :
        /\ Untouched(l) /\ Funded(l) /\ Funded(l)' /\ loan[l].outstanding > 0
        /\ \E K : CreditOf(l, K, standing[l], standing'[l])
  BY PaymentAdds
<1>2. PICK K : CreditOf(l, K, standing[l], standing'[l])
  BY <1>1
<1>3. PICK old, now, total :
        /\ old = standing[l] /\ now = standing'[l]
        /\ total = SumFunctionOnSet(now, K)
  OBVIOUS
<1>4. /\ DOMAIN now = DOMAIN old \cup K /\ DOMAIN old \cap K = {}
      /\ \A k \in DOMAIN old : now[k] = old[k]
      /\ \A k \in K : now[k] > 0
      /\ total \in Int
      /\ loan'[l].outstanding = loan[l].outstanding - total
  BY <1>2, <1>3 DEF CreditOf
<1>5. loan[l].outstanding \in Int /\ phase[l] = "lent" /\ phase'[l] = phase[l]
  <2>1. TablesOK
    BY DEF Known, MoneyInv
  <2> QED
    BY <1>1, <2>1 DEF Phases, TablesOK
<1>6. owedBy[l] = loan[l].outstanding
  BY DEF owedBy
<1>7. /\ phase' = phase
      /\ owedBy' = [owedBy EXCEPT ![l] = loan'[l].outstanding]
      /\ standing' = [standing EXCEPT ![l] = now]
  <2>1. [phase EXCEPT ![l] = phase[l]] = phase
    BY DEF phase
  <2> QED
    BY <1>1, <1>3, <1>5, <2>1, OtherAccounts
<1>8. CASE K = {}
  <2>1. total = 0
    BY <1>3, <1>8, SumOfNone
  <2>2. loan'[l].outstanding = loan[l].outstanding
    BY <1>4, <1>5, <2>1
  <2>3. phase' = phase /\ owedBy' = owedBy
    <3>1. [owedBy EXCEPT ![l] = owedBy[l]] = owedBy
      BY DEF owedBy
    <3> QED
      BY <1>6, <1>7, <2>2, <3>1
  <2>4. now = old
    <3>1. /\ old = [k \in DOMAIN old |-> old[k]] /\ now = [k \in DOMAIN now |-> now[k]]
      BY <1>3 DEF standing
    <3> QED
      BY <1>4, <1>8, <3>1
  <2>5. standing' = standing
    BY <1>3, <1>7, <2>4 DEF standing
  <2> QED
    BY <2>3, <2>5
<1>9. CASE K # {}
  <2>1. DOMAIN now \ DOMAIN old = K
    BY <1>4
  <2>2. Account!SumFunctionOnSet(now, K) = total
    BY <1>3, AccountSums
  <2>3. owedBy[l] > 0
    BY <1>1, <1>6
  <2>4. owedBy' = [owedBy EXCEPT ![l] = owedBy[l] - total]
    BY <1>4, <1>6, <1>7
  <2>5. Account!Credit(l)
    BY <1>3, <1>4, <1>5, <1>7, <1>9, <2>1, <2>2, <2>3, <2>4 DEF Account!Credit
  <2> QED
    BY <2>5 DEF Account!AccountNext
<1> QED
  BY <1>8, <1>9

\* A loan is created or its status patched: its account is as it was.
LEMMA LoanChangesRest ==
  ASSUME Known, RepaymentInv, NEW l \in Loans,
         CreateLoan(l) \/ \E s \in LoanStatus : UpdateLoanStatus(l, s)
  PROVE  UNCHANGED <<phase, owedBy, standing>>
<1>1. TablesOK /\ BooksOK
  BY DEF Known, MoneyInv, RepaymentInv
<1>2. /\ UNCHANGED <<payments, disbTxns, reversals>>
      /\ \A m \in Loans : m # l => loan'[m] = loan[m]
      /\ loan'[l].outstanding \in {0, loan[l].outstanding}
  BY <1>1 DEF CreateLoan, UpdateLoanStatus, TablesOK
<1>3. \A m \in Loans : loan'[m].outstanding = loan[m].outstanding
  <2>1. Funded(l) => loan'[l].outstanding = loan[l].outstanding
    BY <1>1, OwedStays
  <2>2. ~Funded(l) => loan[l].outstanding = 0
    BY DEF Known, SerialInv, LoanTable
  <2> QED
    BY <1>2, <2>1, <2>2
<1>4. owedBy' = owedBy
  BY <1>3 DEF owedBy
<1>5. standing' = standing
  <2>1. \A m : Completed(m)' = Completed(m)
    BY <1>2 DEF Completed
  <2>2. /\ standing = [m \in Loans |-> [k \in Completed(m) |-> payments[k].principal]]
        /\ standing' = [m \in Loans |-> [k \in Completed(m)' |-> payments'[k].principal]]
    BY DEF standing
  <2> QED
    BY <1>2, <2>1, <2>2
<1>6. phase' = phase
  BY <1>2 DEF phase
<1> QED
  BY <1>4, <1>5, <1>6

\* Every step of the system is one of the account, or leaves it alone.
LEMMA AccountStep ==
  ASSUME OneHandler, LoanBooks, LoanBooks',
         \A l \in Loans : \A i \in Installments(l) : Principal[l][i] > 0,
         [Next]_vars
  PROVE  [Account!AccountNext]_(Account!account)
<1>1. PICK w : Workers = {w}
  BY DEF OneHandler
<1>2. /\ Known /\ Known' /\ RepaymentInv /\ WholeInv /\ WholeInv'
      /\ Inv /\ Inv'
  BY DEF LoanBooks, Serial, Known
<1>3. Phases /\ Phases'
  BY <1>2, PhasesOf, PTL
<1>4. Account!AccountNext \/ UNCHANGED <<phase, owedBy, standing>>
  <2>1. CASE UNCHANGED <<loan, payments, disbTxns, reversals>>
    BY <2>1 DEF phase, owedBy, standing, Completed
  <2>2. CASE \E l \in Loans : CreateLoan(l) \/ \E s \in LoanStatus : UpdateLoanStatus(l, s)
    BY <1>2, <2>2, LoanChangesRest
  <2>3. CASE CommitDisbursement(w)
    BY <1>1, <1>2, <1>3, <2>3, DisbursementLends
  <2>4. CASE CommitReversal(w)
    BY <1>1, <1>2, <1>3, <2>4, ReversalUndoes
  <2>5. CASE CommitRefund(w)
    BY <1>1, <1>2, <1>3, <2>5, RefundTakesBack
  <2>6. CASE CommitPayment(w)
    BY <1>1, <1>2, <1>3, <2>6, PaymentIsCredited
  <2> QED
    BY <1>1, <2>1, <2>2, <2>3, <2>4, <2>5, <2>6, BooksChange
<1> QED
  BY <1>4, AccountRests

\* Nothing has been lent yet.
LEMMA AccountStarts == Init => Account!AccountInit
<1> SUFFICES ASSUME Init PROVE Account!AccountInit
  OBVIOUS
<1>1. /\ payments = <<>> /\ \A l \in Loans : reversals[l] = 0 /\ disbTxns[l] = 0
      /\ \A l \in Loans : loan[l].outstanding = 0
  BY DEF Init, DatabaseInit
<1>2. \A l : Completed(l) = {}
  BY <1>1 DEF Completed
<1>3. phase = [l \in Loans |-> "none"] /\ owedBy = [l \in Loans |-> 0]
  BY <1>1 DEF phase, owedBy
<1>4. standing = [l \in Loans |-> Account!NoCredit]
  <2>1. standing = [l \in Loans |-> [k \in Completed(l) |-> payments[k].principal]]
    BY DEF standing
  <2>2. \A l \in Loans : [k \in Completed(l) |-> payments[k].principal] = Account!NoCredit
    BY <1>2 DEF Account!NoCredit
  <2> QED
    BY <2>1, <2>2
<1> QED
  BY <1>3, <1>4 DEF Account!AccountInit

\* While requests come one at a time and name no amount, the tables implement the
\* account a borrower would keep (LoanAccount), through the whole life of each loan,
\* whatever statuses clients patch: it is lent once, each payment lowers what is owed
\* by exactly the principal it records, each refund gives exactly that back, and the
\* disbursement is undone only while no payment stands (disburseLoan, processPayment,
\* rollbackPayment and rollbackDisbursement, with failures, lost answers and
\* restarts).
THEOREM SerialLoanAccount ==
  ASSUME OneHandler, NoAmounts,
         \A l \in Loans : \A i \in Installments(l) : Principal[l][i] > 0
  PROVE  Spec => ImplementsLoanAccount
<1>1. Init => Account!AccountInit
  BY AccountStarts
<1>2. /\ LoanBooks /\ LoanBooks' /\ [Next]_vars
      => [Account!AccountNext]_(Account!account)
  BY AccountStep
<1>3. Serial /\ WholeInv <=> LoanBooks
  BY DEF LoanBooks
<1> QED
  BY <1>1, <1>2, <1>3, WholeAlways, PTL
     DEF Spec, ImplementsLoanAccount, Account!AccountSpec
=============================================================================
