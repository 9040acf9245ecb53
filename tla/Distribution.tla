---------------------------- MODULE Distribution ----------------------------
(***************************************************************************)
(* The loop of processPayment over the due installments, on its own: what  *)
(* the waterfall allocates is spread over any list of installments, with   *)
(* any principal, late fee and earlier payments.                           *)
(***************************************************************************)
EXTENDS Waterfall, Sequences

CONSTANTS Values,      \* the amounts of a payment and its charges
          Error,       \* the errors of doubles
          Dues         \* the lists of due installments

\* An installment: its principal, its late fee, what was paid on it before.
Installment == [p : Nat, fee : Nat, before : Nat]

ASSUME DistributionAssumption ==
  /\ Values \subseteq Nat /\ Error \subseteq Int
  /\ Dues \subseteq Seq(Installment)
  /\ \A due \in Dues : \A n \in DOMAIN due : due[n].before <= due[n].p

VARIABLES alloc,    \* what the payment pays
          principalDue,
          due,      \* the installments
          turn,     \* the next turn of the loop
          spread,   \* what earlier turns gave away
          rows      \* rows[n]: what turn n gave to installment n

loopVars == <<alloc, principalDue, due, turn, spread, rows>>

DistributionInit ==
  /\ \E amount, interest, fees, principal \in Values, e \in Error :
       /\ alloc = Allocate(amount, interest, fees, principal, e)
       /\ principalDue = principal
  /\ due \in Dues
  /\ turn = 1
  /\ spread = Nothing
  /\ rows = <<>>

Turn ==
  LET x == due[turn]
      share == Share(alloc, spread, x.p, principalDue, turn = Len(due),
                     x.fee, x.before)
  IN
  /\ turn <= Len(due)
  /\ spread' = Plus(spread, share)
  /\ rows' = Append(rows, share)
  /\ turn' = turn + 1
  /\ UNCHANGED <<alloc, principalDue, due>>

DistributionSpec == DistributionInit /\ [][Turn]_loopVars /\ WF_loopVars(Turn)

-----------------------------------------------------------------------------
Share3 == [interest : Nat, fees : Nat, principal : Nat]

LoopTypeOK ==
  /\ alloc \in Share3 /\ spread \in Share3
  /\ principalDue \in Nat
  /\ due \in Dues
  /\ turn \in 1..(Len(due) + 1)
  /\ rows \in Seq(Share3)
  /\ Len(rows) = turn - 1

\* No turn gives away more than the payment pays, in any of its parts
\* (distributedInterest, distributedFees, distributedPrincipal).
NeverOverspends ==
  /\ spread.interest <= alloc.interest
  /\ spread.fees <= alloc.fees
  /\ spread.principal <= alloc.principal

\* No installment gets more principal than it still owes, nor a higher fee
\* than it is charged.
WithinInstallment ==
  \A n \in DOMAIN rows : /\ rows[n].principal <= due[n].p - due[n].before
                         /\ rows[n].fees <= due[n].fee

\* When the loop is over, all interest paid is on some installment: the last
\* one takes what rounding and proportions left.
InterestAssigned ==
  turn > Len(due) /\ due # <<>> => spread.interest = alloc.interest

\* Principal fills the oldest installment first: a later one gets principal
\* only when every earlier one is covered.
OldestFirst ==
  \A m, n \in DOMAIN rows :
    m < n /\ rows[n].principal > 0
      => rows[m].principal = due[m].p - due[m].before
=============================================================================
