------------------------------ MODULE Waterfall ------------------------------
(***************************************************************************)
(* The arithmetic of PaymentsService.processPayment: how an amount is      *)
(* split between accrued interest, late fees and principal, and how each   *)
(* part is spread over the installments that are due.  All amounts are in  *)
(* parts of a cent.                                                        *)
(*                                                                         *)
(* The code computes with doubles.  What decides anything later on is the  *)
(* error of principalPaid, ((P + I + F) - I) - F in place of P: it is the  *)
(* parameter "e" of Allocate, some parts more or less, with the errors of  *)
(* the sum P and of outstandingPrincipal - principalPaid counted in.  All  *)
(* else is exact, and a proportion of the interest goes down to the part.  *)
(***************************************************************************)
EXTENDS Integers

Lesser(a, b) == IF a <= b THEN a ELSE b
Greater(a, b) == IF a >= b THEN a ELSE b

\* Mutant: fees are paid in full, whatever is left of the amount.
AllocateFeesInFull(amount, interest, fees, principal, e) ==
  LET i == Lesser(amount, interest)
  IN  [interest |-> i, fees |-> fees,
       principal |-> Lesser(amount - i - fees, principal) + e]

\* Interest first, late fees second, principal last.  A difference of equal
\* doubles and the minimum with 0 are exact, and no difference is negative.
Allocate(amount, interest, fees, principal, e) ==
  LET i == Lesser(amount, interest)
      f == Lesser(amount - i, fees)
      p == Lesser(amount - i - f, principal)
  IN  [interest |-> i, fees |-> f,
       principal |-> IF principal = 0 \/ i < interest \/ f < fees THEN 0
                                                                ELSE Greater(p + e, 0)]

Nothing == [interest |-> 0, fees |-> 0, principal |-> 0]

(***************************************************************************)
(* One turn of the loop over the due installments.  "alloc" is what the    *)
(* payment pays, "spread" what earlier turns gave away; the installment    *)
(* has principal p of the total due, late fee "fee", and "before" of its   *)
(* principal was paid by earlier payments.                                 *)
(***************************************************************************)
InterestInFull(alloc, spread, p, due, last) == alloc.interest   \* mutant
InterestByProportion(alloc, spread, p, due, last) ==   \* mutant
  IF due = 0 THEN 0 ELSE (alloc.interest * p) \div due
InterestShare(alloc, spread, p, due, last) ==
  LET left == alloc.interest - spread.interest
  IN  IF left <= 0 THEN 0
      ELSE IF last \/ p = 0 \/ due = 0 THEN left
      ELSE Lesser(left, (alloc.interest * p) \div due)

FeeUnrecorded(alloc, spread, fee) == 0   \* mutant
FeeInFull(alloc, spread, fee) == fee     \* mutant
FeeShare(alloc, spread, fee) ==
  IF fee > 0 /\ spread.fees < alloc.fees
  THEN Lesser(fee, alloc.fees - spread.fees) ELSE 0

PrincipalAfresh(alloc, spread, p, before) ==   \* mutant
  IF spread.principal < alloc.principal
  THEN Lesser(p, alloc.principal - spread.principal) ELSE 0
PrincipalOnUntouched(alloc, spread, p, before) ==   \* mutant
  IF spread.principal < alloc.principal /\ before = 0
  THEN Lesser(p, alloc.principal - spread.principal) ELSE 0
PrincipalShare(alloc, spread, p, before) ==
  IF spread.principal < alloc.principal
  THEN Lesser(p - before, alloc.principal - spread.principal) ELSE 0

Share(alloc, spread, p, due, last, fee, before) ==
  [interest  |-> InterestShare(alloc, spread, p, due, last),
   fees      |-> FeeShare(alloc, spread, fee),
   principal |-> PrincipalShare(alloc, spread, p, before)]

\* What is given away after this turn.
Plus(spread, share) ==
  [interest  |-> spread.interest + share.interest,
   fees      |-> spread.fees + share.fees,
   principal |-> spread.principal + share.principal]

Total(share) == share.interest + share.fees + share.principal
=============================================================================
