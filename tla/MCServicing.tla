----------------------------- MODULE MCServicing -----------------------------
(***************************************************************************)
(* One loan of two installments over its whole life, and the state after   *)
(* its disbursement from which runs with two handlers start.               *)
(***************************************************************************)
EXTENDS LoanSystem, TLC

CONSTANTS l1, alice,
          MaxDrift     \* bound on the cents that rounding adds

OwnerDef     == l1 :> alice
AmountDef    == l1 :> 3
PrincipalDef == l1 :> <<2, 1>>
\* A twelfth of a cent at most, where a cent has twelve parts.
ErrorDef     == -1..1
SeedDef      == [a \in Accounts |-> IF a = Platform THEN 3 ELSE 6]

\* l1 was created, approved and disbursed.
Disbursed ==
  /\ loan = [l \in Loans |-> [status |-> "ACTIVE", outstanding |-> Amount[l]]]
  /\ disb = [l \in Loans |-> "COMPLETED"]
  /\ sched = [l \in Loans |-> [i \in Installments(l) |-> "PENDING"]]
  /\ payments = <<>>
  /\ balance = [a \in Accounts |-> IF a = Platform THEN 0 ELSE 9]
  /\ disbTxns = [l \in Loans |-> 1]
  /\ repaid = 0
  /\ reversals = [l \in Loans |-> 0]
  /\ pc = [w \in Workers |-> "idle"]
  /\ req = [w \in Workers |-> NoRequest]
  /\ wants = [w \in Workers |-> <<>>]
  /\ holds = [w \in Workers |-> {}]

ServicingSpec == Disbursed /\ [][Next]_vars

\* Half cents rounded up on both sides of a transfer add money without end;
\* MaxDrift bounds how many cents.
RoundingSpec == Disbursed /\ [][Next /\ Held' <= SumFunction(Seed) + MaxDrift]_vars
LifeSpec == Init /\ [][Next /\ Held' <= SumFunction(Seed) + MaxDrift]_vars
FairServicing == ServicingSpec /\ \A w \in Workers : WF_vars(Step(w))
=============================================================================
