------------------------------ MODULE Disbursal ------------------------------
(***************************************************************************)
(* What disbursement promises of a loan, whoever asks for it and whatever  *)
(* fails: one request claims it, that request may pay it out once, and     *)
(* after the claim is settled, with whatever outcome, it never pays.       *)
(***************************************************************************)
EXTENDS Naturals

CONSTANT Loans

VARIABLES claim,   \* claim[l]: "open", "claimed" or "settled"
          paid     \* paid[l]: how often the amount of l was paid out

DisbursalInit ==
  /\ claim = [l \in Loans |-> "open"]
  /\ paid = [l \in Loans |-> 0]

Claim(l) ==
  /\ claim[l] = "open"
  /\ claim' = [claim EXCEPT ![l] = "claimed"]
  /\ UNCHANGED paid

PayOut(l) ==
  /\ claim[l] = "claimed" /\ paid[l] = 0
  /\ paid' = [paid EXCEPT ![l] = 1]
  /\ UNCHANGED claim

Settle(l) ==
  /\ claim[l] = "claimed"
  /\ claim' = [claim EXCEPT ![l] = "settled"]
  /\ UNCHANGED paid

DisbursalNext == \E l \in Loans : Claim(l) \/ PayOut(l) \/ Settle(l)

DisbursalSpec == DisbursalInit /\ [][DisbursalNext]_<<claim, paid>>
=============================================================================
