----------------------------- MODULE LoanAccount -----------------------------
(***************************************************************************)
(* The account of a loan as a borrower would describe it: money is lent    *)
(* once; while something is owed, each credit lowers it by its amount;     *)
(* taking a credit back restores exactly that amount; lending is undone    *)
(* only when no credit stands, and for good.                               *)
(***************************************************************************)
EXTENDS Integers, Functions

CONSTANTS Loans,
          Amount      \* Amount[l]: what is lent on l

VARIABLES phase,      \* phase[l]: "none", "lent" or "undone"
          owed,       \* owed[l]: what the borrower owes on l
          credits     \* credits[l][k]: the amount of credit k, while it stands

account == <<phase, owed, credits>>

NoCredit == [k \in {} |-> 0]

AccountInit ==
  /\ phase = [l \in Loans |-> "none"]
  /\ owed = [l \in Loans |-> 0]
  /\ credits = [l \in Loans |-> NoCredit]

Lend(l) ==
  /\ phase[l] = "none"
  /\ phase' = [phase EXCEPT ![l] = "lent"]
  /\ owed' = [owed EXCEPT ![l] = Amount[l]]
  /\ UNCHANGED credits

\* One payment may be credited in parts; the credits before it stand.
Credit(l) ==
  LET old   == credits[l]
      now   == credits'[l]
      parts == DOMAIN now \ DOMAIN old
      total == SumFunctionOnSet(now, parts)
  IN
  /\ phase[l] = "lent" /\ owed[l] > 0
  /\ credits' = [credits EXCEPT ![l] = now]
  /\ DOMAIN old \subseteq DOMAIN now /\ \A k \in DOMAIN old : now[k] = old[k]
  /\ parts # {} /\ \A k \in parts : now[k] > 0
  /\ owed' = [owed EXCEPT ![l] = @ - total]
  /\ UNCHANGED phase

TakeBack(l) ==
  /\ phase[l] = "lent"
  /\ \E k \in DOMAIN credits[l] :
       /\ credits' = [credits EXCEPT ![l] = Restrict(@, DOMAIN @ \ {k})]
       /\ owed' = [owed EXCEPT ![l] = @ + credits[l][k]]
  /\ UNCHANGED phase

Undo(l) ==
  /\ phase[l] = "lent" /\ credits[l] = NoCredit
  /\ phase' = [phase EXCEPT ![l] = "undone"]
  /\ owed' = [owed EXCEPT ![l] = 0]
  /\ UNCHANGED credits

AccountNext == \E l \in Loans : Lend(l) \/ Credit(l) \/ TakeBack(l) \/ Undo(l)

AccountSpec == AccountInit /\ [][AccountNext]_account
=============================================================================
