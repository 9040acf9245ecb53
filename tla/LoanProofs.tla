------------------------------ MODULE LoanProofs ------------------------------
(***************************************************************************)
(* The life of a loan.                                                     *)
(*                                                                         *)
(* A loan is paid out at most once, and disburseLoan implements the        *)
(* abstract disbursal, for any number of loans and handlers, any requests, *)
(* and every failure the model knows.                                      *)
(*                                                                         *)
(* With one handler, that is, while requests come one at a time: a loan    *)
(* without money owes nothing, and payments are dated in the order they    *)
(* were made; for any loans, amounts, dates and failures, and also when    *)
(* the status of a loan is patched at any time.  The code relies on it:    *)
(* with two handlers neither holds.                                        *)
(***************************************************************************)
EXTENDS LoanSystem, DataLemmas

\* The inductive invariant, with the types it needs.
Inv == DisbursementTypeOK /\ ClaimInv

\* The part of the state the invariant speaks about.
shown == <<disb, disbTxns, reversals>>

\* With no request and no row, no claim is held and nothing is paid.
LEMMA InitInv == Init => Inv
BY DEF Init, DatabaseInit, NoRequest, Inv, DisbursementTypeOK, ClaimInv,
       RequestInv, StageInv, OneOwner, LedgerInv, Owns, Disbursing, Undoing,
       Paying, Labels, InTransaction, DisbStatus

-----------------------------------------------------------------------------
(***************************************************************************)
(* Steps that change one handler and no disbursement.  The handler keeps   *)
(* its request or starts one; where it arrives must suit the request.      *)
(***************************************************************************)
Suits(w, label, request) ==
  /\ label \in Labels
  /\ label \in Disbursing \cup Undoing => request.loan \in Loans
  /\ label \in Disbursing => request.op = "disburse"
  /\ label \in Paying => "op" \in DOMAIN request /\ request.op = "pay"
  /\ label = "refund" => request.op = "refund"
  /\ label \in {"funds", "fund", "complete"}
       => pc[w] = "funds" /\ label = "fund" /\ request = req[w]
  /\ label \in Undoing => disb[request.loan] \notin {"NONE", "PENDING"}
  /\ label \in Disbursing \ {"claim"} => Owns(w) /\ request.loan = req[w].loan
  /\ label \in Undoing /\ request.op = "disburse"
       => Owns(w) /\ request.loan = req[w].loan

\* A step that leaves the disbursement rows and their counters alone, and moves
\* one handler, keeps the invariant when the new place of that handler does.
LEMMA Move ==
  ASSUME Inv, NEW w \in Workers, NEW label, NEW request,
         Suits(w, label, request), UNCHANGED shown,
         pc' = [pc EXCEPT ![w] = label],
         req' = [req EXCEPT ![w] = request]
  PROVE  Inv'
<1> USE DEF Inv, ClaimInv, Suits
<1>1. /\ DOMAIN pc = Workers /\ DOMAIN req = Workers
      /\ pc'[w] = label /\ req'[w] = request
      /\ \A v \in Workers \ {w} : pc'[v] = pc[v] /\ req'[v] = req[v]
      /\ disb' = disb /\ disbTxns' = disbTxns /\ reversals' = reversals
  BY DEF Inv, DisbursementTypeOK, shown
<1>2. \A v \in Workers \ {w} : Owns(v)' = Owns(v)
  BY <1>1 DEF Owns
<1>3. Owns(w)' => Owns(w) /\ req'[w].loan = req[w].loan
  BY <1>1 DEF Owns
<1>4. DisbursementTypeOK'
  BY <1>1 DEF DisbursementTypeOK
<1>5. RequestInv'
  BY <1>1 DEF RequestInv
<1>6. StageInv'
  BY <1>1, <1>2, <1>3 DEF StageInv
<1>7. OneOwner'
  BY <1>1, <1>2, <1>3 DEF OneOwner
<1>8. LedgerInv'
  BY <1>1 DEF LedgerInv
<1> QED
  BY <1>4, <1>5, <1>6, <1>7, <1>8

\* A handler that answers leaves nothing behind.
LEMMA AnswerKeeps ==
  ASSUME Inv, NEW w \in Workers, Answer(w), UNCHANGED shown
  PROVE  Inv'
<1>1. pc' = [pc EXCEPT ![w] = "idle"] /\ req' = [req EXCEPT ![w] = NoRequest]
  BY DEF Answer, Goto
<1>2. Suits(w, "idle", NoRequest)
  BY DEF Suits, Labels, Disbursing, Undoing, Paying
<1> QED
  BY <1>1, <1>2, Move

\* The end of a transaction sends disburseLoan to its catch block, whose loan
\* it still owns, and everyone else to the answer.
LEMMA AfterTransactionKeeps ==
  ASSUME Inv, NEW w \in Workers, pc[w] \in InTransaction,
         AfterTransaction(w), UNCHANGED shown
  PROVE  Inv'
<1>1. CASE req[w].op = "disburse"
  <2>1. pc' = [pc EXCEPT ![w] = "fail"] /\ req' = [req EXCEPT ![w] = req[w]]
    BY <1>1 DEF AfterTransaction, Goto, Inv, DisbursementTypeOK
  <2>2. pc[w] \notin Paying /\ pc[w] # "refund"
    BY <1>1 DEF Inv, ClaimInv, RequestInv
  <2>3. Owns(w) /\ req[w].loan \in Loans
    BY <1>1, <2>2 DEF Owns, InTransaction, Disbursing, Undoing, Paying, Inv,
                      DisbursementTypeOK
  <2> QED
    <3>1. Suits(w, "fail", req[w])
      BY <1>1, <2>3 DEF Suits, Labels, Disbursing, Undoing, Paying
    <3> QED
      BY <2>1, <3>1, Move
<1>2. CASE req[w].op # "disburse"
  BY <1>2, AnswerKeeps DEF AfterTransaction
<1> QED
  BY <1>1, <1>2

\* A handler whose transaction rolls back has changed no row.
LEMMA RollBackKeeps ==
  ASSUME Inv, NEW w \in Workers, pc[w] \in InTransaction, RollBack(w)
  PROVE  Inv'
BY AfterTransactionKeeps DEF RollBack, tables, shown

\* Nothing of the invariant changes.
LEMMA StillInv == Inv /\ UNCHANGED <<shown, handler>> => Inv'
BY DEF Inv, DisbursementTypeOK, ClaimInv, RequestInv, StageInv, OneOwner,
       LedgerInv, Owns, shown, handler

-----------------------------------------------------------------------------
(***************************************************************************)
(* The actions of disburseLoan.                                            *)
(***************************************************************************)
LEMMA StartDisburseKeeps ==
  ASSUME Inv, NEW w \in Workers, NEW l \in Loans, StartDisburse(w, l)
  PROVE  Inv'
<1> DEFINE r == [op |-> "disburse", loan |-> l]
<1>1. /\ pc' = [pc EXCEPT ![w] = "claim"] /\ req' = [req EXCEPT ![w] = r]
      /\ UNCHANGED shown
  BY DEF StartDisburse, Begin, Goto, tables, shown
<1>2. Suits(w, "claim", r)
  BY DEF Suits, Labels, Disbursing, Undoing, Paying
<1> HIDE DEF r
<1> QED
  BY <1>1, <1>2, Move

\* The row is created where there was none: nobody else owns the loan.
LEMMA ClaimDisbursementKeeps ==
  ASSUME Inv, NEW w \in Workers, ClaimDisbursement(w)
  PROVE  Inv'
<1> DEFINE l == req[w].loan
<1> USE DEF Inv, ClaimInv, Unclaimed
<1>1. /\ pc[w] = "claim" /\ l \in Loans /\ req[w].op = "disburse"
      /\ disbTxns' = disbTxns /\ reversals' = reversals
  BY DEF ClaimDisbursement, DisbursementTypeOK, RequestInv, Disbursing
<1>2. CASE UNCHANGED disb
  <2>1. Answer(w)
    BY <1>1, <1>2 DEF ClaimDisbursement, DisbursementTypeOK, DisbStatus
  <2> QED
    BY <1>1, <1>2, <2>1, AnswerKeeps DEF shown
<1>3. CASE disb[l] = "NONE" /\ disb' = [disb EXCEPT ![l] = "PENDING"]
  <2>1. /\ \A v \in Workers \ {w} : pc'[v] = pc[v] /\ req'[v] = req[v]
        /\ \/ pc'[w] = "funds" /\ req'[w] = req[w]
           \/ pc'[w] = "idle" /\ req'[w] = NoRequest
        /\ pc' \in [Workers -> Labels] /\ req' = [v \in Workers |-> req'[v]]
    BY <1>1, <1>3 DEF ClaimDisbursement, Goto, Answer, DisbursementTypeOK,
                      Labels, InTransaction
  <2>2. /\ disb'[l] = "PENDING" /\ disbTxns[l] = 0
        /\ \A k \in Loans \ {l} : disb'[k] = disb[k]
    BY <1>1, <1>3 DEF DisbursementTypeOK, LedgerInv
  <2>3. \A v \in Workers : Owns(v) => req[v].loan # l
    BY <1>3 DEF StageInv
  <2>4. /\ \A v \in Workers \ {w} : Owns(v)' = Owns(v)
        /\ Owns(w)' => req'[w].loan = l
    BY <2>1 DEF Owns, Disbursing, Undoing
  <2>5. DisbursementTypeOK'
    BY <1>1, <1>3, <2>1 DEF DisbursementTypeOK, DisbStatus, Disbursing, Undoing
  <2>6. RequestInv'
    BY <1>1, <2>1 DEF RequestInv, Disbursing, Paying
  <2>7. StageInv'
    <3> SUFFICES ASSUME NEW v \in Workers
                 PROVE  LET k == req'[v].loan IN
                   /\ pc'[v] \in {"funds", "fund"}
                        => disb'[k] = "PENDING" /\ disbTxns'[k] = 0
                   /\ pc'[v] = "complete" => disb'[k] = "PENDING" /\ disbTxns'[k] = 1
                   /\ pc'[v] \in Undoing => disb'[k] \notin {"NONE", "PENDING"}
                   /\ Owns(v)' => disb'[k] # "NONE"
      BY DEF StageInv
    <3>1. CASE v = w
      BY <1>1, <2>1, <2>2, <2>4, <3>1 DEF Undoing
    <3>2. CASE v # w
      <4>1. /\ pc'[v] = pc[v] /\ req'[v] = req[v] /\ Owns(v)' = Owns(v)
            /\ pc[v] \in Disbursing \cup Undoing => req[v].loan \in Loans
            /\ Owns(v) => pc[v] \in Disbursing \cup Undoing
            /\ pc[v] \in {"funds", "fund", "complete"} => Owns(v)
        BY <2>1, <2>4, <3>2 DEF DisbursementTypeOK, Owns, Disbursing
      <4>2. pc[v] \in Undoing => req[v].loan # l
        BY <1>3 DEF StageInv
      <4> QED
        BY <1>1, <2>2, <2>3, <4>1, <4>2 DEF StageInv
    <3> QED
      BY <3>1, <3>2
  <2>8. OneOwner'
    BY <2>1, <2>3, <2>4 DEF OneOwner
  <2>9. LedgerInv'
    BY <1>1, <1>3, <2>2 DEF LedgerInv, DisbursementTypeOK
  <2> QED
    BY <2>5, <2>6, <2>7, <2>8, <2>9
<1> QED
  BY <1>2, <1>3 DEF ClaimDisbursement

\* The check of available funds only moves the owner on to its transaction.
LEMMA CheckFundsKeeps ==
  ASSUME Inv, NEW w \in Workers, CheckFunds(w)
  PROVE  Inv'
<1>1. pc[w] = "funds" /\ Owns(w) /\ req[w].loan \in Loans /\ req[w].op = "disburse"
  BY DEF CheckFunds, Inv, DisbursementTypeOK, ClaimInv, RequestInv, Owns,
         Disbursing
<1>2. CASE RollBack(w)
  BY <1>1, <1>2, RollBackKeeps DEF InTransaction
<1>3. CASE Begin(w, "fund", req[w],
             <<AccountRow(Platform), AccountRow(Owner[req[w].loan]),
               LoanRow(req[w].loan)>>)
  <2>1. Suits(w, "fund", req[w])
    BY <1>1 DEF Suits, Labels, InTransaction, Disbursing, Undoing, Paying
  <2> QED
    BY <1>3, <2>1, Move DEF Begin, Goto, tables, shown
<1> QED
  BY <1>2, <1>3 DEF CheckFunds

(***************************************************************************)
(* Steps by which handler w changes the row or the count of a loan k that  *)
(* is past its claim: those of others who refer to k are Undoing it.       *)
(***************************************************************************)
SettlesRow(k) ==
  /\ \A l \in Loans \ {k} : /\ disb'[l] = disb[l]
                           /\ disbTxns'[l] = disbTxns[l]
                           /\ reversals'[l] = reversals[l]
  /\ disb' \in [Loans -> DisbStatus \cup {"NONE"}]
  /\ disbTxns' \in [Loans -> Nat] /\ reversals' \in [Loans -> Nat]
  /\ disb'[k] # "NONE" /\ disb[k] # "NONE"
  /\ disb'[k] = "PENDING" => disb[k] = "PENDING" /\ reversals'[k] = 0
  /\ disb'[k] = "COMPLETED" => disbTxns'[k] = 1 /\ reversals'[k] = 0
  /\ disbTxns'[k] <= 1

GoesOn(w, k, label, request) ==
  /\ label \in {"idle", "fail", "complete", "rollback"}
  /\ label # "idle" => /\ Owns(w) /\ request = req[w] /\ req[w].loan = k
                       /\ req[w].op = "disburse"
  /\ label = "complete" => disb'[k] = "PENDING" /\ disbTxns'[k] = 1
  /\ \A v \in Workers \ {w} :
       pc[v] \in {"funds", "fund", "complete"} => req[v].loan # k

\* A row that exists may get a final status, from the handler that owns the loan
\* or from one that undoes it.
LEMMA Settle ==
  ASSUME Inv, NEW w \in Workers, NEW k \in Loans, NEW label, NEW request,
         pc' = [pc EXCEPT ![w] = label],
         req' = [req EXCEPT ![w] = request],
         SettlesRow(k), GoesOn(w, k, label, request)
  PROVE  Inv'
<1> USE DEF Inv, ClaimInv, SettlesRow, GoesOn
<1>1. /\ pc'[w] = label /\ req'[w] = request
      /\ \A v \in Workers \ {w} : pc'[v] = pc[v] /\ req'[v] = req[v]
      /\ pc' \in [Workers -> Labels] /\ req' = [v \in Workers |-> req'[v]]
  BY DEF DisbursementTypeOK, Labels, InTransaction
<1>2. \A v \in Workers \ {w} : Owns(v)' = Owns(v)
  BY <1>1 DEF Owns
<1>3. Owns(w)' => label # "idle" /\ Owns(w) /\ req'[w] = req[w]
  BY <1>1 DEF Owns, Disbursing, Undoing
<1>4. DisbursementTypeOK'
  BY <1>1 DEF DisbursementTypeOK, Disbursing, Undoing
<1>5. RequestInv'
  BY <1>1 DEF RequestInv, Disbursing, Paying
<1>6. StageInv'
  <2> SUFFICES ASSUME NEW v \in Workers
               PROVE  LET j == req'[v].loan IN
                 /\ pc'[v] \in {"funds", "fund"}
                      => disb'[j] = "PENDING" /\ disbTxns'[j] = 0
                 /\ pc'[v] = "complete" => disb'[j] = "PENDING" /\ disbTxns'[j] = 1
                 /\ pc'[v] \in Undoing => disb'[j] \notin {"NONE", "PENDING"}
                 /\ Owns(v)' => disb'[j] # "NONE"
    BY DEF StageInv
  <2>1. CASE v = w
    BY <1>1, <1>3, <2>1 DEF Undoing
  <2>2. CASE v # w
    <3>1. /\ pc'[v] = pc[v] /\ req'[v] = req[v] /\ Owns(v)' = Owns(v)
          /\ pc[v] \in Disbursing \cup Undoing => req[v].loan \in Loans
          /\ Owns(v) => pc[v] \in Disbursing \cup Undoing
          /\ pc[v] \in {"funds", "fund", "complete"}
               => req[v].loan # k /\ pc[v] \in Disbursing
      BY <1>1, <1>2, <2>2 DEF DisbursementTypeOK, Owns, Disbursing
    <3> QED
      BY <3>1 DEF StageInv
  <2> QED
    BY <2>1, <2>2
<1>7. OneOwner'
  BY <1>1, <1>2, <1>3 DEF OneOwner
<1>8. LedgerInv'
  BY DEF LedgerInv
<1> QED
  BY <1>4, <1>5, <1>6, <1>7, <1>8

\* What handler w may rely on while it owns its loan: nobody else is between
\* the claim and the end of the same loan.
LEMMA OwnerAlone ==
  ASSUME Inv, NEW w \in Workers, Owns(w)
  PROVE  \A v \in Workers \ {w} :
           pc[v] \in {"funds", "fund", "complete"} => req[v].loan # req[w].loan
BY DEF Inv, ClaimInv, OneOwner, Owns, Disbursing

\* The payout finds the row PENDING and the loan unpaid, for its handler owns it.
LEMMA CommitDisbursementKeeps ==
  ASSUME Inv, NEW w \in Workers, CommitDisbursement(w)
  PROVE  Inv'
<1> DEFINE k == req[w].loan
<1>1. /\ pc[w] = "fund" /\ Owns(w) /\ k \in Loans /\ req[w].op = "disburse"
      /\ disb[k] = "PENDING" /\ disbTxns[k] = 0
  BY DEF CommitDisbursement, Inv, DisbursementTypeOK, ClaimInv, RequestInv,
         StageInv, Owns, Disbursing
<1>2. PICK label \in {"complete", "fail"} : pc' = [pc EXCEPT ![w] = label]
  BY DEF CommitDisbursement, Goto
<1>3. /\ req' = [req EXCEPT ![w] = req[w]]
      /\ disb' = disb /\ reversals' = reversals
      /\ disbTxns' = [disbTxns EXCEPT ![k] = disbTxns[k] + 1]
  BY DEF CommitDisbursement, Inv, DisbursementTypeOK
<1>4. /\ disbTxns'[k] = 1 /\ disbTxns' \in [Loans -> Nat]
      /\ \A l \in Loans \ {k} : disbTxns'[l] = disbTxns[l]
  BY <1>1, <1>3 DEF Inv, DisbursementTypeOK
<1>5. /\ reversals'[k] = 0 /\ label \in Labels
      /\ disb' \in [Loans -> DisbStatus \cup {"NONE"}]
      /\ reversals' \in [Loans -> Nat]
  BY <1>1, <1>3 DEF Inv, DisbursementTypeOK, ClaimInv, LedgerInv, Labels
<1>6. \A v \in Workers \ {w} :
        pc[v] \in {"funds", "fund", "complete"} => req[v].loan # k
  BY <1>1, OwnerAlone
<1>7. /\ disb'[k] = "PENDING" /\ label # "idle"
      /\ label \in {"idle", "fail", "complete", "rollback"}
      /\ \A l \in Loans \ {k} : disb'[l] = disb[l] /\ reversals'[l] = reversals[l]
  BY <1>1, <1>2, <1>3
<1> HIDE DEF k
<1>8. req[w].loan = k
  BY DEF k
<1>9. SettlesRow(k) /\ GoesOn(w, k, label, req[w])
  BY <1>1, <1>2, <1>3, <1>4, <1>5, <1>6, <1>7, <1>8 DEF SettlesRow, GoesOn
<1> QED
  BY <1>1, <1>2, <1>3, <1>9, Settle

\* The update to COMPLETED comes from the owner, after its payout.
LEMMA CompleteDisbursementKeeps ==
  ASSUME Inv, NEW w \in Workers, CompleteDisbursement(w)
  PROVE  Inv'
<1> DEFINE k == req[w].loan
<1>1. /\ pc[w] = "complete" /\ Owns(w) /\ k \in Loans
      /\ req[w].op = "disburse"
      /\ disb[k] = "PENDING" /\ disbTxns[k] = 1 /\ reversals[k] = 0
  BY DEF CompleteDisbursement, Inv, DisbursementTypeOK, ClaimInv, RequestInv,
         StageInv, LedgerInv, Owns, Disbursing
<1>2. CASE Continue(w, "rollback")
  <2>1. Suits(w, "rollback", req[w])
    BY <1>1 DEF Suits, Labels, InTransaction, Disbursing, Undoing, Paying
  <2>2. /\ pc' = [pc EXCEPT ![w] = "rollback"]
        /\ req' = [req EXCEPT ![w] = req[w]]
        /\ UNCHANGED shown
    BY <1>2 DEF Continue, Goto, tables, shown, Inv, DisbursementTypeOK
  <2> QED
    BY <2>1, <2>2, Move
<1>3. CASE MarkDisbursement(w, "COMPLETED")
  <2> DEFINE label == IF Answer(w) THEN "idle" ELSE "rollback"
             request == IF Answer(w) THEN NoRequest ELSE req[w]
  <2>1. /\ label \in {"idle", "rollback"}
        /\ pc' = [pc EXCEPT ![w] = label]
        /\ req' = [req EXCEPT ![w] = request]
        /\ label = "rollback" => request = req[w]
    <3>1. CASE Answer(w)
      BY <3>1 DEF Answer, Goto
    <3>2. CASE ~Answer(w) /\ Goto(w, "rollback") /\ UNCHANGED req
      BY <3>2 DEF Goto, Inv, DisbursementTypeOK
    <3>3. CASE ~Answer(w) /\ Continue(w, "rollback")
      BY <3>3 DEF Continue, Goto, Inv, DisbursementTypeOK
    <3> QED
      BY <3>1, <3>2, <3>3 DEF CompleteDisbursement
  <2> HIDE DEF label, request
  <2>2. /\ disbTxns' = disbTxns /\ reversals' = reversals
        /\ disb' = [disb EXCEPT ![k] = "COMPLETED"]
    BY <1>3 DEF MarkDisbursement
  <2>3. /\ disb' \in [Loans -> DisbStatus \cup {"NONE"}]
        /\ disbTxns' \in [Loans -> Nat] /\ reversals' \in [Loans -> Nat]
        /\ disb'[k] = "COMPLETED"
        /\ \A l \in Loans \ {k} : disb'[l] = disb[l]
        /\ label \in Labels
    BY <1>1, <2>1, <2>2 DEF Inv, DisbursementTypeOK, DisbStatus, Labels,
                            InTransaction
  <2>4. \A v \in Workers \ {w} :
          pc[v] \in {"funds", "fund", "complete"} => req[v].loan # k
    BY <1>1, OwnerAlone
  <2>5. req[w].loan = k
    OBVIOUS
  <2> HIDE DEF k
  <2>6. SettlesRow(k) /\ GoesOn(w, k, label, request)
    BY <1>1, <2>1, <2>2, <2>3, <2>4, <2>5 DEF SettlesRow, GoesOn
  <2> QED
    BY <1>1, <2>1, <2>6, Settle
<1> QED
  BY <1>2, <1>3 DEF CompleteDisbursement

\* The update to FAILED comes from the owner, which then lets go of the loan.
LEMMA FailDisbursementKeeps ==
  ASSUME Inv, NEW w \in Workers, FailDisbursement(w)
  PROVE  Inv'
<1> DEFINE k == req[w].loan
<1>1. /\ pc[w] = "fail" /\ Owns(w) /\ k \in Loans /\ disb[k] # "NONE"
      /\ Answer(w) /\ disbTxns[k] <= 1
  BY DEF FailDisbursement, Inv, DisbursementTypeOK, ClaimInv, StageInv,
         LedgerInv, Owns, Disbursing
<1>2. CASE UNCHANGED tables
  BY <1>1, <1>2, AnswerKeeps DEF tables, shown
<1>3. CASE MarkDisbursement(w, "FAILED")
  <2>1. /\ pc' = [pc EXCEPT ![w] = "idle"]
        /\ req' = [req EXCEPT ![w] = NoRequest]
        /\ disbTxns' = disbTxns /\ reversals' = reversals
        /\ disb' = [disb EXCEPT ![k] = "FAILED"]
    BY <1>1, <1>3 DEF Answer, Goto, MarkDisbursement
  <2>2. /\ disb' \in [Loans -> DisbStatus \cup {"NONE"}]
        /\ disbTxns' \in [Loans -> Nat] /\ reversals' \in [Loans -> Nat]
        /\ disb'[k] = "FAILED"
        /\ \A l \in Loans \ {k} : disb'[l] = disb[l]
        /\ "idle" \in Labels
    BY <1>1, <2>1 DEF Inv, DisbursementTypeOK, DisbStatus, Labels
  <2>3. \A v \in Workers \ {w} :
          pc[v] \in {"funds", "fund", "complete"} => req[v].loan # k
    BY <1>1, OwnerAlone
  <2> HIDE DEF k
  <2>4. SettlesRow(k) /\ GoesOn(w, k, "idle", NoRequest)
    BY <1>1, <2>1, <2>2, <2>3 DEF SettlesRow, GoesOn
  <2> QED
    BY <1>1, <2>1, <2>4, Settle
<1> QED
  BY <1>2, <1>3 DEF FailDisbursement

-----------------------------------------------------------------------------
(***************************************************************************)
(* The actions of RollbackService.                                         *)
(***************************************************************************)
LEMMA StartRollbackDisbursementKeeps ==
  ASSUME Inv, NEW w \in Workers, NEW l \in Loans,
         StartRollbackDisbursement(w, l)
  PROVE  Inv'
<1> DEFINE r == [op |-> "rollback", loan |-> l]
<1>1. /\ pc' = [pc EXCEPT ![w] = "activePayments"]
      /\ req' = [req EXCEPT ![w] = r]
      /\ UNCHANGED shown
  BY DEF StartRollbackDisbursement, Begin, Goto, tables, shown
<1>2. Suits(w, "activePayments", r)
  BY DEF StartRollbackDisbursement, Rollbackable, Suits, Labels, InTransaction,
         Disbursing, Undoing, Paying
<1> HIDE DEF r
<1> QED
  BY <1>1, <1>2, Move

\* The next statement of a request whose disbursement is settled.
LEMMA UndoingGoesOn ==
  ASSUME Inv, NEW w \in Workers, pc[w] \in Undoing \cup {"rollback"},
         NEW label \in Undoing, disb[req[w].loan] \notin {"NONE", "PENDING"},
         pc' = [pc EXCEPT ![w] = label], req' = [req EXCEPT ![w] = req[w]],
         UNCHANGED shown
  PROVE  Inv'
<1>1. req[w].loan \in Loans /\ (req[w].op = "disburse" => Owns(w))
  BY DEF Inv, DisbursementTypeOK, Owns, Disbursing
<1>2. Suits(w, label, req[w])
  BY <1>1 DEF Suits, Labels, InTransaction, Disbursing, Undoing, Paying
<1> QED
  BY <1>2, Move

\* The compensation starts only on a row past PENDING, and the owner stays owner.
LEMMA CompensateKeeps ==
  ASSUME Inv, NEW w \in Workers, Compensate(w)
  PROVE  Inv'
<1>1. pc[w] = "rollback" /\ pc[w] \in InTransaction
  BY DEF Compensate, InTransaction
<1>2. CASE RollBack(w)
  BY <1>1, <1>2, RollBackKeeps
<1>3. CASE Rollbackable(req[w].loan) /\ Continue(w, "activePayments")
  <2>1. /\ pc' = [pc EXCEPT ![w] = "activePayments"]
        /\ req' = [req EXCEPT ![w] = req[w]]
        /\ UNCHANGED shown
        /\ disb[req[w].loan] \notin {"NONE", "PENDING"}
    BY <1>3 DEF Continue, Goto, tables, shown, Rollbackable, Inv,
                DisbursementTypeOK
  <2> QED
    BY <1>1, <2>1, UndoingGoesOn DEF Undoing
<1> QED
  BY <1>2, <1>3 DEF Compensate

\* Looking for payments changes no row.
LEMMA ReadActivePaymentsKeeps ==
  ASSUME Inv, NEW w \in Workers, ReadActivePayments(w)
  PROVE  Inv'
<1>1. /\ pc[w] \in Undoing /\ pc[w] \in InTransaction
      /\ disb[req[w].loan] \notin {"NONE", "PENDING"}
  BY DEF ReadActivePayments, InTransaction, Undoing, Inv, ClaimInv, StageInv
<1>2. CASE RollBack(w)
  BY <1>1, <1>2, RollBackKeeps
<1>3. CASE Continue(w, "refundable")
  <2>1. /\ pc' = [pc EXCEPT ![w] = "refundable"]
        /\ req' = [req EXCEPT ![w] = req[w]]
        /\ UNCHANGED shown
    BY <1>3 DEF Continue, Goto, tables, shown, Inv, DisbursementTypeOK
  <2> QED
    BY <1>1, <2>1, UndoingGoesOn DEF Undoing
<1> QED
  BY <1>2, <1>3 DEF ReadActivePayments

\* Looking at the borrower's balance changes no row.
LEMMA CheckRefundableKeeps ==
  ASSUME Inv, NEW w \in Workers, CheckRefundable(w)
  PROVE  Inv'
<1>1. /\ pc[w] \in Undoing /\ pc[w] \in InTransaction
      /\ disb[req[w].loan] \notin {"NONE", "PENDING"}
  BY DEF CheckRefundable, InTransaction, Undoing, Inv, ClaimInv, StageInv
<1>2. CASE RollBack(w)
  BY <1>1, <1>2, RollBackKeeps
<1>3. CASE ~RollBack(w)
  <2>1. /\ pc' = [pc EXCEPT ![w] = "reverse"]
        /\ req' = [req EXCEPT ![w] = req[w]]
        /\ UNCHANGED shown
    BY <1>3 DEF CheckRefundable, Begin, Goto, tables, shown
  <2> QED
    BY <1>1, <2>1, UndoingGoesOn DEF Undoing
<1> QED
  BY <1>2, <1>3

\* The reversal finds the row past PENDING, where it stays.
LEMMA CommitReversalKeeps ==
  ASSUME Inv, NEW w \in Workers, CommitReversal(w)
  PROVE  Inv'
<1> DEFINE k == req[w].loan
<1>1. /\ pc[w] \in Undoing /\ k \in Loans /\ disb[k] \notin {"NONE", "PENDING"}
      /\ disbTxns[k] <= 1 /\ AfterTransaction(w)
  BY DEF CommitReversal, Undoing, Inv, DisbursementTypeOK, ClaimInv, StageInv,
         LedgerInv
<1>2. \A v \in Workers \ {w} :
        pc[v] \in {"funds", "fund", "complete"} => req[v].loan # k
  BY <1>1 DEF Inv, ClaimInv, StageInv
<1>3. SettlesRow(k)
  <2>1. /\ disb' = [disb EXCEPT ![k] = "ROLLED_BACK"]
        /\ reversals' = [reversals EXCEPT ![k] = reversals[k] + 1]
        /\ disbTxns' = disbTxns
    BY DEF CommitReversal
  <2> QED
    BY <1>1, <2>1 DEF SettlesRow, Inv, DisbursementTypeOK, DisbStatus
<1>4. CASE req[w].op = "disburse"
  <2>1. pc' = [pc EXCEPT ![w] = "fail"] /\ req' = [req EXCEPT ![w] = req[w]]
    BY <1>1, <1>4 DEF AfterTransaction, Goto, Inv, DisbursementTypeOK
  <2>2. GoesOn(w, k, "fail", req[w])
    BY <1>1, <1>2, <1>4 DEF GoesOn, Owns
  <2> HIDE DEF k
  <2> QED
    BY <1>1, <1>3, <2>1, <2>2, Settle
<1>5. CASE req[w].op # "disburse"
  <2>1. pc' = [pc EXCEPT ![w] = "idle"] /\ req' = [req EXCEPT ![w] = NoRequest]
    BY <1>1, <1>5 DEF AfterTransaction, Answer, Goto
  <2>2. GoesOn(w, k, "idle", NoRequest)
    BY <1>2 DEF GoesOn
  <2> HIDE DEF k
  <2> QED
    BY <1>1, <1>3, <2>1, <2>2, Settle
<1> QED
  BY <1>4, <1>5

\* A refund does not touch disbursements.
LEMMA StartRollbackPaymentKeeps ==
  ASSUME Inv, NEW w \in Workers, NEW p, StartRollbackPayment(w, p)
  PROVE  Inv'
<1> DEFINE r == [op |-> "refund", payment |-> p, loan |-> payments[p].loan,
                 inst |-> payments[p].inst, principal |-> payments[p].principal,
                 status |-> loan[payments[p].loan].status,
                 outstanding |-> loan[payments[p].loan].outstanding]
<1>1. /\ pc' = [pc EXCEPT ![w] = "refund"]
      /\ req' = [req EXCEPT ![w] = r]
      /\ UNCHANGED shown
  BY DEF StartRollbackPayment, Begin, Goto, tables, shown
<1>2. Suits(w, "refund", r)
  BY DEF Suits, Labels, InTransaction, Disbursing, Undoing, Paying
<1> HIDE DEF r
<1> QED
  BY <1>1, <1>2, Move

\* Neither does its commit.
LEMMA CommitRefundKeeps ==
  ASSUME Inv, NEW w \in Workers, CommitRefund(w)
  PROVE  Inv'
BY AfterTransactionKeeps DEF CommitRefund, InTransaction, shown

-----------------------------------------------------------------------------
(***************************************************************************)
(* The actions of PaymentsService: a payment stays a payment.              *)
(***************************************************************************)
LEMMA PayingGoesOn ==
  ASSUME Inv, NEW w \in Workers, NEW label \in Paying, NEW request,
         NEW rows, "op" \in DOMAIN request, request.op = "pay",
         Begin(w, label, request, rows)
  PROVE  Inv'
<1>1. Suits(w, label, request)
  BY DEF Suits, Labels, InTransaction, Disbursing, Undoing, Paying
<1> QED
  BY <1>1, Move DEF Begin, Goto, tables, shown

\* A payment does not touch disbursements.
LEMMA StartPaymentKeeps ==
  ASSUME Inv, NEW w \in Workers, NEW l, NEW day, NEW amount,
         StartPayment(w, l, day, amount)
  PROVE  Inv'
<1> DEFINE r == [op |-> "pay", loan |-> l, day |-> day, amount |-> amount,
                 outstanding |-> loan[l].outstanding, last |-> 0,
                 plan |-> NoPlan]
<1>1. Begin(w, "lastPayment", r, <<>>)
  BY DEF StartPayment
<1>2. "op" \in DOMAIN r /\ r.op = "pay"
  OBVIOUS
<1> HIDE DEF r
<1> QED
  BY <1>1, <1>2, PayingGoesOn DEF Paying

\* Neither do its later steps.
LEMMA PaymentStepKeeps ==
  ASSUME Inv, NEW w \in Workers, PaymentStep(w)
  PROVE  Inv'
<1>1. ASSUME pc[w] \in Paying
      PROVE  /\ pc[w] \in InTransaction
             /\ "op" \in DOMAIN req[w] /\ req[w].op = "pay"
             /\ \A x : LET r == [req[w] EXCEPT !.last = x]
                      IN  "op" \in DOMAIN r /\ r.op = "pay"
             /\ \A x : LET r == [req[w] EXCEPT !.plan = x]
                      IN  "op" \in DOMAIN r /\ r.op = "pay"
  BY <1>1 DEF Inv, ClaimInv, RequestInv, Paying, InTransaction
<1>2. CASE ReadLastPayment(w)
  BY <1>1, <1>2, RollBackKeeps, PayingGoesOn DEF ReadLastPayment, Paying
<1>3. CASE PlanPayment(w)
  BY <1>1, <1>3, PayingGoesOn DEF PlanPayment, Paying
<1>4. CASE ShareOut(w)
  BY <1>1, <1>4, PayingGoesOn DEF ShareOut, Paying
<1>5. CASE CheckTransfer(w)
  BY <1>1, <1>5, RollBackKeeps, PayingGoesOn DEF CheckTransfer, Paying
<1>6. CASE CommitPayment(w)
  BY <1>1, <1>6, AfterTransactionKeeps DEF CommitPayment, Paying, shown
<1> QED
  BY <1>2, <1>3, <1>4, <1>5, <1>6 DEF PaymentStep

-----------------------------------------------------------------------------
\* Every step of the system keeps the invariant.
LEMMA NextInv == Inv /\ [Next]_vars => Inv'
<1> SUFFICES ASSUME Inv, [Next]_vars PROVE Inv'
  OBVIOUS
<1>1. ASSUME NEW w \in Workers, Arrive(w) PROVE Inv'
  BY <1>1, StartDisburseKeeps, StartRollbackDisbursementKeeps,
     StartRollbackPaymentKeeps, StartPaymentKeeps DEF Arrive
<1>2. ASSUME NEW w \in Workers, Step(w) PROVE Inv'
  <2>1. CASE Lock(w)
    BY <2>1, StillInv DEF Lock, tables, shown
  <2>2. CASE TransactionFails(w)
    BY <2>2, RollBackKeeps DEF TransactionFails
  <2>3. CASE DisburseStep(w)
    BY <2>3, ClaimDisbursementKeeps, CheckFundsKeeps, CommitDisbursementKeeps,
       CompleteDisbursementKeeps, FailDisbursementKeeps DEF DisburseStep
  <2>4. CASE RollbackStep(w)
    BY <2>4, CompensateKeeps, ReadActivePaymentsKeeps, CheckRefundableKeeps,
       CommitReversalKeeps, CommitRefundKeeps DEF RollbackStep
  <2>5. CASE PaymentStep(w)
    BY <2>5, PaymentStepKeeps
  <2> QED
    BY <1>2, <2>1, <2>2, <2>3, <2>4, <2>5 DEF Step
<1>3. ASSUME NEW l \in Loans, CreateLoan(l) PROVE Inv'
  BY <1>3, StillInv DEF CreateLoan, shown, locks
<1>4. ASSUME NEW l \in Loans, NEW s, UpdateLoanStatus(l, s) PROVE Inv'
  BY <1>4, StillInv DEF UpdateLoanStatus, shown, locks
<1>5. CASE Crash
  <2>1. /\ pc' = [w \in Workers |-> "idle"]
        /\ req' = [w \in Workers |-> NoRequest]
        /\ disb' = disb /\ disbTxns' = disbTxns /\ reversals' = reversals
    BY <1>5 DEF Crash, tables
  <2> QED
    BY <2>1 DEF Inv, DisbursementTypeOK, ClaimInv, RequestInv, StageInv,
                OneOwner, LedgerInv, Owns, Disbursing, Undoing, Paying, Labels
<1>6. CASE UNCHANGED vars
  BY <1>6, StillInv DEF vars, shown, handler
<1> QED
  BY <1>1, <1>2, <1>3, <1>4, <1>5, <1>6 DEF Next, Approve

\* The types of what a disbursement reads and writes, and the reasons why a loan
\* is funded once, hold in every state (disburseLoan and rollbackDisbursement).
THEOREM InvHolds == Spec => []Inv
BY InitInv, NextInv, PTL DEF Spec

\* The disbursement rows, their counts and the handlers' labels have their
\* types in every reachable state.
THEOREM DisbursementTypes == Spec => []DisbursementTypeOK
<1>1. Inv => DisbursementTypeOK
  BY DEF Inv
<1> QED
  BY <1>1, InvHolds, PTL

\* The platform pays a loan out at most once, for any number of concurrent
\* requests and every failure, lost answer and restart (disburseLoan).
THEOREM FundedAtMostOnce == Spec => []FundedOnce
<1>1. Inv => FundedOnce
  BY DEF Inv, ClaimInv, LedgerInv, FundedOnce
<1> QED
  BY <1>1, InvHolds, PTL

\* A loan is claimed by one request, which alone pays it and settles its row;
\* who undoes a disbursement has read that its row is past PENDING.
THEOREM ClaimedByOne == Spec => []ClaimInv
<1>1. Inv => ClaimInv
  BY DEF Inv
<1> QED
  BY <1>1, InvHolds, PTL

\* A disbursement shown COMPLETED has paid and was not taken back.
THEOREM CompletedHasPaid == Spec => []CompletedMeansPaid
<1>1. Inv => CompletedMeansPaid
  BY DEF Inv, ClaimInv, LedgerInv, CompletedMeansPaid
<1> QED
  BY <1>1, InvHolds, PTL

-----------------------------------------------------------------------------
(***************************************************************************)
(* Refinement: each step is a claim, a payout, a settlement or a stutter   *)
(* of the abstract disbursal.                                              *)
(***************************************************************************)
LEMMA InitRefines == Init => Promise!DisbursalInit
BY DEF Init, DatabaseInit, Promise!DisbursalInit, claim

\* What is not written stays as it is in the abstract state.
LEMMA Stutters == UNCHANGED <<disb, disbTxns>> => UNCHANGED <<claim, disbTxns>>
BY DEF claim

\* A step that writes the row of one loan, which stays settled or becomes so.
LEMMA SettleRefines ==
  ASSUME Inv, NEW k \in Loans, NEW status \in DisbStatus \ {"PENDING"},
         disb[k] # "NONE", disb' = [disb EXCEPT ![k] = status],
         UNCHANGED disbTxns
  PROVE  Promise!Settle(k) \/ UNCHANGED <<claim, disbTxns>>
<1>1. /\ disb'[k] = status /\ DOMAIN disb = Loans
      /\ \A l \in Loans \ {k} : disb'[l] = disb[l]
  BY DEF Inv, DisbursementTypeOK
<1>2. claim'[k] = "settled" /\ \A l \in Loans \ {k} : claim'[l] = claim[l]
  BY <1>1 DEF claim, DisbStatus
<1>3. CASE disb[k] = "PENDING"
  <2>1. claim[k] = "claimed"
    BY <1>3 DEF claim
  <2>2. claim' = [claim EXCEPT ![k] = "settled"]
    BY <1>2 DEF claim
  <2> QED
    BY <2>1, <2>2 DEF Promise!Settle
<1>4. CASE disb[k] # "PENDING"
  <2>1. claim[k] = "settled"
    BY <1>4 DEF claim
  <2>2. claim' = claim
    BY <1>2, <2>1 DEF claim
  <2> QED
    BY <2>2
<1> QED
  BY <1>3, <1>4

\* The INSERT of disburseLoan is the abstract claim, or a stutter when it fails.
LEMMA ClaimRefines ==
  ASSUME Inv, NEW w \in Workers, ClaimDisbursement(w)
  PROVE  Promise!Claim(req[w].loan) \/ UNCHANGED <<claim, disbTxns>>
<1> DEFINE k == req[w].loan
<1>1. k \in Loans /\ disbTxns' = disbTxns
  BY DEF ClaimDisbursement, Inv, DisbursementTypeOK, Disbursing
<1>2. CASE UNCHANGED disb
  BY <1>1, <1>2, Stutters
<1>3. CASE disb[k] = "NONE" /\ disb' = [disb EXCEPT ![k] = "PENDING"]
  <2>1. disb'[k] = "PENDING" /\ \A l \in Loans \ {k} : disb'[l] = disb[l]
    BY <1>1, <1>3 DEF Inv, DisbursementTypeOK
  <2>2. /\ claim[k] = "open" /\ claim'[k] = "claimed"
        /\ \A l \in Loans \ {k} : claim'[l] = claim[l]
    BY <1>1, <1>3, <2>1 DEF claim
  <2>3. claim' = [claim EXCEPT ![k] = "claimed"]
    BY <1>1, <2>2 DEF claim
  <2> QED
    BY <1>1, <2>2, <2>3 DEF Promise!Claim
<1> QED
  BY <1>2, <1>3 DEF ClaimDisbursement, Unclaimed

\* The commit of disburseLoan is the abstract payout.
LEMMA CommitRefines ==
  ASSUME Inv, NEW w \in Workers, CommitDisbursement(w)
  PROVE  Promise!PayOut(req[w].loan)
<1> DEFINE k == req[w].loan
<1>1. k \in Loans /\ disb[k] = "PENDING" /\ disbTxns[k] = 0
  BY DEF CommitDisbursement, Inv, DisbursementTypeOK, ClaimInv, StageInv,
         Disbursing
<1>2. disbTxns' = [disbTxns EXCEPT ![k] = 1] /\ disb' = disb
  BY <1>1 DEF CommitDisbursement
<1>3. claim[k] = "claimed" /\ claim' = claim
  BY <1>1, <1>2 DEF claim
<1> QED
  BY <1>1, <1>2, <1>3 DEF Promise!PayOut

\* Every step of the system is a step of the abstract disbursal or a stutter.
LEMMA NextRefines ==
  Inv /\ [Next]_vars => [Promise!DisbursalNext]_<<claim, disbTxns>>
<1> SUFFICES ASSUME Inv, [Next]_vars
             PROVE  \/ Promise!DisbursalNext
                    \/ UNCHANGED <<claim, disbTxns>>
  OBVIOUS
<1>1. CASE \E w \in Workers : ClaimDisbursement(w)
  <2>1. PICK w \in Workers : ClaimDisbursement(w)
    BY <1>1
  <2>2. req[w].loan \in Loans
    BY <2>1 DEF ClaimDisbursement, Inv, DisbursementTypeOK, Disbursing
  <2> QED
    BY <2>1, <2>2, ClaimRefines DEF Promise!DisbursalNext
<1>2. CASE \E w \in Workers : CommitDisbursement(w)
  <2>1. PICK w \in Workers : CommitDisbursement(w)
    BY <1>2
  <2>2. req[w].loan \in Loans
    BY <2>1 DEF CommitDisbursement, Inv, DisbursementTypeOK, Disbursing
  <2> QED
    BY <2>1, <2>2, CommitRefines DEF Promise!DisbursalNext
<1>3. ASSUME NEW w \in Workers,
             \/ CompleteDisbursement(w)
             \/ FailDisbursement(w)
             \/ CommitReversal(w)
      PROVE  Promise!DisbursalNext \/ UNCHANGED <<claim, disbTxns>>
  <2> DEFINE k == req[w].loan
  <2>1. k \in Loans /\ disb[k] # "NONE" /\ disbTxns' = disbTxns
    BY <1>3 DEF CompleteDisbursement, FailDisbursement, CommitReversal,
                MarkDisbursement, Continue, tables, Inv, DisbursementTypeOK,
                ClaimInv, StageInv, Owns, Disbursing, Undoing
  <2>2. \/ UNCHANGED disb
        \/ \E status \in DisbStatus \ {"PENDING"} :
             disb' = [disb EXCEPT ![k] = status]
    BY <1>3 DEF CompleteDisbursement, FailDisbursement, CommitReversal,
                MarkDisbursement, Continue, tables, DisbStatus
  <2> HIDE DEF k
  <2> QED
    BY <2>1, <2>2, SettleRefines, Stutters DEF Promise!DisbursalNext
<1>4. CASE UNCHANGED <<disb, disbTxns>>
  BY <1>4, Stutters
<1>5. ASSUME NEW w \in Workers, PaymentStep(w)
      PROVE  UNCHANGED <<disb, disbTxns>>
  BY <1>5 DEF PaymentStep, ReadLastPayment, PlanPayment, ShareOut,
              CheckTransfer, CommitPayment, Begin, RollBack, tables
<1>6. ASSUME NEW w \in Workers, Arrive(w) PROVE UNCHANGED <<disb, disbTxns>>
  BY <1>6 DEF Arrive, StartDisburse, StartRollbackDisbursement,
              StartRollbackPayment, StartPayment, Begin, tables
<1>7. ASSUME NEW w \in Workers,
             \/ Lock(w) \/ TransactionFails(w) \/ CheckFunds(w)
             \/ Compensate(w) \/ ReadActivePayments(w) \/ CheckRefundable(w)
             \/ CommitRefund(w)
      PROVE  UNCHANGED <<disb, disbTxns>>
  BY <1>7 DEF Lock, TransactionFails, CheckFunds, Compensate,
              ReadActivePayments, CheckRefundable, CommitRefund, Begin,
              Continue, RollBack, tables
<1>8. CASE Crash \/ UNCHANGED vars
  BY <1>4, <1>8 DEF Crash, vars, tables
<1>9. CASE \E l \in Loans : CreateLoan(l) \/ \E s : UpdateLoanStatus(l, s)
  BY <1>4, <1>9 DEF CreateLoan, UpdateLoanStatus
<1> QED
  BY <1>1, <1>2, <1>3, <1>4, <1>5, <1>6, <1>7, <1>8, <1>9
     DEF Next, Step, DisburseStep, RollbackStep, Approve

\* disburseLoan implements the abstract disbursal: one claim, at most one
\* payout, and none after the claim is settled.
THEOREM DisbursementRefines == Spec => ImplementsDisbursal
BY InitRefines, InvHolds, NextRefines, PTL
   DEF Spec, ImplementsDisbursal, Promise!DisbursalSpec

-----------------------------------------------------------------------------
(***************************************************************************)
(* Requests one at a time.                                                 *)
(***************************************************************************)
OneHandler == \E w : Workers = {w}

\* A payment is refunded at most once, and stands until then.
IsRow(p) ==
  /\ {"loan", "inst", "day", "status", "refunds"} \subseteq DOMAIN p
  /\ p.loan \in Loans /\ p.day \in Nat
  /\ p.refunds = IF p.status = "COMPLETED" THEN 0 ELSE 1

\* Any payments have a latest one.
Ranked ==
  \A K \in SUBSET DOMAIN payments : K # {} =>
    \E k \in K : \A j \in K : payments[j].day <= payments[k].day

PaymentTable ==
  /\ IsSeq(payments)
  /\ \A k \in DOMAIN payments : IsRow(payments[k])
  /\ Ranked /\ PaymentsInDateOrder

\* A loan that carries no money has nothing to pay and nothing paid.
LoanTable ==
  /\ loan = [l \in Loans |-> [status |-> loan[l].status,
                              outstanding |-> loan[l].outstanding]]
  /\ DOMAIN sched = Loans
  /\ \A l \in Loans :
       /\ reversals[l] <= 1
       /\ disb[l] = "ROLLED_BACK" => ~Funded(l)
       /\ ~Funded(l) => /\ loan[l].outstanding = 0 /\ Completed(l) = {}
                       /\ \A i \in Installments(l) : sched[l][i] = "NONE"

\* What the handler has read still holds.
HandlerOK(w) ==
  LET r == req[w] IN
  /\ pc[w] = "refund" =>
       /\ r.payment \in DOMAIN payments
       /\ payments[r.payment].status = "COMPLETED"
       /\ payments[r.payment].loan = r.loan /\ Funded(r.loan)
  /\ pc[w] \in Undoing => disb[r.loan] = "COMPLETED"
  /\ pc[w] \in {"refundable", "reverse"} => Completed(r.loan) = {}
  /\ pc[w] \in Paying =>
       /\ {"op", "loan", "day", "last", "plan"} \subseteq DOMAIN r
       /\ r.loan \in Loans /\ r.day \in Nat /\ Funded(r.loan)
       /\ pc[w] # "lastPayment" =>
            \A k \in Completed(r.loan) : payments[k].day <= r.day
       /\ pc[w] \in {"share", "pay"} =>
            "rows" \in DOMAIN r.plan /\ IsSeq(r.plan.rows)

SerialInv == PaymentTable /\ LoanTable /\ \A w \in Workers : HandlerOK(w)

-----------------------------------------------------------------------------
\* There are no payments and no requests.
LEMMA SerialStarts == Init => SerialInv
<1> SUFFICES ASSUME Init PROVE SerialInv
  OBVIOUS
<1> USE DEF Init, DatabaseInit
<1>1. payments = <<>> /\ DOMAIN payments = {} /\ IsSeq(payments)
  BY EmptySeq DEF IsSeq
<1>2. \A l \in Loans : Completed(l) = {}
  BY <1>1 DEF Completed
<1>3. PaymentTable
  BY <1>1, <1>2 DEF PaymentTable, Ranked, PaymentsInDateOrder
<1>4. LoanTable
  BY <1>2 DEF LoanTable, Funded
<1>5. \A w \in Workers : HandlerOK(w)
  BY DEF HandlerOK, Undoing, Paying
<1> QED
  BY <1>3, <1>4, <1>5 DEF SerialInv

-----------------------------------------------------------------------------
(***************************************************************************)
(* The table of payments.                                                  *)
(***************************************************************************)

\* Rows may be refunded, but neither their loan nor their date changes.
LEMMA RowsStay ==
  ASSUME PaymentTable, IsSeq(payments'), DOMAIN payments' = DOMAIN payments,
         \A k \in DOMAIN payments :
           /\ IsRow(payments'[k])
           /\ payments'[k].day = payments[k].day
           /\ payments'[k].loan = payments[k].loan
           /\ payments'[k].status = "COMPLETED" => payments[k].status = "COMPLETED"
  PROVE  PaymentTable' /\ \A l : Completed(l)' \subseteq Completed(l)
<1>1. \A l : Completed(l)' \subseteq Completed(l)
  BY DEF Completed
<1>2. Ranked'
  <2> SUFFICES ASSUME NEW K \in SUBSET DOMAIN payments, K # {}
               PROVE  \E k \in K : \A j \in K : payments'[j].day <= payments'[k].day
    BY DEF Ranked
  <2>1. PICK k \in K : \A j \in K : payments[j].day <= payments[k].day
    BY DEF PaymentTable, Ranked
  <2> QED
    BY <2>1
<1>3. PaymentsInDateOrder'
  <2> SUFFICES ASSUME NEW l \in Loans, NEW j \in Completed(l)',
                      NEW k \in Completed(l)', j < k
               PROVE  payments'[j].day <= payments'[k].day
    BY DEF PaymentsInDateOrder
  <2>1. j \in Completed(l) /\ k \in Completed(l)
    BY <1>1
  <2>2. j \in DOMAIN payments /\ k \in DOMAIN payments
    BY <2>1 DEF Completed
  <2> QED
    BY <2>1, <2>2 DEF PaymentTable, PaymentsInDateOrder
<1> QED
  BY <1>1, <1>2, <1>3 DEF PaymentTable

\* New rows of one loan and one date, which is not before the others of the loan.
LEMMA RowsAdded ==
  ASSUME PaymentTable, NEW l \in Loans, NEW day \in Nat, NEW rows, IsSeq(rows),
         \A n \in DOMAIN rows :
           /\ IsRow(rows[n]) /\ rows[n].loan = l /\ rows[n].day = day,
         \A k \in Completed(l) : payments[k].day <= day,
         payments' = payments \o rows
  PROVE  PaymentTable' /\ \A m : m # l => Completed(m)' = Completed(m)
<1> DEFINE n == Len(payments)
<1>1. /\ n \in Nat /\ DOMAIN payments = 1..n
      /\ Len(rows) \in Nat /\ DOMAIN rows = 1..Len(rows)
  BY Indices DEF PaymentTable
<1>2. /\ IsSeq(payments') /\ DOMAIN payments' = 1..(n + Len(rows))
      /\ \A k \in 1..n : payments'[k] = payments[k]
      /\ \A i \in 1..Len(rows) : payments'[n + i] = rows[i]
  BY <1>1, Joined, Indices DEF PaymentTable
<1>3. \A k \in DOMAIN payments' :
        \/ k \in 1..n /\ payments'[k] = payments[k]
        \/ /\ k \notin 1..n /\ k > n /\ IsRow(payments'[k])
           /\ payments'[k].loan = l /\ payments'[k].day = day
  <2> SUFFICES ASSUME NEW k \in 1..(n + Len(rows)), k \notin 1..n
               PROVE  /\ k > n /\ IsRow(payments'[k])
                      /\ payments'[k].loan = l /\ payments'[k].day = day
    BY <1>2
  <2>1. k - n \in 1..Len(rows) /\ n + (k - n) = k /\ k > n
    BY <1>1
  <2>2. payments'[k] = rows[k - n]
    BY <1>2, <2>1
  <2> QED
    BY <1>1, <2>1, <2>2
<1>4. \A k \in DOMAIN payments' : IsRow(payments'[k]) /\ payments'[k].day \in Nat
  BY <1>1, <1>3 DEF PaymentTable, IsRow
<1>5. Ranked'
  <2> SUFFICES ASSUME NEW K \in SUBSET DOMAIN payments', K # {}
               PROVE  \E k \in K : \A j \in K : payments'[j].day <= payments'[k].day
    BY DEF Ranked
  <2> DEFINE Old == K \cap (1..n)
  <2>1. CASE Old = {}
    <3>1. \A k \in K : payments'[k].day = day
      BY <1>3, <2>1
    <3>2. PICK k \in K : TRUE
      OBVIOUS
    <3>3. day <= day
      OBVIOUS
    <3> QED
      BY <3>1, <3>2, <3>3
  <2>2. CASE Old # {}
    <3>1. PICK k \in Old : \A j \in Old : payments[j].day <= payments[k].day
      BY <1>1, <2>2 DEF PaymentTable, Ranked
    <3>2. \A j \in Old : payments'[j].day <= payments'[k].day
      BY <1>2, <3>1
    <3>3. \A j \in K \ Old : payments'[j].day = day
      BY <1>3
    <3>4. k \in K /\ payments'[k].day \in Nat
      BY <1>4
    <3>5. CASE payments'[k].day >= day
      BY <3>2, <3>3, <3>4, <3>5
    <3>6. CASE ~(payments'[k].day >= day) /\ K \ Old # {}
      <4>1. PICK m \in K \ Old : TRUE
        BY <3>6
      <4>2. \A j \in K : payments'[j].day \in Nat
        BY <1>4
      <4>3. ASSUME NEW j \in Old PROVE payments'[j].day <= day
        BY <3>2, <3>4, <3>6, <4>2
      <4>4. \A j \in K : payments'[j].day <= payments'[m].day
        BY <3>3, <4>1, <4>3
      <4> QED
        BY <4>1, <4>4
    <3>7. CASE K \ Old = {}
      BY <3>2, <3>4, <3>7
    <3> QED
      BY <3>5, <3>6, <3>7
  <2> QED
    BY <2>1, <2>2
<1>6. \A m : m # l => Completed(m)' = Completed(m)
  BY <1>1, <1>2, <1>3 DEF Completed
<1>7. PaymentsInDateOrder'
  <2> SUFFICES ASSUME NEW m \in Loans, NEW j \in Completed(m)',
                      NEW k \in Completed(m)', j < k
               PROVE  payments'[j].day <= payments'[k].day
    BY DEF PaymentsInDateOrder
  <2>1. CASE m # l
    BY <1>1, <1>2, <1>6, <2>1 DEF PaymentTable, PaymentsInDateOrder, Completed
  <2>2. CASE m = l
    <3>1. j \in DOMAIN payments' /\ k \in DOMAIN payments'
      BY DEF Completed
    <3>2. j \in 1..n => j \in Completed(l) /\ payments'[j].day = payments[j].day
      BY <1>1, <1>2, <2>2 DEF Completed
    <3>3. k \in 1..n => /\ k \in Completed(l) /\ payments'[k].day = payments[k].day
                        /\ j \in 1..n
      BY <1>1, <1>2, <2>2, <3>1 DEF Completed
    <3>4. CASE k \in 1..n
      BY <3>2, <3>3, <3>4 DEF PaymentTable, PaymentsInDateOrder
    <3>5. CASE k \notin 1..n
      BY <1>3, <3>1, <3>2, <3>5, <1>4
    <3> QED
      BY <3>4, <3>5
  <2> QED
    BY <2>1, <2>2
<1> QED
  BY <1>2, <1>4, <1>5, <1>6, <1>7 DEF PaymentTable

\* The last payment that stands is the latest.
LEMMA LastIsLatest ==
  ASSUME PaymentTable, NEW l
  PROVE  /\ LastPaymentDay(l) \in PaidDays(l)
         /\ \A k \in Completed(l) : payments[k].day <= LastPaymentDay(l)
<1>1. \A k \in Completed(l) : payments[k].day \in Nat
  BY DEF PaymentTable, IsRow, Completed
<1>2. \E d \in PaidDays(l) : \A e \in PaidDays(l) : e <= d
  <2>1. CASE Completed(l) = {}
    BY <2>1 DEF PaidDays
  <2>2. CASE Completed(l) # {}
    <3>1. Completed(l) \in SUBSET DOMAIN payments
      BY DEF Completed
    <3>2. PICK k \in Completed(l) :
            \A j \in Completed(l) : payments[j].day <= payments[k].day
      BY <2>2, <3>1 DEF PaymentTable, Ranked
    <3> QED
      BY <1>1, <3>2 DEF PaidDays
  <2> QED
    BY <2>1, <2>2
<1>3. /\ LastPaymentDay(l) \in PaidDays(l)
      /\ \A e \in PaidDays(l) : e <= LastPaymentDay(l)
  BY <1>2 DEF LastPaymentDay
<1> QED
  BY <1>3 DEF PaidDays

-----------------------------------------------------------------------------
(***************************************************************************)
(* Steps that leave payments and disbursements alone, or that end or begin *)
(* a request that has read nothing of them.                                *)
(***************************************************************************)
seen == <<payments, disb, disbTxns, reversals>>

\* What the handlers have read is as it was.
LEMMA ReadsStay ==
  ASSUME \A w \in Workers : HandlerOK(w), UNCHANGED <<seen, handler>>
  PROVE  \A w \in Workers : HandlerOK(w)'
  BY DEF HandlerOK, Completed, Funded, seen, handler

\* The only handler is where it relies on nothing it has read.
LEMMA NothingRead ==
  ASSUME NEW w, Workers = {w}, DisbursementTypeOK,
         NEW label \in {"idle", "claim", "funds", "fund", "complete",
                        "rollback", "fail"},
         pc' = [pc EXCEPT ![w] = label]
  PROVE  \A v \in Workers : HandlerOK(v)'
  BY DEF DisbursementTypeOK, HandlerOK, Undoing, Paying

\* No loan, and no row a handler looks at, has changed.
LEMMA TablesStay ==
  ASSUME SerialInv, UNCHANGED tables
  PROVE  PaymentTable' /\ LoanTable'
  BY DEF SerialInv, PaymentTable, LoanTable, Ranked, PaymentsInDateOrder,
         Completed, Funded, tables

\* A transaction that rolls back leaves the tables as they were.
LEMMA RollBackKeepsAll ==
  ASSUME NEW w, Workers = {w}, Inv, SerialInv, RollBack(w)
  PROVE  SerialInv'
<1>1. PICK label \in {"idle", "fail"} : pc' = [pc EXCEPT ![w] = label]
  BY DEF RollBack, AfterTransaction, Answer, Goto
<1>2. DisbursementTypeOK
  BY DEF Inv
<1>3. \A v \in Workers : HandlerOK(v)'
  BY <1>1, <1>2, NothingRead
<1>4. PaymentTable' /\ LoanTable'
  BY TablesStay DEF RollBack
<1> QED
  BY <1>3, <1>4 DEF SerialInv

\* A transaction that commits ends the request, or sends disburseLoan to its
\* catch block.
LEMMA CommitEnds ==
  ASSUME NEW w, Workers = {w}, Inv, AfterTransaction(w)
  PROVE  \A v \in Workers : HandlerOK(v)'
<1>1. PICK label \in {"idle", "fail"} : pc' = [pc EXCEPT ![w] = label]
  BY DEF AfterTransaction, Answer, Goto
<1>2. DisbursementTypeOK
  BY DEF Inv
<1> QED
  BY <1>1, <1>2, NothingRead

-----------------------------------------------------------------------------
\* disburseLoan before its compensation: no row becomes ROLLED_BACK, and only a
\* loan whose disbursement is PENDING gets an outstanding amount.
LEMMA DisburseKeepsAll ==
  ASSUME NEW w, Workers = {w}, Inv, SerialInv,
         DisburseStep(w) \/ \E l \in Loans : StartDisburse(w, l)
  PROVE  SerialInv'
<1> USE DEF Inv
<1>1. CASE \E l \in Loans : StartDisburse(w, l)
  <2>1. pc' = [pc EXCEPT ![w] = "claim"] /\ UNCHANGED tables
    BY <1>1 DEF StartDisburse, Begin, Goto
  <2> QED
    BY <2>1, NothingRead, TablesStay DEF SerialInv
<1>2. CASE CheckFunds(w)
  <2>1. CASE RollBack(w)
    BY <2>1, RollBackKeepsAll
  <2>2. CASE ~RollBack(w)
    <3>1. pc' = [pc EXCEPT ![w] = "fund"] /\ UNCHANGED tables
      BY <1>2, <2>2 DEF CheckFunds, Begin, Goto
    <3> QED
      BY <3>1, NothingRead, TablesStay DEF SerialInv
  <2> QED
    BY <2>1, <2>2
<1>3. CASE CommitDisbursement(w)
  <2>0. PICK l : l = req[w].loan
    OBVIOUS
  <2>1. /\ l \in Loans /\ disb[l] = "PENDING"
        /\ disbTxns[l] = 0 /\ reversals[l] = 0
    BY <1>3, <2>0 DEF CommitDisbursement, DisbursementTypeOK, Disbursing,
                      ClaimInv, StageInv, LedgerInv
  <2>2. /\ UNCHANGED <<payments, disb, reversals>>
        /\ disbTxns' = [disbTxns EXCEPT ![l] = disbTxns[l] + 1]
        /\ loan' = [loan EXCEPT ![l] = [status |-> "ACTIVE",
                                        outstanding |-> Amount[l]]]
        /\ \E s : sched' = [sched EXCEPT ![l] = s]
    BY <1>3, <2>0 DEF CommitDisbursement
  <2>3. LoanTable'
    <3>1. /\ DOMAIN disbTxns = Loans /\ DOMAIN loan = Loans /\ DOMAIN sched = Loans
          /\ \A m \in Loans \ {l} : /\ disbTxns'[m] = disbTxns[m]
                                   /\ loan'[m] = loan[m] /\ sched'[m] = sched[m]
          /\ disbTxns'[l] = 1 /\ DOMAIN sched' = Loans
      BY <2>1, <2>2 DEF DisbursementTypeOK, SerialInv, LoanTable
    <3>2. Funded(l)' /\ \A m \in Loans \ {l} : Funded(m)' <=> Funded(m)
      BY <2>1, <2>2, <3>1 DEF Funded
    <3>3. loan' = [m \in Loans |-> [status |-> loan'[m].status,
                                    outstanding |-> loan'[m].outstanding]]
      BY <2>1, <2>2 DEF SerialInv, LoanTable
    <3>4. \A m : Completed(m)' = Completed(m)
      BY <2>2 DEF Completed
    <3> QED
      BY <2>1, <2>2, <3>1, <3>2, <3>3, <3>4 DEF SerialInv, LoanTable
  <2>4. PaymentTable'
    BY <2>2 DEF SerialInv, PaymentTable, Ranked, PaymentsInDateOrder, Completed
  <2>5. PICK label \in {"complete", "fail"} : pc' = [pc EXCEPT ![w] = label]
    BY <1>3 DEF CommitDisbursement, Goto
  <2> QED
    BY <2>3, <2>4, <2>5, NothingRead DEF SerialInv
<1>4. CASE ClaimDisbursement(w) \/ CompleteDisbursement(w) \/ FailDisbursement(w)
  <2> DEFINE l == req[w].loan
  <2>1. l \in Loans
    BY <1>4 DEF ClaimDisbursement, CompleteDisbursement, FailDisbursement,
                DisbursementTypeOK, Disbursing
  <2>2. /\ UNCHANGED <<payments, loan, sched, disbTxns, reversals>>
        /\ \/ UNCHANGED disb
           \/ \E s \in {"PENDING", "COMPLETED", "FAILED"} :
                disb' = [disb EXCEPT ![l] = s]
    BY <1>4 DEF ClaimDisbursement, CompleteDisbursement, FailDisbursement,
                MarkDisbursement, Continue, tables
  <2>3. \A m \in Loans : disb'[m] = "ROLLED_BACK" => disb[m] = "ROLLED_BACK"
    BY <2>1, <2>2 DEF DisbursementTypeOK
  <2>4. LoanTable'
    BY <2>2, <2>3 DEF SerialInv, LoanTable, Completed, Funded
  <2>5. PaymentTable'
    BY <2>2 DEF SerialInv, PaymentTable, Ranked, PaymentsInDateOrder, Completed
  <2>6. PICK label \in {"idle", "funds", "rollback"} :
          pc' = [pc EXCEPT ![w] = label]
    BY <1>4 DEF ClaimDisbursement, CompleteDisbursement, FailDisbursement,
                Continue, Answer, Goto
  <2> QED
    BY <2>4, <2>5, <2>6, NothingRead DEF SerialInv
<1> QED
  BY <1>1, <1>2, <1>3, <1>4 DEF DisburseStep

-----------------------------------------------------------------------------
\* rollbackDisbursement until its commit: the row is COMPLETED, and from its
\* second read on no payment of the loan stands.
LEMMA UndoingKeepsAll ==
  ASSUME NEW w, Workers = {w}, Inv, SerialInv,
         \/ \E l \in Loans : StartRollbackDisbursement(w, l)
         \/ Compensate(w) \/ ReadActivePayments(w) \/ CheckRefundable(w)
  PROVE  SerialInv'
<1>1. CASE RollBack(w)
  BY <1>1, RollBackKeepsAll
<1>2. CASE ~RollBack(w)
  <2>1. UNCHANGED tables
    BY <1>2 DEF StartRollbackDisbursement, Compensate, ReadActivePayments,
                CheckRefundable, Begin, Continue
  <2>2. PICK label \in Undoing :
          /\ pc' = [pc EXCEPT ![w] = label]
          /\ disb[req'[w].loan] = "COMPLETED"
          /\ label \in {"refundable", "reverse"} => Completed(req'[w].loan) = {}
    <3>1. CASE \E l \in Loans : StartRollbackDisbursement(w, l)
      <4>1. PICK l \in Loans : StartRollbackDisbursement(w, l)
        BY <3>1
      <4>2. pc' = [pc EXCEPT ![w] = "activePayments"] /\ req'[w].loan = l
        BY <4>1 DEF StartRollbackDisbursement, Begin, Goto, Inv,
                    DisbursementTypeOK
      <4> QED
        BY <4>1, <4>2 DEF StartRollbackDisbursement, Rollbackable, Undoing
    <3>2. CASE Compensate(w)
      BY <1>2, <3>2 DEF Compensate, Continue, Goto, Rollbackable, Undoing
    <3>3. CASE ReadActivePayments(w)
      <4>1. /\ disb[req[w].loan] = "COMPLETED" /\ req' = req
            /\ pc' = [pc EXCEPT ![w] = "refundable"]
            /\ ~HasActivePayment(req[w].loan)
        BY <1>2, <3>3 DEF ReadActivePayments, Continue, Goto, SerialInv,
                          HandlerOK, Undoing
      <4> QED
        BY <4>1 DEF HasActivePayment, Completed, Undoing
    <3>4. CASE CheckRefundable(w)
      <4>1. /\ disb[req[w].loan] = "COMPLETED" /\ Completed(req[w].loan) = {}
            /\ pc' = [pc EXCEPT ![w] = "reverse"] /\ req'[w] = req[w]
        BY <1>2, <3>4 DEF CheckRefundable, Begin, Goto, SerialInv, HandlerOK,
                          Undoing, Inv, DisbursementTypeOK
      <4> QED
        BY <4>1 DEF Undoing
    <3> QED
      BY <3>1, <3>2, <3>3, <3>4
  <2>3. pc'[w] = label /\ label \notin Paying \cup {"refund"}
    BY <2>2 DEF Inv, DisbursementTypeOK, Undoing, Paying
  <2>4. \A v \in Workers : HandlerOK(v)'
    BY <2>1, <2>2, <2>3 DEF HandlerOK, Completed, tables
  <2> QED
    BY <2>1, <2>4, TablesStay DEF SerialInv
<1> QED
  BY <1>1, <1>2

\* The reversal finds no payment standing and leaves nothing outstanding.
LEMMA ReversalKeepsAll ==
  ASSUME NEW w, Workers = {w}, Inv, SerialInv, CommitReversal(w)
  PROVE  SerialInv'
<1>0. PICK l : l = req[w].loan
  OBVIOUS
<1>1. /\ pc[w] \in Undoing /\ l \in Loans
      /\ disb[l] = "COMPLETED" /\ Completed(l) = {}
  BY <1>0 DEF CommitReversal, SerialInv, HandlerOK, Undoing, Inv, DisbursementTypeOK
<1>2. /\ disb' = [disb EXCEPT ![l] = "ROLLED_BACK"]
      /\ loan' = [loan EXCEPT ![l] = [status |-> "APPROVED", outstanding |-> 0]]
      /\ reversals' = [reversals EXCEPT ![l] = reversals[l] + 1]
      /\ payments' = [k \in DOMAIN payments |->
                       IF payments[k].loan = l
                       THEN [payments[k] EXCEPT !.inst = 0] ELSE payments[k]]
      /\ sched' = [sched EXCEPT ![l] = ScheduleDeleted(l)]
      /\ disbTxns' = disbTxns /\ AfterTransaction(w)
  BY <1>0 DEF CommitReversal
<1>3. PaymentTable' /\ \A m : Completed(m)' \subseteq Completed(m)
  <2>1. Len(payments) \in Nat /\ DOMAIN payments = 1..Len(payments)
    BY Indices DEF SerialInv, PaymentTable
  <2>2. IsSeq(payments') /\ DOMAIN payments' = DOMAIN payments
    BY <1>2, <2>1, FunctionIsSeq
  <2>3. \A k \in DOMAIN payments :
          /\ IsRow(payments'[k])
          /\ payments'[k].day = payments[k].day
          /\ payments'[k].loan = payments[k].loan
          /\ payments'[k].status = payments[k].status
    BY <1>2 DEF SerialInv, PaymentTable, IsRow
  <2> QED
    BY <2>2, <2>3, RowsStay DEF SerialInv
<1>4. LoanTable'
  <2>1. reversals[l] = 0 /\ disbTxns[l] = 1
    BY <1>1 DEF Inv, ClaimInv, LedgerInv
  <2>2. /\ DOMAIN reversals = Loans /\ DOMAIN disb = Loans /\ DOMAIN loan = Loans
        /\ loan'[l] = [status |-> "APPROVED", outstanding |-> 0]
        /\ \A m \in Loans \ {l} : /\ loan'[m] = loan[m] /\ disb'[m] = disb[m]
                                 /\ reversals'[m] = reversals[m]
        /\ reversals'[l] = 1
        /\ DOMAIN sched' = Loans /\ sched'[l] = ScheduleDeleted(l)
        /\ \A m \in Loans \ {l} : sched'[m] = sched[m]
    BY <1>1, <1>2, <2>1 DEF Inv, DisbursementTypeOK, SerialInv, LoanTable
  <2>3. loan' = [m \in Loans |-> [status |-> loan'[m].status,
                                  outstanding |-> loan'[m].outstanding]]
    BY <1>1, <1>2, <2>2 DEF SerialInv, LoanTable
  <2>4. ~Funded(l)' /\ \A m \in Loans \ {l} : Funded(m)' <=> Funded(m)
    BY <1>2, <2>1, <2>2 DEF Funded
  <2>5. \A i \in Installments(l) : sched'[l][i] = "NONE"
    BY <2>2 DEF ScheduleDeleted
  <2>6. Completed(l)' = {}
    BY <1>1, <1>3
  <2> QED
    BY <1>1, <1>3, <2>2, <2>3, <2>4, <2>5, <2>6 DEF SerialInv, LoanTable
<1>5. \A v \in Workers : HandlerOK(v)'
  BY <1>2, CommitEnds
<1> QED
  BY <1>3, <1>4, <1>5 DEF SerialInv

-----------------------------------------------------------------------------
\* rollbackPayment reads a payment that stands, on a loan that carries money.
LEMMA StartRefundKeepsAll ==
  ASSUME NEW w, Workers = {w}, Inv, SerialInv, NEW k \in DOMAIN payments,
         StartRollbackPayment(w, k)
  PROVE  SerialInv'
<1>1. /\ UNCHANGED tables /\ pc'[w] = "refund" /\ req'[w].payment = k
      /\ req'[w].loan = payments[k].loan /\ payments[k].status = "COMPLETED"
  BY DEF StartRollbackPayment, Refundable, Begin, Goto, Inv, DisbursementTypeOK
<1>2. k \in Completed(payments[k].loan) /\ payments[k].loan \in Loans
  BY <1>1 DEF Completed, SerialInv, PaymentTable, IsRow
<1>3. Funded(payments[k].loan)
  BY <1>2 DEF SerialInv, LoanTable
<1>4. \A v \in Workers : HandlerOK(v)'
  BY <1>1, <1>3 DEF HandlerOK, Undoing, Paying, Funded, tables
<1> QED
  BY <1>1, <1>4, TablesStay DEF SerialInv

\* The refund is the first of its payment.
LEMMA RefundKeepsAll ==
  ASSUME NEW w, Workers = {w}, Inv, SerialInv, CommitRefund(w)
  PROVE  SerialInv'
<1>0. PICK k, l : k = req[w].payment /\ l = req[w].loan
  OBVIOUS
<1>1. /\ k \in DOMAIN payments /\ payments[k].status = "COMPLETED"
      /\ payments[k].loan = l /\ Funded(l)
  BY <1>0 DEF CommitRefund, SerialInv, HandlerOK
<1>2. /\ UNCHANGED <<disb, disbTxns, reversals>> /\ AfterTransaction(w)
      /\ \E s, x : loan' = [loan EXCEPT ![l] = [status |-> s, outstanding |-> x]]
      /\ DOMAIN sched' = DOMAIN sched
      /\ \A m \in DOMAIN sched : m # l => sched'[m] = sched[m]
      /\ payments' = [payments EXCEPT
                       ![k] = [payments[k] EXCEPT !.status = "ROLLED_BACK",
                                                  !.refunds = @ + 1]]
  BY <1>0 DEF CommitRefund
<1>3. PaymentTable' /\ \A m : Completed(m)' \subseteq Completed(m)
  <2>1. Len(payments) \in Nat /\ DOMAIN payments = 1..Len(payments)
    BY Indices DEF SerialInv, PaymentTable
  <2>2. IsSeq(payments') /\ DOMAIN payments' = DOMAIN payments
    BY <1>2, <2>1, FunctionIsSeq
  <2>3. \A j \in DOMAIN payments :
          /\ IsRow(payments'[j])
          /\ payments'[j].day = payments[j].day
          /\ payments'[j].loan = payments[j].loan
          /\ payments'[j].status = "COMPLETED" => payments[j].status = "COMPLETED"
    BY <1>1, <1>2 DEF SerialInv, PaymentTable, IsRow
  <2> QED
    BY <2>2, <2>3, RowsStay DEF SerialInv
<1>4. LoanTable'
  <2>1. \A m : Funded(m)' <=> Funded(m)
    BY <1>2 DEF Funded
  <2>2. loan' = [m \in Loans |-> [status |-> loan'[m].status,
                                  outstanding |-> loan'[m].outstanding]]
    BY <1>2 DEF SerialInv, LoanTable
  <2>3. \A m \in Loans : m # l => loan'[m] = loan[m]
    BY <1>2 DEF SerialInv, LoanTable
  <2> QED
    BY <1>1, <1>2, <1>3, <2>1, <2>2, <2>3 DEF SerialInv, LoanTable
<1>5. \A v \in Workers : HandlerOK(v)'
  BY <1>2, CommitEnds
<1> QED
  BY <1>3, <1>4, <1>5 DEF SerialInv

-----------------------------------------------------------------------------
\* processPayment until its commit: the loan carries money, and the payment is
\* dated not before those that stand.
LEMMA StartPaymentKeepsAll ==
  ASSUME NEW w, Workers = {w}, Inv, SerialInv,
         NEW l \in Loans, NEW day \in PayDays, NEW amount,
         StartPayment(w, l, day, amount)
  PROVE  SerialInv'
<1>1. /\ UNCHANGED tables /\ pc'[w] = "lastPayment"
      /\ req'[w] = [op |-> "pay", loan |-> l, day |-> day, amount |-> amount,
                    outstanding |-> loan[l].outstanding, last |-> 0,
                    plan |-> NoPlan]
      /\ loan[l].outstanding > 0
  BY DEF StartPayment, Begin, Goto, Inv, DisbursementTypeOK
<1>2. day \in Nat /\ Funded(l)
  BY <1>1, PaymentsAssumption DEF SerialInv, LoanTable
<1>3. \A v \in Workers : HandlerOK(v)'
  BY <1>1, <1>2 DEF HandlerOK, Undoing, Paying, Funded, tables
<1> QED
  BY <1>1, <1>3, TablesStay DEF SerialInv

\* The next statement of a payment.
LEMMA PaymentGoesOn ==
  ASSUME NEW w, Workers = {w}, Inv, SerialInv, pc[w] \in Paying,
         NEW label \in {"plan", "share", "pay"}, NEW r, NEW rows,
         Begin(w, label, r, rows),
         {"op", "loan", "day", "last", "plan"} \subseteq DOMAIN r,
         r.loan = req[w].loan, r.day = req[w].day,
         \A k \in Completed(r.loan) : payments[k].day <= r.day,
         label # "plan" => "rows" \in DOMAIN r.plan /\ IsSeq(r.plan.rows)
  PROVE  SerialInv'
<1>1. UNCHANGED tables /\ pc'[w] = label /\ req'[w] = r
  BY DEF Begin, Goto, Inv, DisbursementTypeOK
<1>2. r.loan \in Loans /\ r.day \in Nat /\ Funded(r.loan)
  BY DEF SerialInv, HandlerOK
<1>3. \A v \in Workers : HandlerOK(v)'
  BY <1>1, <1>2 DEF HandlerOK, Undoing, Paying, Completed, Funded, tables
<1> QED
  BY <1>1, <1>3, TablesStay DEF SerialInv

\* What the reads and the loop of processPayment keep in its locals.
LEMMA PlanningKeepsAll ==
  ASSUME NEW w, Workers = {w}, Inv, SerialInv,
         ReadLastPayment(w) \/ PlanPayment(w) \/ ShareOut(w) \/ CheckTransfer(w)
  PROVE  SerialInv'
<1> DEFINE r == req[w]
<1>1. /\ pc[w] \in Paying
      /\ {"op", "loan", "day", "last", "plan"} \subseteq DOMAIN r
      /\ pc[w] # "lastPayment" =>
           \A k \in Completed(r.loan) : payments[k].day <= r.day
      /\ pc[w] = "share" => "rows" \in DOMAIN r.plan /\ IsSeq(r.plan.rows)
  BY DEF ReadLastPayment, PlanPayment, ShareOut, CheckTransfer, SerialInv,
         HandlerOK, Paying
<1>2. CASE RollBack(w)
  BY <1>2, RollBackKeepsAll
<1>3. CASE ReadLastPayment(w) /\ ~RollBack(w)
  <2> DEFINE last == LastPaymentDay(r.loan)
             q == [r EXCEPT !.last = last]
  <2>1. ~(r.day < last) /\ Begin(w, "plan", q, <<>>)
    BY <1>3 DEF ReadLastPayment
  <2>2. \A k \in Completed(r.loan) : payments[k].day <= last
    BY LastIsLatest DEF SerialInv
  <2>3. last \in Nat /\ r.day \in Nat
        /\ \A k \in Completed(r.loan) : payments[k].day \in Nat
    <3>1. \A k \in Completed(r.loan) : payments[k].day \in Nat
      BY DEF SerialInv, PaymentTable, IsRow, Completed
    <3>2. PaidDays(r.loan) \subseteq Nat
      BY <3>1 DEF PaidDays
    <3>3. last \in PaidDays(r.loan)
      BY LastIsLatest DEF SerialInv
    <3> QED
      BY <1>1, <3>1, <3>2, <3>3 DEF SerialInv, HandlerOK
  <2> HIDE DEF last
  <2>4. \A k \in Completed(r.loan) : payments[k].day <= r.day
    BY <2>1, <2>2, <2>3
  <2>5. /\ {"op", "loan", "day", "last", "plan"} \subseteq DOMAIN q
        /\ q.loan = r.loan /\ q.day = r.day
    BY <1>1
  <2> HIDE DEF q
  <2> QED
    BY <1>1, <2>1, <2>4, <2>5, PaymentGoesOn
<1>4. CASE PlanPayment(w) /\ ~RollBack(w)
  <2>0. PICK alloc, due, total, amount :
          /\ Begin(w, "share", [r EXCEPT !.plan =
                                [NoPlan EXCEPT !.alloc = alloc,
                                               !.principalDue = total,
                                               !.amount = amount,
                                               !.due = due]], <<>>)
          /\ pc[w] = "plan"
    BY <1>4 DEF PlanPayment
  <2> DEFINE plan == [NoPlan EXCEPT !.alloc = alloc, !.principalDue = total,
                                    !.amount = amount, !.due = due]
  <2>1. /\ Begin(w, "share", [r EXCEPT !.plan = plan], <<>>)
        /\ "rows" \in DOMAIN plan /\ plan.rows = <<>>
        /\ pc[w] = "plan"
    BY <2>0 DEF NoPlan
  <2> HIDE DEF plan
  <2> DEFINE q == [r EXCEPT !.plan = plan]
  <2>2. /\ {"op", "loan", "day", "last", "plan"} \subseteq DOMAIN q
        /\ q.loan = r.loan /\ q.day = r.day /\ q.plan = plan
    BY <1>1
  <2>3. IsSeq(plan.rows)
    BY <2>1, EmptySeq DEF IsSeq
  <2>4. Begin(w, "share", q, <<>>)
    BY <2>1
  <2> HIDE DEF q
  <2> QED
    BY <1>1, <2>1, <2>2, <2>3, <2>4, PaymentGoesOn
<1>5. CASE ShareOut(w)
  <2>1. PICK rows, due, spread, wanted :
          /\ Begin(w, "share", [r EXCEPT !.plan = [r.plan EXCEPT !.due = due,
                                                   !.spread = spread,
                                                   !.rows = rows]], wanted)
          /\ rows = r.plan.rows \/ \E row : rows = Append(r.plan.rows, row)
          /\ pc[w] = "share"
    BY <1>5 DEF ShareOut
  <2> DEFINE plan == [r.plan EXCEPT !.due = due, !.spread = spread, !.rows = rows]
             q == [r EXCEPT !.plan = plan]
  <2>2. "rows" \in DOMAIN plan /\ plan.rows = rows
    BY <1>1, <2>1
  <2>3. IsSeq(rows)
    BY <1>1, <2>1, Extended
  <2>4. Begin(w, "share", q, wanted)
    BY <2>1
  <2> HIDE DEF plan
  <2>5. /\ {"op", "loan", "day", "last", "plan"} \subseteq DOMAIN q
        /\ q.loan = r.loan /\ q.day = r.day /\ q.plan = plan
    BY <1>1
  <2> HIDE DEF q
  <2> QED
    BY <1>1, <2>1, <2>2, <2>3, <2>4, <2>5, PaymentGoesOn
<1>6. CASE CheckTransfer(w) /\ ~RollBack(w)
  <2>1. PICK wanted : Begin(w, "pay", r, wanted) /\ pc[w] = "share"
    BY <1>6 DEF CheckTransfer
  <2> HIDE DEF r
  <2>2. r.loan = req[w].loan /\ r.day = req[w].day
    BY DEF r
  <2> QED
    BY <1>1, <2>1, <2>2, PaymentGoesOn
<1> QED
  BY <1>2, <1>3, <1>4, <1>5, <1>6

\* The commit adds payments of one loan and one date, after those that stand.
LEMMA PaymentKeepsAll ==
  ASSUME NEW w, Workers = {w}, Inv, SerialInv, CommitPayment(w)
  PROVE  SerialInv'
<1>0. PICK r, l : r = req[w] /\ l = r.loan
  OBVIOUS
<1> DEFINE rows == [n \in DOMAIN r.plan.rows |->
                     [loan |-> l, inst |-> r.plan.rows[n].inst, day |-> r.day,
                      principal |-> r.plan.rows[n].principal,
                      status |-> "COMPLETED", refunds |-> 0]]
<1>1. /\ l \in Loans /\ r.day \in Nat /\ Funded(l)
      /\ \A k \in Completed(l) : payments[k].day <= r.day
      /\ IsSeq(r.plan.rows)
  BY <1>0 DEF CommitPayment, SerialInv, HandlerOK, Paying
<1>2. /\ UNCHANGED <<disb, disbTxns, reversals>> /\ AfterTransaction(w)
      /\ \E s, x : loan' = [loan EXCEPT ![l] = [status |-> s, outstanding |-> x]]
      /\ DOMAIN sched' = DOMAIN sched
      /\ \A m \in DOMAIN sched : m # l => sched'[m] = sched[m]
      /\ payments' = payments \o rows
  BY <1>0 DEF CommitPayment
<1>3. IsSeq(rows)
  <2>1. Len(r.plan.rows) \in Nat /\ DOMAIN r.plan.rows = 1..Len(r.plan.rows)
    BY <1>1, Indices
  <2> QED
    BY <2>1, FunctionIsSeq
<1>4. \A n \in DOMAIN rows : IsRow(rows[n]) /\ rows[n].loan = l
                             /\ rows[n].day = r.day
  BY <1>1 DEF IsRow
<1> HIDE DEF rows
<1>5. PaymentTable' /\ \A m : m # l => Completed(m)' = Completed(m)
  BY <1>1, <1>2, <1>3, <1>4, RowsAdded DEF SerialInv
<1>6. LoanTable'
  <2>1. \A m : Funded(m)' <=> Funded(m)
    BY <1>2 DEF Funded
  <2>2. loan' = [m \in Loans |-> [status |-> loan'[m].status,
                                  outstanding |-> loan'[m].outstanding]]
    BY <1>2 DEF SerialInv, LoanTable
  <2>3. \A m \in Loans : m # l => loan'[m] = loan[m]
    BY <1>2 DEF SerialInv, LoanTable
  <2>4. \A m \in Loans : ~Funded(m) =>
          /\ loan'[m].outstanding = 0 /\ Completed(m)' = {}
          /\ \A i \in Installments(m) : sched'[m][i] = "NONE"
    <3> SUFFICES ASSUME NEW m \in Loans, ~Funded(m)
                 PROVE  /\ loan'[m].outstanding = 0 /\ Completed(m)' = {}
                        /\ \A i \in Installments(m) : sched'[m][i] = "NONE"
      OBVIOUS
    <3>1. m # l
      BY <1>1
    <3>2. Completed(m)' = {}
      BY <1>5, <3>1 DEF SerialInv, LoanTable
    <3> QED
      BY <1>2, <2>3, <3>1, <3>2 DEF SerialInv, LoanTable
  <2>5. DOMAIN sched' = Loans /\ UNCHANGED <<disb, reversals>>
    BY <1>2 DEF SerialInv, LoanTable
  <2>6. \A m \in Loans : reversals[m] <= 1 /\ (disb[m] = "ROLLED_BACK" => ~Funded(m))
    BY DEF SerialInv, LoanTable
  <2> QED
    BY <2>1, <2>2, <2>4, <2>5, <2>6 DEF LoanTable
<1>7. \A v \in Workers : HandlerOK(v)'
  BY <1>2, CommitEnds
<1> QED
  BY <1>5, <1>6, <1>7 DEF SerialInv

-----------------------------------------------------------------------------
\* The status of a loan may be patched at any time: no handler looks at it again.
LEMMA LoanChangesKeepAll ==
  ASSUME SerialInv, NEW l \in Loans,
         CreateLoan(l) \/ \E s : UpdateLoanStatus(l, s)
  PROVE  SerialInv'
<1>1. UNCHANGED <<payments, disb, sched, disbTxns, reversals, handler>>
  BY DEF CreateLoan, UpdateLoanStatus
<1>2. \E s : \/ loan' = [loan EXCEPT ![l] = [status |-> s, outstanding |-> 0]]
           \/ loan' = [loan EXCEPT ![l].status = s]
  BY DEF CreateLoan, UpdateLoanStatus
<1>3. LoanTable'
  <2>1. LoanTable
    BY DEF SerialInv
  <2>2. \A m \in Loans : Completed(m)' = Completed(m) /\ (Funded(m)' <=> Funded(m))
    BY <1>1 DEF Completed, Funded
  <2>3. loan = [m \in Loans |-> [status |-> loan[m].status,
                                 outstanding |-> loan[m].outstanding]]
    BY <2>1 DEF LoanTable
  <2>4. /\ loan' = [m \in Loans |-> [status |-> loan'[m].status,
                                     outstanding |-> loan'[m].outstanding]]
        /\ \A m \in Loans : loan'[m].outstanding \in {0, loan[m].outstanding}
    <3>1. CASE \E s : loan' = [loan EXCEPT ![l] = [status |-> s, outstanding |-> 0]]
      BY <2>3, <3>1
    <3>2. CASE \E s : loan' = [loan EXCEPT ![l].status = s]
      BY <2>3, <3>2
    <3> QED
      BY <1>2, <3>1, <3>2
  <2> QED
    BY <1>1, <2>1, <2>2, <2>4 DEF LoanTable
<1>4. PaymentTable'
  BY <1>1 DEF SerialInv, PaymentTable, Ranked, PaymentsInDateOrder, Completed
<1>5. \A v \in Workers : HandlerOK(v)'
  BY <1>1, ReadsStay DEF SerialInv, seen
<1> QED
  BY <1>3, <1>4, <1>5 DEF SerialInv

\* Every step of the system with one handler keeps the invariant.
LEMMA SerialStep ==
  ASSUME OneHandler, Inv, SerialInv, [Next]_vars
  PROVE  SerialInv'
<1>1. PICK w : Workers = {w}
  BY DEF OneHandler
<1>2. CASE UNCHANGED vars \/ \E v \in Workers : Lock(v)
  <2>1. UNCHANGED <<tables, handler>>
    BY <1>2 DEF vars, tables, handler, Lock
  <2> QED
    BY <2>1, TablesStay, ReadsStay DEF SerialInv, seen, tables
<1>3. CASE Crash
  <2>1. UNCHANGED tables /\ \A v \in Workers : pc'[v] = "idle"
    BY <1>3 DEF Crash
  <2> QED
    BY <2>1, TablesStay DEF SerialInv, HandlerOK, Undoing, Paying
<1>4. CASE Arrive(w)
  BY <1>1, <1>4, DisburseKeepsAll, UndoingKeepsAll, StartRefundKeepsAll,
     StartPaymentKeepsAll DEF Arrive
<1>5. CASE TransactionFails(w)
  BY <1>1, <1>5, RollBackKeepsAll DEF TransactionFails
<1>6. CASE DisburseStep(w) \/ RollbackStep(w) \/ PaymentStep(w)
  BY <1>1, <1>6, DisburseKeepsAll, UndoingKeepsAll, ReversalKeepsAll,
     RefundKeepsAll, PlanningKeepsAll, PaymentKeepsAll
     DEF RollbackStep, PaymentStep
<1>7. CASE \E l \in Loans : CreateLoan(l) \/ \E s : UpdateLoanStatus(l, s)
  BY <1>7, LoanChangesKeepAll
<1> QED
  BY <1>1, <1>2, <1>3, <1>4, <1>5, <1>6, <1>7 DEF Next, Step, Approve

\* With one handler the invariant holds in every state.
LEMMA SerialAlways ==
  ASSUME OneHandler
  PROVE  Spec => []SerialInv
<1>1. Inv /\ SerialInv /\ [Next]_vars => SerialInv'
  BY SerialStep
<1> QED
  BY <1>1, SerialStarts, InvHolds, PTL DEF Spec

\* While requests come one at a time, a loan that was never paid out, or whose
\* money was taken back, owes nothing and has no schedule (the writes of
\* rollbackDisbursement; neither a refund nor a payment comes after them).
THEOREM SerialUnfundedOwesNothing ==
  ASSUME OneHandler
  PROVE  Spec => []UnfundedOwesNothing
<1>1. SerialInv => UnfundedOwesNothing
  BY DEF SerialInv, LoanTable, UnfundedOwesNothing
<1> QED
  BY <1>1, SerialAlways, PTL

\* While requests come one at a time, the payments of a loan that stand are
\* dated in the order they were made, whatever dates clients send and whatever
\* is refunded in between (the date check of processPayment).
THEOREM SerialDateOrder ==
  ASSUME OneHandler
  PROVE  Spec => []PaymentsInDateOrder
<1>1. SerialInv => PaymentsInDateOrder
  BY DEF SerialInv, PaymentTable
<1> QED
  BY <1>1, SerialAlways, PTL
=============================================================================
