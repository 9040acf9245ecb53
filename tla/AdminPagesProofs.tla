-------------------------- MODULE AdminPagesProofs --------------------------
(***************************************************************************)
(* The pages of the admin application.  The rollback dialog, with any      *)
(* number of records, of lists and of rollbacks under way, whatever the    *)
(* network and other clients do: what is selected was picked under the     *)
(* label shown, and what was reported as undone is offered by a list asked *)
(* for since only if it has FAILED after that.  The dialogs for            *)
(* disbursements and payments, for any number of loans, payments and       *)
(* requests: what they get accepted was shown as selected, unless another  *)
(* client overruled the status of the loan.  The lists, for every page     *)
(* size the backend honours, every number of rows and every interleaving   *)
(* with their creation: paging to the end misses nothing.  The tab as a    *)
(* whole keeps what its pages promise.                                     *)
(***************************************************************************)
EXTENDS AdminPages, DataLemmas

(***************************************************************************)
(* The rollback dialog.                                                    *)
(***************************************************************************)
Types == {"disbursement", "payment"}
Statuses == {"NONE", "PENDING", "COMPLETED", "FAILED", "ROLLED_BACK"}

DialogTypeOK ==
  /\ open \in BOOLEAN
  /\ operationType \in Types
  /\ recordId \in Records \cup {None}
  /\ options \subseteq Records
  /\ status \in [Records -> Statuses] /\ running \subseteq Disbursed
  /\ undone \subseteq Records /\ known \subseteq Records

\* Where a record that was undone is.
Failed(x) == x \in Disbursed /\ status[x] = "FAILED"
Settled(x) == status[x] = "ROLLED_BACK" \/ Failed(x)

\* A list on its way: once read, it says ROLLED_BACK of what had been reported
\* before it was asked for, or the record is FAILED.
Fetches ==
  {f \in [type : Types, read : BOOLEAN, data : SUBSET (Records \X Statuses),
          known : SUBSET undone] :
     f.read => \A row \in f.data :
                 row[1] \in f.known /\ row[2] # "ROLLED_BACK" => Failed(row[1])}

\* A rollback on its way: it is accepted only when it has been done.
Posts ==
  {p \in [type : Types, id : Records, answer : {"none", "ok"}] :
     p.answer = "ok" => Settled(p.id)}

(***************************************************************************)
(* A rollback is reported only after the record is ROLLED_BACK, which it   *)
(* stays unless it is a disbursement that fails; and FAILED it stays.  So  *)
(* any list read after the report has it so.                               *)
(***************************************************************************)
DialogInv ==
  /\ DialogTypeOK
  /\ PickedAsShown
  /\ fetches \in Seq(Fetches)
  /\ posts \in Seq(Posts)
  /\ \A x \in undone : Settled(x)
  /\ NotOfferedAgain

\* What no step of the backend takes back.
TableMoves ==
  /\ status' \in [Records -> Statuses] /\ running' \subseteq Disbursed
  /\ \A x \in Records : (Settled(x) => Settled(x)') /\ (Failed(x) => Failed(x)')

-----------------------------------------------------------------------------
\* The dialog starts closed, with nothing under way.
LEMMA DialogStarts == DialogInit => DialogInv
<1> SUFFICES ASSUME DialogInit PROVE DialogInv
  OBVIOUS
<1>1. fetches \in Seq(Fetches) /\ posts \in Seq(Posts)
  BY EmptySeq DEF DialogInit
<1> QED
  BY <1>1
  DEF DialogInit, DialogInv, DialogTypeOK, PickedAsShown, NotOfferedAgain, Types,
      Statuses

\* While status and reports stay, so do the sets that describe what is under way.
LEMMA SameSets ==
  ASSUME UNCHANGED <<table, undone>>
  PROVE  /\ Fetches' = Fetches /\ Posts' = Posts
         /\ UNCHANGED <<status, running>>
         /\ \A x \in Records : (Settled(x)' <=> Settled(x)) /\ (Failed(x)' <=> Failed(x))
<1>1. UNCHANGED <<status, running, undone>>
  BY DEF table
<1>2. \A x : (Settled(x)' <=> Settled(x)) /\ (Failed(x)' <=> Failed(x))
  BY <1>1 DEF Settled, Failed
<1> QED
  BY <1>1, <1>2 DEF Fetches, Posts, Settled, Failed

\* A list is asked for.
LEMMA ListAsked ==
  ASSUME DialogInv, NEW type \in Types, Ask(type), UNCHANGED <<table, undone>>
  PROVE  fetches' \in Seq(Fetches)'
<1> DEFINE f == [type |-> type, read |-> FALSE, data |-> {}, known |-> undone]
<1>1. f \in Fetches
  BY DEF Fetches
<1>2. Append(fetches, f) \in Seq(Fetches)
  BY <1>1, Appended DEF DialogInv
<1>3. Fetches' = Fetches
  BY SameSets
<1> QED
  BY <1>2, <1>3 DEF Ask

\* Other clients, and disbursements that go on.
LEMMA OthersMove ==
  ASSUME DialogTypeOK, NEW x \in Records,
         Create(x) \/ DisburseGoesOn(x) \/ OtherRollback(x)
  PROVE  TableMoves /\ UNCHANGED dialog
<1>1. UNCHANGED dialog
  BY DEF Create, DisburseGoesOn, OtherRollback
<1>2. ASSUME NEW s, s \in Statuses, status' = [status EXCEPT ![x] = s],
             status[x] = "ROLLED_BACK" => s = "FAILED" /\ x \in Disbursed,
             status[x] = "FAILED" => s = "FAILED"
      PROVE  /\ status' \in [Records -> Statuses]
             /\ \A y \in Records : (Settled(y) => Settled(y)') /\ (Failed(y) => Failed(y)')
  BY <1>2 DEF DialogTypeOK, Settled, Failed
<1>3. CASE Create(x)
  BY <1>1, <1>2, <1>3 DEF Create, TableMoves, DialogTypeOK, Statuses
<1>4. CASE DisburseGoesOn(x)
  <2>1. x \in Disbursed /\ running' \subseteq Disbursed
    BY <1>4 DEF DisburseGoesOn, DialogTypeOK
  <2>2. CASE status' = status
    BY <1>1, <2>1, <2>2 DEF TableMoves, DialogTypeOK, Settled, Failed
  <2>3. CASE status' # status
    BY <1>1, <1>2, <1>4, <2>1, <2>3 DEF DisburseGoesOn, TableMoves, Statuses
  <2> QED
    BY <2>2, <2>3
<1>5. CASE OtherRollback(x)
  BY <1>1, <1>2, <1>5 DEF OtherRollback, Undoable, TableMoves, DialogTypeOK, Statuses
<1> QED
  BY <1>3, <1>4, <1>5

\* What is on its way stays true while records move.
LEMMA MovesKeep ==
  ASSUME TableMoves, UNCHANGED undone
  PROVE  Fetches \subseteq Fetches' /\ Posts \subseteq Posts'
<1>1. ASSUME NEW f \in Fetches PROVE f \in Fetches'
  <2>1. \A row \in f.data : row[1] \in Records
    BY DEF Fetches
  <2> QED
    BY <2>1 DEF Fetches, TableMoves
<1>2. ASSUME NEW p \in Posts PROVE p \in Posts'
  BY DEF Posts, TableMoves
<1> QED
  BY <1>1, <1>2

\* A step of the backend alone.
LEMMA KeptPromises ==
  ASSUME DialogInv, TableMoves,
         UNCHANGED <<open, operationType, recordId, options, shown, undone, known>>,
         fetches' \in Seq(Fetches'), posts' \in Seq(Posts')
  PROVE  DialogInv'
<1>1. DialogTypeOK' /\ PickedAsShown'
  BY DEF DialogInv, DialogTypeOK, TableMoves, PickedAsShown
<1>2. \A x \in undone' : Settled(x)'
  BY DEF DialogInv, DialogTypeOK, TableMoves
<1>3. NotOfferedAgain'
  BY DEF DialogInv, DialogTypeOK, TableMoves, NotOfferedAgain, Failed
<1> QED
  BY <1>1, <1>2, <1>3 DEF DialogInv

\* No step of the dialog, the network or the backend breaks the invariant.
LEMMA DialogStep == DialogInv /\ [DialogNext]_vars => DialogInv'
<1> SUFFICES ASSUME DialogInv, [DialogNext]_vars
             PROVE  DialogInv'
  OBVIOUS
<1> USE DialogAssumption
<1>0. DialogTypeOK /\ fetches \in Seq(Fetches) /\ posts \in Seq(Posts)
  BY DEF DialogInv
<1>1. CASE Open
  <2>1. fetches' \in Seq(Fetches)'
    BY <1>0, <1>1, ListAsked DEF Open, DialogTypeOK
  <2>2. Posts' = Posts
    BY <1>1, SameSets DEF Open
  <2> QED
    BY <1>0, <1>1, <2>1, <2>2
    DEF Open, DialogInv, DialogTypeOK, PickedAsShown, NotOfferedAgain, table, Settled, Failed
<1>2. ASSUME NEW type \in Types, ChangeType(type)
      PROVE  DialogInv'
  <2>1. fetches' \in Seq(Fetches)'
    BY <1>0, <1>2, ListAsked DEF ChangeType
  <2>2. Posts' = Posts
    BY <1>2, SameSets DEF ChangeType
  <2> QED
    BY <1>0, <1>2, <2>1, <2>2
    DEF ChangeType, DialogInv, DialogTypeOK, PickedAsShown, NotOfferedAgain, table, Settled, Failed
<1>3. ASSUME NEW i \in DOMAIN fetches, Read(i)
      PROVE  DialogInv'
  <2> DEFINE f == fetches[i]
             rows == {<<x, status[x]>> : x \in {y \in OfType(f.type) :
                                                status[y] # "NONE"}}
             g == [f EXCEPT !.read = TRUE, !.data = rows]
  <2>1. f \in Fetches
    BY <1>0, Removed
  <2>2. rows \subseteq Records \X Statuses
    BY <1>0 DEF OfType, Records, DialogTypeOK
  <2>3. \A row \in rows :
          row[1] \in f.known /\ row[2] # "ROLLED_BACK" => Failed(row[1])
    BY <2>1 DEF DialogInv, Fetches, Settled
  <2>4. g \in Fetches
    BY <2>1, <2>2, <2>3 DEF Fetches
  <2>5. fetches' = [fetches EXCEPT ![i] = g]
    BY <1>3 DEF Read
  <2>6. fetches' \in Seq(Fetches)
    BY <1>0, <2>4, <2>5, Replaced
  <2>7. Fetches' = Fetches /\ Posts' = Posts
    BY <1>3, SameSets DEF Read
  <2> QED
    BY <1>3, <2>6, <2>7
    DEF Read, DialogInv, DialogTypeOK, PickedAsShown, NotOfferedAgain, table, Settled, Failed
<1>4. ASSUME NEW i \in DOMAIN fetches, Arrive(i)
      PROVE  DialogInv'
  <2>1. fetches[i] \in Fetches /\ fetches' \in Seq(Fetches)
    BY <1>0, <1>4, Removed DEF Arrive
  <2>2. Fetches' = Fetches /\ Posts' = Posts
    BY <1>4, SameSets DEF Arrive
  <2>3. options' \subseteq Records /\ known' \subseteq Records
    BY <1>0, <1>4, <2>1 DEF Arrive, Offer, Fetches, DialogTypeOK
  <2>4. \A x \in options' \cap known' : Failed(x)
    BY <1>4, <2>1 DEF Arrive, Offer, Fetches
  <2> QED
    BY <1>4, <2>1, <2>2, <2>3, <2>4
    DEF Arrive, DialogInv, DialogTypeOK, PickedAsShown, NotOfferedAgain, table, Settled, Failed
<1>5. ASSUME NEW i \in DOMAIN fetches, FetchFails(i)
      PROVE  DialogInv'
  <2>1. fetches' \in Seq(Fetches)
    BY <1>0, <1>5, Removed DEF FetchFails
  <2>2. Fetches' = Fetches /\ Posts' = Posts
    BY <1>5, SameSets DEF FetchFails
  <2> QED
    BY <1>5, <2>1, <2>2
    DEF FetchFails, DialogInv, DialogTypeOK, PickedAsShown, NotOfferedAgain, table, Settled, Failed
<1>6. ASSUME NEW x \in Records, Pick(x)
      PROVE  DialogInv'
  <2>1. Fetches' = Fetches /\ Posts' = Posts
    BY <1>6, SameSets DEF Pick
  <2> QED
    BY <1>6, <2>1
    DEF Pick, DialogInv, DialogTypeOK, PickedAsShown, NotOfferedAgain, table, Settled, Failed
<1>7. CASE Submit
  <2> DEFINE p == [type |-> operationType, id |-> recordId, answer |-> "none"]
  <2>1. p \in Posts
    BY <1>0, <1>7 DEF Submit, Posts, DialogTypeOK
  <2>2. posts' \in Seq(Posts)
    BY <1>0, <1>7, <2>1, Appended DEF Submit
  <2>3. Fetches' = Fetches /\ Posts' = Posts
    BY <1>7, SameSets DEF Submit
  <2> QED
    BY <1>7, <2>2, <2>3
    DEF Submit, DialogInv, DialogTypeOK, PickedAsShown, NotOfferedAgain, table, Settled, Failed
<1>8. ASSUME NEW k \in DOMAIN posts, Serve(k)
      PROVE  DialogInv'
  <2> DEFINE p == posts[k]
             q == [p EXCEPT !.answer = "ok"]
  <2>1. p \in Posts
    BY <1>0, Removed
  <2>a. PICK x \in Records : x = p.id
    BY <2>1 DEF Posts
  <2>2. TableMoves /\ Settled(x)' /\ UNCHANGED undone
    <3>1. /\ status' = [status EXCEPT ![x] = "ROLLED_BACK"]
          /\ status[x] = "COMPLETED" /\ UNCHANGED <<running, undone>>
      BY <1>8, <2>a DEF Serve, Undoable
    <3>2. status' \in [Records -> Statuses] /\ running' \subseteq Disbursed
      BY <1>0, <3>1 DEF DialogTypeOK, Statuses
    <3>3. \A y \in Records : status'[y] = IF y = x THEN "ROLLED_BACK" ELSE status[y]
      BY <1>0, <3>1 DEF DialogTypeOK
    <3> QED
      BY <3>1, <3>2, <3>3 DEF TableMoves, Settled, Failed
  <2>3. Fetches \subseteq Fetches' /\ Posts \subseteq Posts'
    BY <2>2, MovesKeep
  <2>4. fetches' \in Seq(Fetches')
    BY <1>0, <1>8, <2>3, SeqMonotonic DEF Serve
  <2>5. posts \in Seq(Posts')
    BY <1>0, <2>3, SeqMonotonic
  <2>6. q \in Posts'
    BY <2>1, <2>a, <2>2 DEF Posts
  <2>7. posts' = [posts EXCEPT ![k] = q]
    BY <1>8 DEF Serve
  <2>8. posts' \in Seq(Posts')
    BY <2>5, <2>6, <2>7, Replaced
  <2>9. UNCHANGED <<open, operationType, recordId, options, shown, undone, known>>
    BY <1>8 DEF Serve
  <2> QED
    BY <1>0, <2>2, <2>4, <2>8, <2>9, KeptPromises
<1>13. ASSUME NEW x \in Records, Create(x) \/ DisburseGoesOn(x) \/ OtherRollback(x)
       PROVE  DialogInv'
  <2>1. TableMoves /\ UNCHANGED dialog
    BY <1>0, <1>13, OthersMove
  <2>2. Fetches \subseteq Fetches' /\ Posts \subseteq Posts'
    BY <2>1, MovesKeep DEF dialog
  <2>3. fetches' \in Seq(Fetches') /\ posts' \in Seq(Posts')
    BY <1>0, <2>1, <2>2, SeqMonotonic DEF dialog
  <2>4. UNCHANGED <<open, operationType, recordId, options, shown, undone, known>>
    BY <2>1 DEF dialog
  <2> QED
    BY <1>0, <2>1, <2>3, <2>4, KeptPromises
<1>9. ASSUME NEW k \in DOMAIN posts, Succeeded(k)
      PROVE  DialogInv'
  <2>1. posts[k] \in Posts /\ posts' \in Seq(Posts)
    BY <1>0, <1>9, Removed DEF Succeeded
  <2>2. Posts' = Posts
    BY <1>9 DEF Succeeded, Posts, table, Settled, Failed
  <2>3. undone' = undone \cup {posts[k].id} /\ posts[k].id \in Records
    BY <1>9, <2>1 DEF Succeeded, Posts
  <2>4. Fetches \subseteq Fetches'
    BY <1>9, <2>3 DEF Succeeded, Fetches, table, Failed
  <2>5. fetches' \in Seq(Fetches')
    BY <1>0, <1>9, <2>4, SeqMonotonic DEF Succeeded
  <2>6. \A x \in undone' : Settled(x)'
    BY <1>9, <2>1, <2>3 DEF Succeeded, Posts, DialogInv, table, Settled, Failed
  <2> QED
    BY <1>0, <1>9, <2>1, <2>2, <2>3, <2>5, <2>6
    DEF Succeeded, Reset, DialogInv, DialogTypeOK, PickedAsShown,
        NotOfferedAgain, Types, table, Settled, Failed
<1>10. ASSUME NEW k \in DOMAIN posts, Refused(k)
       PROVE  DialogInv'
  <2>1. posts' \in Seq(Posts)
    BY <1>0, <1>10, Removed DEF Refused
  <2>2. Fetches' = Fetches /\ Posts' = Posts
    BY <1>10, SameSets DEF Refused
  <2> QED
    BY <1>10, <2>1, <2>2
    DEF Refused, DialogInv, DialogTypeOK, PickedAsShown, NotOfferedAgain, table, Settled, Failed
<1>11. CASE Cancel
  <2>1. Fetches' = Fetches /\ Posts' = Posts
    BY <1>11, SameSets DEF Cancel
  <2> QED
    BY <1>11, <2>1
    DEF Cancel, DialogInv, DialogTypeOK, PickedAsShown, NotOfferedAgain, table, Settled, Failed
<1>12. CASE UNCHANGED vars
  <2>1. Fetches' = Fetches /\ Posts' = Posts
    BY <1>12, SameSets DEF vars, dialog
  <2> QED
    BY <1>12, <2>1
    DEF vars, dialog, DialogInv, DialogTypeOK, PickedAsShown, NotOfferedAgain, table, Settled, Failed
<1> QED
  BY <1>1, <1>2, <1>3, <1>4, <1>5, <1>6, <1>7, <1>8, <1>9, <1>10, <1>11, <1>12, <1>13
  DEF DialogNext, Types

\* What the button would undo was picked under the label that is shown.
THEOREM PickedUnderItsLabel == DialogSpec => []PickedAsShown
<1>1. DialogInv => PickedAsShown
  BY DEF DialogInv
<1> QED
  BY <1>1, DialogStarts, DialogStep, PTL DEF DialogSpec

\* A list asked for after a rollback was reported does not offer the record,
\* unless it is a disbursement that has FAILED since (Rollback.tsx filters out
\* what is ROLLED_BACK; disburseLoan may overwrite that).
THEOREM ReportedNotOffered == DialogSpec => []NotOfferedAgain
<1>1. DialogInv => NotOfferedAgain
  BY DEF DialogInv
<1> QED
  BY <1>1, DialogStarts, DialogStep, PTL DEF DialogSpec

-----------------------------------------------------------------------------
(***************************************************************************)
(* The dialogs for disbursements and payments.  While nobody sets the      *)
(* status of a loan by hand or refunds a payment of it, a loan that was    *)
(* offered and is no longer has moved on: its disbursement exists, and it  *)
(* is not ACTIVE when it was offered for a payment.                        *)
(***************************************************************************)
Books == [status : LoanStatuses,
          disbursement : {"NONE", "PENDING", "COMPLETED", "FAILED", "ROLLED_BACK"},
          owing : BOOLEAN, standing : Nat]
Shown == LoanStatuses \cup {"unknown"}

\* What the requests of other clients make of a loan, these apart.
Later(r, s) ==
  /\ s.disbursement # "NONE"
  /\ s.status = "ACTIVE" /\ r.disbursement # "NONE" => r.status = "ACTIVE"

\* What a status that was read says of the loan now.
Tells(told, r) == r.disbursement = "NONE" => r.status = told

\* A loan that was offered as told and that no request is accepted for.
Lost(told, r) ==
  r.disbursement # "NONE" /\ (told = "ACTIVE" => r.status # "ACTIVE")

\* A request that could not be foreseen to be accepted is not.
Required(op) == IF op = "disburse" THEN "APPROVED" ELSE "ACTIVE"
Requests ==
  {p \in [op : {"disburse", "pay"}, loan : ListedLoans, answer : {"none", "ok"},
          foreseen : BOOLEAN] :
     ~p.foreseen => p.answer # "ok" /\ Lost(Required(p.op), book[p.loan])}

Queries == [state : {"idle", "asked", "read"}, data : [ListedLoans -> Shown]]
DashboardTypeOK ==
  /\ book \in [ListedLoans -> Books]
  /\ listed \in [ListedLoans -> Shown]
  /\ query \in Queries
  /\ dis \in [open : BOOLEAN, loan : ListedLoans \cup {Unchosen}]
  /\ pay \in [open : BOOLEAN, loan : ListedLoans \cup {Unchosen},
              breakdown : BOOLEAN]
  /\ changed \in [list : SUBSET ListedLoans, query : SUBSET ListedLoans,
                  dis : BOOLEAN, pay : BOOLEAN]

\* The loans are where the lists say they have been.
ListsInv ==
  \A l \in ListedLoans :
    /\ l \notin changed.list /\ listed[l] # "unknown" => Tells(listed[l], book[l])
    /\ query.state = "read" =>
         /\ l \notin changed.query => Tells(query.data[l], book[l])
         /\ l \notin changed.list /\ listed[l] \in {"APPROVED", "ACTIVE"}
            /\ query.data[l] # listed[l] => Lost(listed[l], book[l])

\* A loan that was chosen as told is so, or lost.
Chosen(l, told) ==
  /\ Tells(told, book[l])
  /\ listed[l] # told => Lost(told, book[l])
  /\ query.state = "read" /\ query.data[l] # told => Lost(told, book[l])
ChosenInv ==
  /\ dis.loan # Unchosen /\ ~changed.dis => Chosen(dis.loan, "APPROVED")
  /\ pay.loan # Unchosen /\ ~changed.pay => Chosen(pay.loan, "ACTIVE")

DashboardInv ==
  DashboardTypeOK /\ ListsInv /\ ChosenInv /\ sent \in Seq(Requests)

-----------------------------------------------------------------------------
\* Nothing has been read or chosen.
LEMMA DashboardStarts == LoanDialogsInit => DashboardInv
<1> SUFFICES ASSUME LoanDialogsInit PROVE DashboardInv
  OBVIOUS
<1> USE LoanDialogsAssumption
<1>1. NewLoan \in Books
  BY DEF NewLoan, Books, LoanStatuses
<1>2. Unknown \in [ListedLoans -> Shown]
  BY DEF Unknown, Shown
<1>3. sent \in Seq(Requests)
  BY EmptySeq DEF LoanDialogsInit
<1>4. DashboardTypeOK
  BY <1>1, <1>2 DEF LoanDialogsInit, DashboardTypeOK, Asked, Queries
<1>5. ListsInv /\ ChosenInv
  BY DEF LoanDialogsInit, ListsInv, ChosenInv, Asked, Unknown
<1> QED
  BY <1>3, <1>4, <1>5 DEF DashboardInv

\* A disbursement leaves a loan that no other can be made of.
LEMMA DisbursedBook ==
  ASSUME NEW r, r \in Books, r.disbursement = "NONE",
         NEW s, s \in {DisburseLoan(r)} \cup FailedDisbursements(r)
  PROVE  s \in Books /\ Later(r, s)
<1> DEFINE D == {"PENDING", "COMPLETED", "FAILED", "ROLLED_BACK"}
<1>1. PICK d : /\ d \in D
               /\ \/ s = [r EXCEPT !.disbursement = d]
                  \/ s = [r EXCEPT !.status = "ACTIVE", !.disbursement = d,
                                   !.owing = TRUE]
  <2>1. /\ DisburseLoan(r) = [r EXCEPT !.status = "ACTIVE",
                                       !.disbursement = "COMPLETED", !.owing = TRUE]
        /\ \A d : [DisburseLoan(r) EXCEPT !.disbursement = d]
                  = [r EXCEPT !.status = "ACTIVE", !.disbursement = d, !.owing = TRUE]
    BY DEF DisburseLoan, Books
  <2>2. CASE s = DisburseLoan(r)
    BY <2>1, <2>2
  <2>3. CASE \E d \in D : s = [r EXCEPT !.disbursement = d]
    BY <2>3
  <2>4. CASE \E d \in D : s = [DisburseLoan(r) EXCEPT !.disbursement = d]
    BY <2>1, <2>4
  <2> QED
    BY <2>2, <2>3, <2>4 DEF FailedDisbursements
<1>2. s \in Books /\ s.disbursement = d
  BY <1>1 DEF Books, LoanStatuses
<1> QED
  BY <1>1, <1>2 DEF Later

\* So does a payment, which is only taken for an ACTIVE loan.
LEMMA PaidBook ==
  ASSUME NEW r, r \in Books, CanPay(r), NEW s, s \in Payments(r)
  PROVE  s \in Books /\ Later(r, s)
<1>1. r.standing \in Nat /\ MaxStanding \in Nat
  BY LoanDialogsAssumption DEF Books
<1>2. r.standing..MaxStanding \subseteq Nat
  BY <1>1
<1>3. s \in Books /\ s.disbursement = r.disbursement
  BY <1>2 DEF Payments, Books, LoanStatuses
<1> QED
  BY <1>3 DEF Later, CanPay

\* A status that is set by hand and a refund leave a loan.
LEMMA OverruledBook ==
  ASSUME NEW r, r \in Books, NEW s, s \in StatusUpdates(r) \cup Refunds(r)
  PROVE  s \in Books
<1>1. CASE s \in StatusUpdates(r)
  BY <1>1 DEF StatusUpdates, Books
<1>2. CASE s \in Refunds(r)
  <2>1. PICK m : m = r.standing - 1
    OBVIOUS
  <2>2. \/ s = [r EXCEPT !.standing = m]
        \/ s = [r EXCEPT !.standing = m, !.owing = TRUE, !.status = "ACTIVE"]
    BY <1>2, <2>1 DEF Refunds
  <2>3. m \in Nat
    BY <1>2, <2>1 DEF Refunds, Books
  <2> QED
    BY <2>2, <2>3 DEF Books, LoanStatuses
<1> QED
  BY <1>1, <1>2

\* Every request of another client that sets no status by hand and refunds
\* nothing moves its loan on.
LEMMA ChangesMoveOn ==
  ASSUME NEW r, r \in Books, NEW s, s \in Changes(r)
  PROVE  s \in Books /\ Later(r, s)
<1>1. CASE CanDisburse(r) /\ s \in {DisburseLoan(r)} \cup FailedDisbursements(r)
  BY <1>1, DisbursedBook DEF CanDisburse
<1>2. CASE CanPay(r) /\ s \in Payments(r)
  BY <1>2, PaidBook
<1>3. CASE s \in LoanRollbacks(r)
  <2>1. /\ r.disbursement = "COMPLETED"
        /\ s = [r EXCEPT !.status = "APPROVED", !.disbursement = "ROLLED_BACK",
                         !.owing = FALSE]
    BY <1>3 DEF LoanRollbacks
  <2>2. s \in Books /\ s.disbursement = "ROLLED_BACK" /\ s.status = "APPROVED"
    BY <2>1 DEF Books, LoanStatuses
  <2> QED
    BY <2>2 DEF Later
<1> QED
  BY <1>1, <1>2, <1>3 DEF Changes

\* What the lists say, what is chosen and what was sent stays true while loans
\* move on.
LEMMA MovingOn ==
  ASSUME DashboardInv, UNCHANGED <<listed, query, dis, pay, changed>>,
         NEW l, l \in ListedLoans, NEW s, s \in Books, Later(book[l], s),
         book' = [book EXCEPT ![l] = s]
  PROVE  DashboardTypeOK' /\ ListsInv' /\ ChosenInv' /\ Requests \subseteq Requests'
<1>1. /\ book' \in [ListedLoans -> Books]
      /\ \A k \in ListedLoans : k # l => book'[k] = book[k]
      /\ book'[l] = s
  BY DEF DashboardInv, DashboardTypeOK
<1>2. ASSUME NEW k, k \in ListedLoans, NEW told
      PROVE  /\ Tells(told, book[k]) => Tells(told, book'[k])
             /\ Lost(told, book[k]) => Lost(told, book'[k])
  BY <1>1 DEF Later, Tells, Lost
<1>3. DashboardTypeOK'
  BY <1>1 DEF DashboardInv, DashboardTypeOK
<1>4. ListsInv'
  BY <1>2 DEF ListsInv, DashboardInv
<1>5. ChosenInv'
  <2>1. ASSUME NEW k, k \in ListedLoans, NEW told, Chosen(k, told)
        PROVE  Chosen(k, told)'
    BY <1>2, <2>1 DEF Chosen
  <2> QED
    BY <2>1 DEF ChosenInv, DashboardInv, DashboardTypeOK
<1>6. Requests \subseteq Requests'
  BY <1>2 DEF Requests
<1> QED
  BY <1>3, <1>4, <1>5, <1>6

\* The sets that describe requests and loans stay while the loans do.
LEMMA SameBook ==
  ASSUME book' = book
  PROVE  Requests' = Requests
  BY DEF Requests

\* A step that leaves the loans, the lists and what is chosen alone.
LEMMA SameLists ==
  ASSUME DashboardInv, UNCHANGED <<book, listed, query, changed>>,
         dis'.loan = dis.loan, pay'.loan = pay.loan
  PROVE  ListsInv' /\ ChosenInv' /\ Requests' = Requests
  BY SameBook DEF DashboardInv, ListsInv, ChosenInv, Chosen

\* A request is sent for a loan that is chosen; when it did not show as
\* selected, and nobody interfered, the loan is lost.
LEMMA Sent ==
  ASSUME DashboardInv, NEW op, op \in {"disburse", "pay"}, NEW l, l \in ListedLoans,
         NEW since, since \in BOOLEAN,
         ~since => Chosen(l, Required(op)),
         Send(op, l, Required(op), since)
  PROVE  DashboardInv'
<1>1. DashboardTypeOK /\ sent \in Seq(Requests)
  BY DEF DashboardInv
<1>2. PICK f : f \in BOOLEAN /\ (f <=> listed[l] = Required(op) \/ since)
  OBVIOUS
<1>3. sent' = Append(sent, [op |-> op, loan |-> l, answer |-> "none",
                            foreseen |-> f])
  <2>1. (listed[l] = Required(op) \/ since) = f
    BY <1>2
  <2> QED
    BY <2>1 DEF Send
<1>4. ~f => Lost(Required(op), book[l])
  BY <1>2 DEF Chosen
<1>5. [op |-> op, loan |-> l, answer |-> "none", foreseen |-> f] \in Requests
  BY <1>2, <1>4 DEF Requests
<1>6. sent' \in Seq(Requests)
  BY <1>1, <1>3, <1>5, Appended
<1>7. DashboardTypeOK' /\ ListsInv' /\ ChosenInv' /\ Requests' = Requests
  BY <1>1, SameLists DEF Send, DashboardTypeOK
<1> QED
  BY <1>6, <1>7 DEF DashboardInv

\* A step that changes what a dialog shows, or takes an answered request away.
LEMMA OnlyShown ==
  ASSUME DashboardInv, UNCHANGED <<book, listed, query, changed>>, DashboardTypeOK',
         dis'.loan = dis.loan, pay'.loan = pay.loan,
         sent' \in Seq(Requests)
  PROVE  DashboardInv'
  BY SameLists DEF DashboardInv

\* A loan is moved on while the requests that are under way get no answer.
LEMMA OtherClientStep ==
  ASSUME DashboardInv, NEW l, l \in ListedLoans, OtherClient(l)
  PROVE  DashboardInv'
<1>1. PICK r : r \in Changes(book[l]) /\ book' = [book EXCEPT ![l] = r]
  BY DEF OtherClient
<1>2. r \in Books /\ Later(book[l], r)
  BY <1>1, ChangesMoveOn DEF DashboardInv, DashboardTypeOK
<1>3. DashboardTypeOK' /\ ListsInv' /\ ChosenInv' /\ Requests \subseteq Requests'
  BY <1>1, <1>2, MovingOn DEF OtherClient
<1>4. sent' \in Seq(Requests')
  BY <1>3, SeqMonotonic DEF OtherClient, DashboardInv
<1> QED
  BY <1>3, <1>4 DEF DashboardInv

\* A status set by hand, or a refund: nothing is claimed of the loan any more.
LEMMA OtherStatusStep ==
  ASSUME DashboardInv, NEW l, l \in ListedLoans, OtherStatus(l)
  PROVE  DashboardInv'
<1>0. DashboardTypeOK /\ ListsInv /\ ChosenInv /\ sent \in Seq(Requests)
      /\ UNCHANGED <<listed, query, dis, pay>>
  BY DEF DashboardInv, OtherStatus
<1>1. PICK r : /\ r \in StatusUpdates(book[l]) \cup Refunds(book[l])
               /\ book' = [book EXCEPT ![l] = r]
  BY DEF OtherStatus
<1>2. r \in Books
  BY <1>0, <1>1, OverruledBook DEF DashboardTypeOK
<1>3. /\ book' \in [ListedLoans -> Books]
      /\ \A k \in ListedLoans : k # l => book'[k] = book[k]
  BY <1>0, <1>1, <1>2 DEF DashboardTypeOK
<1>4. PICK q, d, p :
        /\ q \in SUBSET ListedLoans /\ (query.state = "read" => q = changed.query \cup {l})
        /\ d \in BOOLEAN /\ (d <=> changed.dis \/ dis.loan = l)
        /\ p \in BOOLEAN /\ (p <=> changed.pay \/ pay.loan = l)
        /\ changed' = [list |-> changed.list \cup {l}, query |-> q, dis |-> d, pay |-> p]
  <2> DEFINE q == IF query.state = "read" THEN changed.query \cup {l} ELSE {}
             d == changed.dis \/ dis.loan = l
             p == changed.pay \/ pay.loan = l
  <2>1. q \in SUBSET ListedLoans /\ (query.state = "read" => q = changed.query \cup {l})
    BY <1>0 DEF DashboardTypeOK
  <2>2. d \in BOOLEAN /\ p \in BOOLEAN
    OBVIOUS
  <2>3. changed' = [list |-> changed.list \cup {l}, query |-> q, dis |-> d, pay |-> p]
    BY DEF OtherStatus
  <2> QED
    BY <2>1, <2>2, <2>3
<1>5. /\ changed'.list = changed.list \cup {l} /\ changed'.query = q
      /\ changed'.dis = d /\ changed'.pay = p
      /\ changed' \in [list : SUBSET ListedLoans, query : SUBSET ListedLoans,
                       dis : BOOLEAN, pay : BOOLEAN]
  BY <1>0, <1>4 DEF DashboardTypeOK
<1>6. DashboardTypeOK'
  BY <1>0, <1>3, <1>5 DEF DashboardTypeOK
<1>7. ListsInv'
  BY <1>0, <1>3, <1>4, <1>5 DEF ListsInv
<1>8. ChosenInv'
  <2>1. ASSUME NEW k, k \in ListedLoans, k # l, NEW told, Chosen(k, told)
        PROVE  Chosen(k, told)'
    BY <1>0, <1>3, <2>1 DEF Chosen
  <2>2. ~d => ~changed.dis /\ dis.loan # l
    BY <1>4
  <2>3. ~p => ~changed.pay /\ pay.loan # l
    BY <1>4
  <2> QED
    BY <1>0, <1>5, <2>1, <2>2, <2>3 DEF ChosenInv, DashboardTypeOK
<1>9. sent' \in Seq(Requests')
  <2>1. ASSUME NEW k, k \in DOMAIN sent
        PROVE  sent'[k] \in Requests'
    <3>1. sent[k] \in Requests
      BY <1>0, <2>1, Removed
    <3>2. PICK f : f \in BOOLEAN /\ (f <=> sent[k].foreseen \/ sent[k].loan = l)
      OBVIOUS
    <3>3. (sent[k].foreseen \/ sent[k].loan = l) = f
      BY <3>1, <3>2 DEF Requests
    <3>4. sent'[k] = [sent[k] EXCEPT !.foreseen = f]
      BY <2>1, <3>3 DEF OtherStatus
    <3>5. sent[k].loan \in ListedLoans /\ sent[k].foreseen \in BOOLEAN
      BY <3>1 DEF Requests
    <3>6. ~f => /\ ~sent[k].foreseen /\ book'[sent[k].loan] = book[sent[k].loan]
      BY <1>3, <3>2, <3>5
    <3> QED
      BY <3>1, <3>2, <3>4, <3>6 DEF Requests
  <2>2. DOMAIN sent' = 1..Len(sent) /\ DOMAIN sent = 1..Len(sent) /\ Len(sent) \in Nat
    BY <1>0, LenProperties DEF OtherStatus
  <2>3. sent' = [k \in 1..Len(sent) |-> sent'[k]]
    BY <2>2 DEF OtherStatus
  <2> HIDE <1>0
  <2> QED
    BY <2>1, <2>2, <2>3, IsASeq
<1> QED
  BY <1>6, <1>7, <1>8, <1>9 DEF DashboardInv

\* The backend answers: what it accepts could be foreseen, for the loan could
\* not have been disbursed or paid otherwise.
LEMMA ServeStep ==
  ASSUME DashboardInv, NEW k \in DOMAIN sent, ServeRequest(k)
  PROVE  DashboardInv'
<1> DEFINE p == sent[k]
           r == book[p.loan]
           ok == [p EXCEPT !.answer = "ok"]
<1>1. /\ DashboardTypeOK /\ sent \in Seq(Requests)
      /\ p \in Requests /\ p.loan \in ListedLoans /\ r \in Books
      /\ UNCHANGED <<listed, query, dis, pay, changed>>
  <2>1. sent \in Seq(Requests) /\ book \in [ListedLoans -> Books] /\ DashboardTypeOK
    BY DEF DashboardInv, DashboardTypeOK
  <2>2. p \in Requests
    BY <2>1, Removed
  <2>3. p.loan \in ListedLoans
    BY <2>2 DEF Requests
  <2> QED
    BY <2>1, <2>2, <2>3 DEF ServeRequest
<1>2. ASSUME NEW s, s \in Changes(r), book' = [book EXCEPT ![p.loan] = s],
             \/ sent' = RemoveAt(sent, k)
             \/ sent' = [sent EXCEPT ![k] = ok] /\ p.foreseen
      PROVE  DashboardInv'
  <2>1. s \in Books /\ Later(r, s)
    BY <1>1, <1>2, ChangesMoveOn
  <2>2. DashboardTypeOK' /\ ListsInv' /\ ChosenInv' /\ Requests \subseteq Requests'
    BY <1>1, <1>2, <2>1, MovingOn
  <2>3. CASE sent' = RemoveAt(sent, k)
    <3>1. sent' \in Seq(Requests)
      BY <1>1, <2>3, Removed
    <3> QED
      BY <2>2, <3>1, SeqMonotonic DEF DashboardInv
  <2>4. CASE sent' = [sent EXCEPT ![k] = ok] /\ p.foreseen
    <3>1. ok \in Requests
      BY <1>1, <2>4 DEF Requests
    <3>2. sent' \in Seq(Requests)
      BY <1>1, <2>4, <3>1, Replaced
    <3> QED
      BY <2>2, <3>2, SeqMonotonic DEF DashboardInv
  <2> QED
    BY <1>2, <2>3, <2>4
<1>3. ASSUME NEW s, Accept(k, s)
      PROVE  book' = [book EXCEPT ![p.loan] = s] /\ sent' = [sent EXCEPT ![k] = ok]
  BY <1>3 DEF Accept
<1>4. ASSUME NEW s, Refuse(k, s)
      PROVE  book' = [book EXCEPT ![p.loan] = s] /\ sent' = RemoveAt(sent, k)
  BY <1>4 DEF Refuse
<1>5. CASE p.op = "disburse" /\ CanDisburse(r) /\ Accept(k, DisburseLoan(r))
  <2>1. DisburseLoan(r) \in Changes(r)
    BY <1>5 DEF Changes
  <2>2. p.foreseen
    BY <1>1, <1>5 DEF Requests, CanDisburse, Lost
  <2> QED
    BY <1>2, <1>3, <1>5, <2>1, <2>2
<1>6. CASE /\ p.op = "disburse" /\ CanDisburse(r)
           /\ \E s \in FailedDisbursements(r) : Refuse(k, s)
  <2>1. PICK s : s \in FailedDisbursements(r) /\ Refuse(k, s)
    BY <1>6
  <2>2. s \in Changes(r)
    BY <1>6, <2>1 DEF Changes
  <2> QED
    BY <1>2, <1>4, <2>1, <2>2
<1>7. CASE p.op = "pay" /\ CanPay(r) /\ \E s \in Payments(r) : Accept(k, s)
  <2>1. PICK s : s \in Payments(r) /\ Accept(k, s)
    BY <1>7
  <2>2. s \in Changes(r)
    BY <1>7, <2>1 DEF Changes
  <2>3. p.foreseen
    BY <1>1, <1>7 DEF Requests, CanPay, Lost, Required
  <2> QED
    BY <1>2, <1>3, <2>1, <2>2, <2>3
<1>8. CASE Refuse(k, r)
  <2>1. book' = book
    BY <1>1, <1>4, <1>8 DEF DashboardTypeOK
  <2>2. sent' \in Seq(Requests)
    BY <1>1, <1>4, <1>8, Removed
  <2>3. DashboardTypeOK'
    BY <1>1, <2>1 DEF DashboardTypeOK
  <2> QED
    BY <1>1, <2>1, <2>2, <2>3, OnlyShown
<1> QED
  BY <1>5, <1>6, <1>7, <1>8 DEF ServeRequest

\* A list on its way is dropped, or another is asked for.
LEMMA ListDropped ==
  ASSUME DashboardInv, UNCHANGED <<book, listed>>,
         query' \in Queries, query'.state # "read",
         \/ changed' = changed
         \/ changed' = [changed EXCEPT !.query = {}],
         dis' \in [open : BOOLEAN, loan : ListedLoans \cup {Unchosen}],
         pay' \in [open : BOOLEAN, loan : ListedLoans \cup {Unchosen},
                   breakdown : BOOLEAN],
         dis'.loan = dis.loan, pay'.loan = pay.loan,
         sent' \in Seq(Requests)
  PROVE  DashboardInv'
<1>1. DashboardTypeOK /\ ListsInv /\ ChosenInv /\ Requests' = Requests
  BY SameBook DEF DashboardInv
<1>2. /\ changed' \in [list : SUBSET ListedLoans, query : SUBSET ListedLoans,
                       dis : BOOLEAN, pay : BOOLEAN]
      /\ changed'.list = changed.list
      /\ changed'.dis = changed.dis /\ changed'.pay = changed.pay
  BY <1>1 DEF DashboardTypeOK
<1>3. DashboardTypeOK'
  BY <1>1, <1>2 DEF DashboardTypeOK
<1>4. ListsInv'
  BY <1>1, <1>2 DEF ListsInv
<1>5. ChosenInv'
  BY <1>1, <1>2 DEF ChosenInv, Chosen
<1> QED
  BY <1>1, <1>3, <1>4, <1>5 DEF DashboardInv

\* The list that is shown follows the one before.
LEMMA ListStep ==
  ASSUME DashboardInv, Refetch \/ ReadLoans \/ ShowLoans \/ LoadFails
  PROVE  DashboardInv'
<1>1. /\ DashboardTypeOK /\ ListsInv /\ ChosenInv /\ sent \in Seq(Requests)
      /\ UNCHANGED <<book, dis, pay, sent>> /\ Requests' = Requests
  BY SameBook DEF DashboardInv, Refetch, ReadLoans, ShowLoans, LoadFails
<1>2. Idle \in Queries /\ Asked \in Queries /\ Idle.state # "read" /\ Asked.state # "read"
  BY DEF Idle, Asked, Queries, Unknown, Shown
<1>3. CASE Refetch \/ LoadFails
  BY <1>1, <1>2, <1>3, ListDropped DEF Refetch, LoadFails, DropList, DashboardTypeOK
<1>4. CASE ReadLoans
  <2>1. /\ UNCHANGED <<listed, changed>>
        /\ query' = [state |-> "read", data |-> [l \in ListedLoans |-> book[l].status]]
    BY <1>4 DEF ReadLoans
  <2>2. /\ query'.state = "read" /\ query' \in Queries
        /\ \A l \in ListedLoans : query'.data[l] = book[l].status
    BY <1>1, <2>1 DEF DashboardTypeOK, Queries, Books, Shown
  <2>3. DashboardTypeOK'
    BY <1>1, <2>1, <2>2 DEF DashboardTypeOK
  <2>4. ListsInv'
    BY <1>1, <2>1, <2>2 DEF ListsInv, Tells, Lost
  <2>5. ASSUME NEW l, l \in ListedLoans, NEW told, Chosen(l, told)
        PROVE  Chosen(l, told)'
    BY <1>1, <2>1, <2>2, <2>5 DEF Chosen, Tells, Lost
  <2>6. ChosenInv'
    BY <1>1, <2>1, <2>5 DEF ChosenInv, DashboardTypeOK
  <2> QED
    BY <1>1, <2>3, <2>4, <2>6 DEF DashboardInv
<1>5. CASE ShowLoans
  <2>1. /\ listed' = query.data /\ query.state = "read" /\ query' = Idle
        /\ changed' = [changed EXCEPT !.list = changed.query, !.query = {}]
    BY <1>5 DEF ShowLoans
  <2>2. /\ changed' \in [list : SUBSET ListedLoans, query : SUBSET ListedLoans,
                         dis : BOOLEAN, pay : BOOLEAN]
        /\ changed'.list = changed.query
        /\ changed'.dis = changed.dis /\ changed'.pay = changed.pay
    BY <1>1, <2>1 DEF DashboardTypeOK
  <2>3. DashboardTypeOK'
    BY <1>1, <1>2, <2>1, <2>2 DEF DashboardTypeOK, Queries
  <2>4. ListsInv'
    BY <1>1, <1>2, <2>1, <2>2 DEF ListsInv
  <2>5. ASSUME NEW l, l \in ListedLoans, NEW told, Chosen(l, told)
        PROVE  Chosen(l, told)'
    BY <1>1, <1>2, <2>1, <2>5 DEF Chosen
  <2>6. ChosenInv'
    BY <1>1, <2>2, <2>5 DEF ChosenInv, DashboardTypeOK
  <2> QED
    BY <1>1, <2>3, <2>4, <2>6 DEF DashboardInv
<1> QED
  BY <1>3, <1>4, <1>5

\* A loan that is chosen is offered at that moment.
LEMMA ChooseStep ==
  ASSUME DashboardInv, NEW l, l \in ListedLoans \cup {Unchosen},
         ChooseToDisburse(l) \/ ChooseToPay(l)
  PROVE  DashboardInv'
<1> USE LoanDialogsAssumption
<1>1. /\ DashboardTypeOK /\ ListsInv /\ ChosenInv /\ sent \in Seq(Requests)
      /\ UNCHANGED <<book, listed, query, sent>> /\ Requests' = Requests
  BY SameBook DEF DashboardInv, ChooseToDisburse, ChooseToPay
<1>2. PICK f : f \in BOOLEAN /\ (f <=> l \in changed.list)
  OBVIOUS
<1>3. (l \in changed.list) = f
  BY <1>2
<1>4. ASSUME NEW told, told \in {"APPROVED", "ACTIVE"}, l \in Offered(told),
             l # Unchosen, ~f
      PROVE  Chosen(l, told)'
  BY <1>1, <1>2, <1>4 DEF Offered, Chosen, ListsInv
<1>5. CASE ChooseToDisburse(l)
  <2>1. /\ dis' = [dis EXCEPT !.loan = l] /\ UNCHANGED pay /\ l \in Offered("APPROVED")
        /\ changed' = [changed EXCEPT !.dis = f]
    BY <1>3, <1>5 DEF ChooseToDisburse
  <2>2. /\ DashboardTypeOK' /\ dis'.loan = l
        /\ changed'.list = changed.list /\ changed'.query = changed.query
        /\ changed'.dis = f /\ changed'.pay = changed.pay
    BY <1>1, <1>2, <2>1 DEF DashboardTypeOK
  <2>3. ChosenInv'
    BY <1>1, <1>4, <2>1, <2>2 DEF ChosenInv, Chosen
  <2>4. ListsInv'
    BY <1>1, <2>2 DEF ListsInv
  <2> QED
    BY <1>1, <2>2, <2>3, <2>4 DEF DashboardInv
<1>6. CASE ChooseToPay(l)
  <2>1. /\ pay' = [pay EXCEPT !.loan = l] /\ UNCHANGED dis /\ l \in Offered("ACTIVE")
        /\ changed' = [changed EXCEPT !.pay = f]
    BY <1>3, <1>6 DEF ChooseToPay
  <2>2. /\ DashboardTypeOK' /\ pay'.loan = l
        /\ changed'.list = changed.list /\ changed'.query = changed.query
        /\ changed'.pay = f /\ changed'.dis = changed.dis
    BY <1>1, <1>2, <2>1 DEF DashboardTypeOK
  <2>3. ChosenInv'
    BY <1>1, <1>4, <2>1, <2>2 DEF ChosenInv, Chosen
  <2>4. ListsInv'
    BY <1>1, <2>2 DEF ListsInv
  <2> QED
    BY <1>1, <2>2, <2>3, <2>4 DEF DashboardInv
<1> QED
  BY <1>5, <1>6

\* An answer is reported, or lost.
LEMMA AnswerStep ==
  ASSUME DashboardInv, NEW k \in DOMAIN sent, Reported(k) \/ AnswerLost(k)
  PROVE  DashboardInv'
<1>1. /\ DashboardTypeOK /\ ListsInv /\ ChosenInv /\ sent \in Seq(Requests)
      /\ UNCHANGED <<book, listed>> /\ Requests' = Requests
  BY SameBook DEF DashboardInv, Reported, AnswerLost
<1>2. sent' \in Seq(Requests)
  BY <1>1, Removed DEF Reported, AnswerLost
<1>3. CASE AnswerLost(k)
  <2>1. UNCHANGED <<book, listed, query, dis, pay, changed>> /\ DashboardTypeOK'
    BY <1>1, <1>3 DEF AnswerLost, DashboardTypeOK
  <2> QED
    BY <1>2, <2>1, OnlyShown
<1>4. CASE Reported(k)
  <2>1. /\ query' = Asked /\ changed' = [changed EXCEPT !.query = {}]
        /\ \/ dis' = [dis EXCEPT !.open = FALSE] /\ pay' = pay
           \/ pay' = [pay EXCEPT !.breakdown = TRUE] /\ dis' = dis
    BY <1>4 DEF Reported, DropList
  <2>2. /\ dis' \in [open : BOOLEAN, loan : ListedLoans \cup {Unchosen}]
        /\ pay' \in [open : BOOLEAN, loan : ListedLoans \cup {Unchosen},
                     breakdown : BOOLEAN]
        /\ dis'.loan = dis.loan /\ pay'.loan = pay.loan
    BY <1>1, <2>1 DEF DashboardTypeOK
  <2>3. Asked \in Queries /\ Asked.state # "read"
    BY DEF Asked, Queries, Unknown, Shown
  <2> QED
    BY <1>1, <1>2, <2>1, <2>2, <2>3, ListDropped
<1> QED
  BY <1>3, <1>4

\* No step of the dialogs, the other clients or the backend breaks it.
LEMMA DashboardStep == DashboardInv /\ [LoanDialogsNext]_dashboard => DashboardInv'
<1> SUFFICES ASSUME DashboardInv, [LoanDialogsNext]_dashboard
             PROVE  DashboardInv'
  OBVIOUS
<1> USE LoanDialogsAssumption
<1>0. DashboardTypeOK /\ ChosenInv /\ sent \in Seq(Requests)
  BY DEF DashboardInv
<1>1. CASE \E l \in ListedLoans : OtherClient(l) \/ OtherStatus(l)
  BY <1>1, OtherClientStep, OtherStatusStep
<1>2. CASE \E l \in ListedLoans \cup {Unchosen} : ChooseToDisburse(l) \/ ChooseToPay(l)
  BY <1>2, ChooseStep
<1>3. CASE Refetch \/ ReadLoans \/ ShowLoans \/ LoadFails
  BY <1>3, ListStep
<1>4. CASE OpenDisburse \/ CloseDisburse
  <2>1. /\ UNCHANGED <<book, listed, query, pay, sent, changed>>
        /\ \E b \in BOOLEAN : dis' = [dis EXCEPT !.open = b]
    BY <1>4 DEF OpenDisburse, CloseDisburse
  <2>2. DashboardTypeOK' /\ dis'.loan = dis.loan
    BY <1>0, <2>1 DEF DashboardTypeOK
  <2> QED
    BY <1>0, <2>1, <2>2, OnlyShown
<1>10. CASE OpenPay
  <2>1. /\ UNCHANGED <<book, listed, query, dis, sent, changed>>
        /\ pay' = [pay EXCEPT !.open = TRUE]
    BY <1>10 DEF OpenPay
  <2>2. DashboardTypeOK' /\ pay'.loan = pay.loan
    BY <1>0, <2>1 DEF DashboardTypeOK
  <2> QED
    BY <1>0, <2>1, <2>2, OnlyShown
<1>11. CASE ClosePay
  <2>1. /\ UNCHANGED <<book, listed, query, dis, sent>>
        /\ pay' = [open |-> FALSE, loan |-> Unchosen, breakdown |-> FALSE]
        /\ changed' = [changed EXCEPT !.pay = FALSE]
    BY <1>11 DEF ClosePay
  <2>2. /\ DashboardTypeOK' /\ pay'.loan = Unchosen
        /\ changed'.list = changed.list /\ changed'.query = changed.query
        /\ changed'.dis = changed.dis
    BY <1>0, <2>1 DEF DashboardTypeOK
  <2>3. ListsInv' /\ ChosenInv' /\ Requests' = Requests
    BY <2>1, <2>2, SameBook DEF DashboardInv, ListsInv, ChosenInv, Chosen
  <2> QED
    BY <1>0, <2>1, <2>2, <2>3 DEF DashboardInv
<1>5. CASE SendDisburse
  <2>1. /\ dis.loan \in ListedLoans /\ changed.dis \in BOOLEAN
        /\ Send("disburse", dis.loan, Required("disburse"), changed.dis)
        /\ ~changed.dis => Chosen(dis.loan, Required("disburse"))
    BY <1>0, <1>5 DEF SendDisburse, DashboardTypeOK, ChosenInv, Required
  <2> QED
    BY <2>1, Sent
<1>6. CASE SendPay
  <2>1. /\ pay.loan \in ListedLoans /\ changed.pay \in BOOLEAN
        /\ Send("pay", pay.loan, Required("pay"), changed.pay)
        /\ ~changed.pay => Chosen(pay.loan, Required("pay"))
    BY <1>0, <1>6 DEF SendPay, DashboardTypeOK, ChosenInv, Required
  <2> QED
    BY <2>1, Sent
<1>7. CASE \E k \in DOMAIN sent : ServeRequest(k)
  BY <1>7, ServeStep
<1>8. CASE \E k \in DOMAIN sent : Reported(k) \/ AnswerLost(k)
  BY <1>8, AnswerStep
<1>9. CASE UNCHANGED dashboard
  BY <1>0, <1>9, OnlyShown DEF dashboard, DashboardTypeOK
<1> QED
  BY <1>1, <1>2, <1>3, <1>4, <1>5, <1>6, <1>7, <1>8, <1>9, <1>10, <1>11
  DEF LoanDialogsNext

\* What a dialog gets accepted showed as selected when its button was clicked,
\* unless another client overruled the loan's status.
THEOREM AcceptedShownSelected == LoanDialogsSpec => []AcceptedWasShown
<1>1. DashboardInv => AcceptedWasShown
  <2> SUFFICES ASSUME DashboardInv, NEW k \in DOMAIN sent
               PROVE  sent[k].answer = "ok" => sent[k].foreseen
    BY DEF AcceptedWasShown
  <2>1. sent[k] \in Requests
    BY Removed DEF DashboardInv
  <2> QED
    BY <2>1 DEF Requests
<1> QED
  BY <1>1, DashboardStarts, DashboardStep, PTL DEF LoanDialogsSpec

-----------------------------------------------------------------------------
(***************************************************************************)
(* The lists.                                                              *)
(***************************************************************************)
(***************************************************************************)
(* Rows only move towards later pages, so what the pages so far have shown *)
(* grows from one page to the next without a gap.                          *)
(***************************************************************************)
PagesTypeOK ==
  /\ endpoint \in {"paged", "whole"}
  /\ created \in Nat
  /\ walk \in [page : Nat \ {0}, perPage : PerPages, started : 0..created]
  /\ loading \in BOOLEAN
  /\ reads \in [rows : Int, count : Int]
  /\ reads.rows = Unread \/ reads.rows \in walk.started..created
  /\ list \in [rows : Int, count : Int]

\* The first p pages, of as many rows as the shown page was read from, have
\* shown every row of the start that they hold.
Covered(p) ==
  \A r \in 1..walk.started :
    endpoint = "whole" \/ list.rows - r < p * walk.perPage => r \in seen

WalkInv ==
  /\ PagesTypeOK
  /\ ~loading \/ walk.page > 1 =>
       /\ list.rows \in walk.started..created
       /\ reads.rows # Unread => list.rows <= reads.rows
       /\ Covered(IF loading THEN walk.page - 1 ELSE walk.page)

-----------------------------------------------------------------------------
\* Pages follow each other without a gap.
LEMMA NextMultiple ==
  ASSUME NEW p \in Nat \ {0}, NEW n \in Nat
  PROVE  /\ (p - 1) * n \in Nat
         /\ (p - 1) * n + n = p * n
         /\ (p - 1) * n <= p * n
<1>1. (p - 1) * n = p * n - n
  BY SMT
<1>2. p - 1 \in Nat /\ n \in Nat
  BY SMT
<1>3. (p - 1) * n \in Nat
  BY <1>2, SMT
<1> QED
  BY <1>1, <1>3, SMT

\* A walk starts with nothing shown and nothing read.
LEMMA WalkInit == PagesInit => WalkInv
  BY PagesAssumption
  DEF PagesInit, WalkInv, PagesTypeOK, Nothing, Unread

\* The pages of a walk join up, whatever the other clients and the reads do.
LEMMA WalkStep == WalkInv /\ [PagesNext]_pages => WalkInv'
<1> SUFFICES ASSUME WalkInv, [PagesNext]_pages
             PROVE  WalkInv'
  OBVIOUS
<1> USE PagesAssumption
<1>. DEFINE p == walk.page
            n == walk.perPage
<1>0. /\ PagesTypeOK
      /\ p \in Nat \ {0} /\ n \in Nat /\ n \in PerPages /\ n <= MaxTake
  <2>1. PagesTypeOK
    BY DEF WalkInv
  <2>2. p \in Nat \ {0} /\ n \in PerPages
    BY <2>1 DEF PagesTypeOK
  <2>3. n \in 1..MaxTake /\ MaxTake \in Nat
    BY <2>2
  <2> QED
    BY <2>1, <2>2, <2>3
<1>a. /\ (p - 1) * n \in Nat
      /\ (p - 1) * n + n = p * n
      /\ (p - 1) * n <= p * n
  BY <1>0, NextMultiple
<1>1. CASE CreateRow
  <2>1. PagesTypeOK'
    BY <1>0, <1>1 DEF CreateRow, PagesTypeOK
  <2>2. UNCHANGED <<endpoint, walk, loading, reads, list, seen>> /\ created' = created + 1
    BY <1>1 DEF CreateRow
  <2> QED
    BY <1>0, <2>1, <2>2 DEF WalkInv, PagesTypeOK, Covered
<1>2. CASE ReadRows
  <2>1. PagesTypeOK'
    BY <1>0, <1>2 DEF ReadRows, PagesTypeOK
  <2>2. /\ UNCHANGED <<endpoint, created, walk, loading, list, seen>>
        /\ reads'.rows = created
    BY <1>0, <1>2 DEF ReadRows, PagesTypeOK
  <2> QED
    BY <1>0, <2>1, <2>2 DEF WalkInv, PagesTypeOK, Covered
<1>3. CASE ReadCount
  <2>1. PagesTypeOK'
    BY <1>0, <1>3 DEF ReadCount, PagesTypeOK
  <2>2. /\ UNCHANGED <<endpoint, created, walk, loading, list, seen>>
        /\ reads'.rows = reads.rows
    BY <1>0, <1>3 DEF ReadCount, PagesTypeOK
  <2> QED
    BY <1>0, <2>1, <2>2 DEF WalkInv, PagesTypeOK, Covered
<1>4. CASE ReadAgain
  <2>1. PagesTypeOK'
    BY <1>0, <1>4 DEF ReadAgain, PagesTypeOK, Nothing, Unread
  <2>2. /\ UNCHANGED <<endpoint, created, walk, loading, list, seen>>
        /\ reads'.rows = Unread
    BY <1>4 DEF ReadAgain, Nothing
  <2> QED
    BY <1>0, <2>1, <2>2 DEF WalkInv, PagesTypeOK, Covered
<1>5. CASE ShowPage
  <2>1. PagesTypeOK'
    <3>1. /\ UNCHANGED <<endpoint, created, walk>>
          /\ list' = reads /\ reads' = Nothing /\ loading' = FALSE
      BY <1>5 DEF ShowPage
    <3>2. Nothing \in [rows : Int, count : Int] /\ Nothing.rows = Unread
      BY DEF Nothing, Unread
    <3> QED
      BY <1>0, <3>1, <3>2 DEF PagesTypeOK
  <2>2. /\ UNCHANGED <<endpoint, created, walk>>
        /\ loading /\ ~loading' /\ list' = reads /\ reads'.rows = Unread
        /\ reads.rows \in walk.started..created
        /\ seen' = seen \cup PageRows(reads.rows, p, n)
    BY <1>0, <1>5 DEF ShowPage, Nothing, PagesTypeOK
  <2>3. ASSUME NEW r \in 1..walk.started,
               endpoint = "whole" \/ reads.rows - r < p * n
        PROVE  r \in seen'
    <3>0. r \in 1..reads.rows /\ reads.rows \in Int /\ r \in Int
      BY <1>0, <2>2 DEF PagesTypeOK
    <3>1. CASE endpoint = "whole"
      BY <2>2, <3>0, <3>1 DEF PageRows
    <3>2. CASE endpoint # "whole" /\ reads.rows - r >= (p - 1) * n
      <4>1. Skip(p, n) = (p - 1) * n /\ Take(n) = n
        BY <1>0 DEF Skip, Take
      <4>2. reads.rows - r <= (p - 1) * n + n - 1
        BY <1>0, <1>a, <2>3, <3>0, <3>2
      <4>3. reads.rows - r \in Skip(p, n)..(Skip(p, n) + Take(n) - 1)
        BY <1>0, <1>a, <3>0, <3>2, <4>1, <4>2
      <4> QED
        BY <2>2, <3>0, <3>2, <4>3 DEF PageRows
    <3>3. CASE endpoint # "whole" /\ reads.rows - r < (p - 1) * n
      <4>1. p > 1
        <5>1. reads.rows - r >= 0
          BY <3>0
        <5>2. p = 1 => (p - 1) * n = 0
          BY <1>0
        <5>3. p # 1
          BY <1>a, <3>0, <3>3, <5>1, <5>2
        <5> QED
          BY <1>0, <5>3
      <4>2. list.rows <= reads.rows /\ list.rows \in Int /\ Covered(p - 1)
        BY <1>0, <2>2, <4>1 DEF WalkInv, PagesTypeOK, Unread
      <4>3. list.rows - r < (p - 1) * n
        BY <1>a, <3>0, <3>3, <4>2
      <4> QED
        BY <2>2, <4>2, <4>3 DEF Covered
    <3> QED
      BY <1>a, <3>0, <3>1, <3>2, <3>3
  <2>4. Covered(p)'
    BY <2>2, <2>3 DEF Covered
  <2> QED
    BY <2>1, <2>2, <2>4 DEF WalkInv
<1>6. CASE NextPage
  <2>1. PagesTypeOK'
    BY <1>0, <1>6 DEF NextPage, PagesTypeOK
  <2>2. /\ UNCHANGED <<endpoint, created, reads, list, seen>>
        /\ ~loading /\ loading' /\ walk'.page - 1 = walk.page
        /\ walk'.perPage = walk.perPage /\ walk'.started = walk.started
    BY <1>0, <1>6 DEF NextPage, PagesTypeOK
  <2> QED
    BY <1>0, <2>1, <2>2 DEF WalkInv, PagesTypeOK, Covered
<1>7. CASE Reload
  <2>1. PagesTypeOK'
    BY <1>0, <1>7 DEF Reload, PagesTypeOK
  <2>2. UNCHANGED <<endpoint, created, walk, reads, list, seen>> /\ ~loading /\ loading'
    BY <1>7 DEF Reload
  <2>3. Covered(p - 1)
    BY <1>0, <1>a, <2>2 DEF WalkInv, PagesTypeOK, Covered
  <2> QED
    BY <1>0, <2>1, <2>2, <2>3 DEF WalkInv, PagesTypeOK, Covered
<1>8. CASE \E k \in PerPages : FirstPage(k)
  <2>1. PagesTypeOK'
    BY <1>0, <1>8 DEF FirstPage, PagesTypeOK, Nothing, Unread
  <2> QED
    BY <1>8, <2>1 DEF FirstPage, WalkInv
<1>9. CASE UNCHANGED pages
  BY <1>9 DEF pages, WalkInv, PagesTypeOK, Covered
<1> QED
  BY <1>1, <1>2, <1>3, <1>4, <1>5, <1>6, <1>7, <1>8, <1>9 DEF PagesNext

\* The last page covers all rows.
LEMMA WalkInvIsEnough == WalkInv => WalkMissesNothing
<1> SUFFICES ASSUME WalkInv, AtEnd, TotalOf(list) >= list.rows,
                    NEW r \in 1..walk.started
             PROVE  r \in seen
  BY DEF WalkMissesNothing
<1>1. ~loading /\ Covered(walk.page) /\ PagesTypeOK /\ TotalOf(list) \in Int
  BY DEF WalkInv, AtEnd, TotalOf, PagesTypeOK
<1>2. walk.page * walk.perPage \in Int
  <2>1. walk.page \in Nat /\ walk.perPage \in PerPages
    BY <1>1 DEF PagesTypeOK
  <2>2. walk.perPage \in Nat
    BY <2>1, PagesAssumption, 1..MaxTake \subseteq Nat
  <2> HIDE <1>1
  <2> QED
    BY <2>1, <2>2, SMT
<1>3. list.rows - r < walk.page * walk.perPage
  BY <1>1, <1>2 DEF AtEnd, PagesTypeOK
<1> QED
  BY <1>1, <1>3 DEF Covered

\* What a walk through the pages shows: the state it keeps has its types.
THEOREM PagesTypes == PagesSpec => []PagesTypeOK
<1>1. WalkInv => PagesTypeOK
  BY DEF WalkInv
<1> QED
  BY <1>1, WalkInit, WalkStep, PTL DEF PagesSpec

\* Whoever pages to the end, with a total that is not older than the rows, has
\* seen every row there was at the start.
THEOREM PagesShowAll == PagesSpec => []WalkMissesNothing
  BY WalkInit, WalkStep, WalkInvIsEnough, PTL DEF PagesSpec

-----------------------------------------------------------------------------
\* Each part of the tab behaves as the module that describes it, or rests.
LEMMA TabParts == TabSpec => DialogSpec /\ LoanDialogsSpec /\ PagesSpec
<1>1. TabInit => DialogInit /\ LoanDialogsInit /\ PagesInit
  BY DEF TabInit
<1>2. [TabNext]_tab =>
        [DialogNext]_vars /\ [LoanDialogsNext]_dashboard /\ [PagesNext]_pages
  BY DEF TabNext, tab
<1> QED
  BY <1>1, <1>2, PTL DEF TabSpec, DialogSpec, LoanDialogsSpec, PagesSpec

\* In the tab, whatever page it shows, what the rollback button would undo was
\* picked under its label, what was undone is offered again only if it has
\* FAILED, nothing is disbursed or paid that did not show as selected and whose
\* status nobody overruled, and whoever pages to the end has seen every row.
THEOREM TabKeepsPromises ==
  TabSpec => [](PickedAsShown /\ NotOfferedAgain /\ AcceptedWasShown
                /\ WalkMissesNothing)
  BY TabParts, PickedUnderItsLabel, ReportedNotOffered, AcceptedShownSelected,
     PagesShowAll, PTL
=============================================================================
