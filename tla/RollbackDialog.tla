--------------------------- MODULE RollbackDialog ---------------------------
(***************************************************************************)
(* The admin page's dialog that undoes a disbursement or a payment.  Each  *)
(* opening and each change of type asks for a list; answers arrive when    *)
(* they do.  The button stays enabled while a rollback is under way.       *)
(* Other clients disburse, pay and roll back too.  A rollback is one step   *)
(* of the backend here; its own races are those of LoanSystem.             *)
(***************************************************************************)
EXTENDS SequencesExt

CONSTANTS Disbursed,     \* records of type disbursement
          Paid,          \* records of type payment
          None,          \* the empty record id
          MaxFetches,    \* bound: lists asked for and not answered
          MaxPosts,      \* bound: rollbacks sent and not answered
          Network        \* "reorders": a later list may be answered first,
                         \* "loses": a request may fail

ASSUME DialogAssumption ==
  /\ Disbursed \cap Paid = {} /\ None \notin Disbursed \cup Paid
  /\ MaxFetches \in Nat \ {0} /\ MaxPosts \in Nat \ {0}
  /\ Network \subseteq {"reorders", "loses"}

VARIABLES
  open, operationType, recordId, options,   \* the component's state
  status,    \* status[x] in the database, "NONE" before it is created
  running,   \* disbursements whose disburseLoan has not ended
  fetches,   \* lists asked for, in that order: the type, and what was read
  posts,     \* rollbacks sent: the type, the record, the backend's answer
  shown,     \* the type under which recordId was picked
  undone,    \* records whose rollback this dialog has reported
  known      \* those reported before the list of the options was asked for

dialog == <<open, operationType, recordId, options, fetches, posts, shown,
            undone, known>>
table == <<status, running>>
vars == <<dialog, table>>

Records == Disbursed \cup Paid
OfType(type) == IF type = "disbursement" THEN Disbursed ELSE Paid

DialogInit ==
  /\ open = FALSE
  /\ operationType = "disbursement" /\ recordId = None /\ options = {}
  /\ status = [x \in Records |-> "NONE"] /\ running = {}
  /\ fetches = <<>> /\ posts = <<>>
  /\ shown = None /\ undone = {} /\ known = {}

(***************************************************************************)
(* The backend, and what other clients have it do.                         *)
(***************************************************************************)
\* A disbursement is claimed PENDING, a payment recorded COMPLETED.
Create(x) ==
  /\ status[x] = "NONE"
  /\ \/ /\ x \in Disbursed
        /\ status' = [status EXCEPT ![x] = "PENDING"]
        /\ running' = running \cup {x}
     \/ /\ x \in Paid
        /\ status' = [status EXCEPT ![x] = "COMPLETED"] /\ UNCHANGED running
  /\ UNCHANGED dialog

\* disburseLoan completes its row after the commit; undoes it when something
\* fails after that; and marks the row FAILED whenever anything has failed,
\* also what is ROLLED_BACK by then.  It ends there, with its answer, or with
\* a crash, at any point.
DisburseGoesOn(x) ==
  /\ x \in running
  /\ \/ /\ status[x] = "PENDING"
        /\ status' = [status EXCEPT ![x] = "COMPLETED"] /\ UNCHANGED running
     \/ /\ status[x] = "COMPLETED"
        /\ status' = [status EXCEPT ![x] = "ROLLED_BACK"] /\ UNCHANGED running
     \/ status' = [status EXCEPT ![x] = "FAILED"] /\ running' = running \ {x}
     \/ UNCHANGED status /\ running' = running \ {x}
  /\ UNCHANGED dialog

\* What may be rolled back.  rolledBackAt, which is asked for too, is only set
\* with the status ROLLED_BACK, after which no row is COMPLETED again.
Undoable(x) == status[x] = "COMPLETED"

OtherRollback(x) ==
  /\ Undoable(x)
  /\ status' = [status EXCEPT ![x] = "ROLLED_BACK"]
  /\ UNCHANGED <<dialog, running>>

(***************************************************************************)
(* The dialog.                                                             *)
(***************************************************************************)
\* The effect that runs when the dialog opens or the type changes.
Ask(type) ==
  /\ Len(fetches) < MaxFetches
  /\ fetches' = Append(fetches, [type |-> type, read |-> FALSE, data |-> {},
                                known |-> undone])

Open ==
  /\ ~open /\ open' = TRUE
  /\ Ask(operationType)
  /\ UNCHANGED <<operationType, recordId, options, table, posts, shown,
                 undone, known>>

ChangeTypeOnly(type) ==   \* mutant: the record stays selected
  /\ open /\ type # operationType
  /\ operationType' = type
  /\ Ask(type)
  /\ UNCHANGED <<open, recordId, options, table, posts, shown, undone, known>>
ChangeType(type) ==
  /\ open /\ type # operationType
  /\ operationType' = type /\ recordId' = None
  /\ Ask(type)
  /\ UNCHANGED <<open, options, table, posts, shown, undone, known>>

\* The backend reads a list: the newest rows, which are all here, of every
\* status.
Read(i) ==
  LET f == fetches[i] IN
  /\ ~f.read
  /\ fetches' = [fetches EXCEPT ![i] =
       [f EXCEPT !.read = TRUE,
                 !.data = {<<x, status[x]>> : x \in {y \in OfType(f.type) :
                                                     status[y] # "NONE"}}]]
  /\ UNCHANGED <<open, operationType, recordId, options, table, posts, shown,
                 undone, known>>

\* The answer becomes the options, whatever the dialog shows by now.
OfferAll(data) == {row[1] : row \in data}   \* mutant
Offer(data) == {row[1] : row \in {row \in data : row[2] # "ROLLED_BACK"}}
Arrive(i) ==
  /\ fetches[i].read
  /\ i = 1 \/ "reorders" \in Network
  /\ known' = fetches[i].known
  /\ options' = Offer(fetches[i].data)
  /\ fetches' = RemoveAt(fetches, i)
  /\ UNCHANGED <<open, operationType, recordId, table, posts, shown, undone>>

\* An error is shown; the options stay.
FetchFails(i) ==
  /\ "loses" \in Network
  /\ fetches' = RemoveAt(fetches, i)
  /\ UNCHANGED <<open, operationType, recordId, options, table, posts, shown,
                 undone, known>>

Pick(x) ==
  /\ open /\ x \in options
  /\ recordId' = x /\ shown' = operationType
  /\ UNCHANGED <<open, operationType, options, table, fetches, posts, undone,
                 known>>

\* The button asks for a record (and a reason, which is left out).
Submit ==
  /\ open /\ recordId # None
  /\ Len(posts) < MaxPosts
  /\ posts' = Append(posts, [type |-> operationType, id |-> recordId, answer |-> "none"])
  /\ UNCHANGED <<open, operationType, recordId, options, table, fetches,
                 shown, undone, known>>

\* The record is looked up by type and id, and must be COMPLETED.
Serve(k) ==
  LET p == posts[k] IN
  /\ p.answer = "none"
  /\ p.id \in OfType(p.type) /\ Undoable(p.id)
  /\ status' = [status EXCEPT ![p.id] = "ROLLED_BACK"]
  /\ posts' = [posts EXCEPT ![k].answer = "ok"]
  /\ UNCHANGED <<open, operationType, recordId, options, running, fetches,
                 shown, undone, known>>

\* Success closes and resets the dialog, also one that was opened again.
Reset == open' = FALSE /\ recordId' = None /\ operationType' = "disbursement"
Succeeded(k) ==
  /\ posts[k].answer = "ok"
  /\ Reset
  /\ undone' = undone \cup {posts[k].id}
  /\ posts' = RemoveAt(posts, k)
  /\ UNCHANGED <<options, table, fetches, shown, known>>

\* A refusal or a failure, or an answer that never comes, is only reported.
Refused(k) ==
  /\ posts[k].answer = "none" \/ "loses" \in Network
  /\ posts' = RemoveAt(posts, k)
  /\ UNCHANGED <<open, operationType, recordId, options, table, fetches,
                 shown, undone, known>>

\* Cancelling keeps what was selected.
Cancel ==
  /\ open /\ open' = FALSE
  /\ UNCHANGED <<operationType, recordId, options, table, fetches, posts,
                 shown, undone, known>>

DialogNext ==
  \/ \E x \in Records : Create(x) \/ DisburseGoesOn(x) \/ OtherRollback(x)
  \/ Open \/ Submit \/ Cancel
  \/ \E type \in {"disbursement", "payment"} : ChangeType(type)
  \/ \E x \in Records : Pick(x)
  \/ \E i \in DOMAIN fetches : Read(i) \/ Arrive(i) \/ FetchFails(i)
  \/ \E k \in DOMAIN posts : Serve(k) \/ Succeeded(k) \/ Refused(k)

DialogSpec == DialogInit /\ [][DialogNext]_vars
-----------------------------------------------------------------------------
\* What the button would undo was picked from the list under the label that is
\* shown now, whatever answers came and went since.
PickedAsShown == recordId # None => shown = operationType

\* A list asked for after a rollback was reported never offers a payment that
\* was undone ("Filter out records that are already rolled back"), whenever it
\* arrives and whatever failed.  It offers a disbursement only where
\* disburseLoan has overwritten ROLLED_BACK by FAILED.
NotOfferedAgain ==
  \A x \in options \cap known : x \in Disbursed /\ status[x] = "FAILED"
=============================================================================
