----------------------------- MODULE AuditTrail -----------------------------
(***************************************************************************)
(* The audit log and the database connections it shares with the requests  *)
(* it reports on.  LoggerService writes entries without waiting for them;  *)
(* LoansService and RollbackService await theirs, and a rollback does so   *)
(* with its transaction open, on a second connection of the pool.  What a  *)
(* request does to the loans is one effect here; see LoanSystem for that.  *)
(* Entries about the start and the progress of a request are left out.     *)
(***************************************************************************)
EXTENDS Naturals, FiniteSets

CONSTANTS Requests,
          Kind,      \* Kind[r]: the handler that serves r
          Pool,      \* connections of the Prisma client
          Faults     \* "db": statements fail or time out, "ack": they work and
                     \* report an error, "audit": audit entries fail, "crash":
                     \* the process restarts

ASSUME AuditAssumption ==
  /\ IsFiniteSet(Requests)
  /\ Kind \in [Requests -> {"loan", "undo", "pay", "disburse"}]
  /\ Pool \in Nat \ {0}
  /\ Faults \subseteq {"db", "ack", "audit", "crash"}

VARIABLES
  pc,         \* pc[r]: where the handler of r is
  work,       \* work[r]: Kind[r], or "undo" in the compensation of a disbursement
  held,       \* the requests with an open transaction, each holds a connection
  pending,    \* entries handed to the logger and not yet written
  audit,      \* rows of audit_logs: <<request, entry>>
  console,    \* entries that could not be written, by console.error
  records,    \* requests with a rollback_records row written by SYSTEM
  committed,  \* effects in the database: <<request, entry that reports it>>
  restarted   \* the process has been restarted

vars == <<pc, work, held, pending, audit, console, records, committed, restarted>>

AuditInit ==
  /\ pc = [r \in Requests |-> "idle"]
  /\ work = Kind
  /\ held = {} /\ pending = {} /\ audit = {} /\ console = {}
  /\ records = {} /\ committed = {} /\ restarted = FALSE

Goto(r, label) == pc' = [pc EXCEPT ![r] = label]

\* A statement outside a transaction borrows a connection for its duration.
Free == Cardinality(held) < Pool

\* Nothing goes on until a transaction times out (5 s): every connection is
\* held by a request that waits for one more.  Waiting for a statement's
\* connection takes longer to give up (10 s), waiting to begin a transaction
\* less (2 s).
Starved == ~Free /\ \A s \in held : pc[s] = "audit"

\* writeToDatabase: fire and forget.
LoggedUnlessError(r, e) ==   \* mutant: the level that is skipped is the wrong one
  IF e = "error" THEN pending ELSE pending \cup {<<r, e>>}
Logged(r, e) == pending \cup {<<r, e>>}

\* logAudit and logAuditEvent swallow every error.
Write(x) ==
  /\ Free
  /\ \/ audit' = audit \cup {x} /\ UNCHANGED console
     \/ "audit" \in Faults /\ console' = console \cup {x} /\ UNCHANGED audit

\* An entry the handler waits for.
NotAwaited(r, e, next) ==   \* mutant
  /\ pending' = pending \cup {<<r, e>>}
  /\ Goto(r, next) /\ UNCHANGED <<audit, console>>
Await(r, e, next) ==
  /\ Write(<<r, e>>)
  /\ Goto(r, next) /\ UNCHANGED pending

\* The entry that reports the effect of r.
Effect(r) == CASE work[r] = "loan" -> "change"
               [] work[r] = "undo" -> "undone"
               [] OTHER            -> "completed"

\* An update takes effect, fails, or takes effect and reports a failure.
Took(r)     == committed' = committed \cup {<<r, Effect(r)>>}
NotTaken(r) == "db" \in Faults /\ UNCHANGED committed
AckLost(r)  == "ack" \in Faults /\ Took(r)
-----------------------------------------------------------------------------
\* createLoan and updateLoanStatus: the write, then an awaited entry.
WriteLoan(r) ==
  /\ work[r] = "loan" /\ pc[r] = "idle" /\ Free
  /\ \/ Took(r) /\ Goto(r, "audit")
     \/ NotTaken(r) /\ Goto(r, "failed")
     \/ AckLost(r) /\ Goto(r, "failed")
  /\ UNCHANGED <<work, held, pending, audit, console, records, restarted>>

AuditLoan(r) ==
  /\ work[r] = "loan" /\ pc[r] = "audit"
  /\ Await(r, "change", "done")
  /\ UNCHANGED <<work, held, records, committed, restarted>>

\* disburseLoan claims the loan; a failing claim leaves no entry.
Claim(r) ==
  /\ work[r] = "disburse" /\ pc[r] = "idle" /\ Free
  /\ Goto(r, "begin") \/ ("db" \in Faults /\ Goto(r, "failed"))
  /\ UNCHANGED <<work, held, pending, audit, console, records, committed, restarted>>

\* Where a handler goes on when its transaction does not commit: the wrapper
\* writes a rollback record; the undo of an admin just fails, the undo of a
\* failed disbursement returns to the catch block that marks the row FAILED.
TxFailed(r) == IF work[r] # "undo" THEN "record"
               ELSE IF Kind[r] = "undo" THEN "failed" ELSE "mark"

\* prisma.$transaction takes a connection or gives up.
BeginTransaction(r) ==
  /\ pc[r] = "begin" \/ (pc[r] = "idle" /\ work[r] \in {"undo", "pay"})
  /\ \/ Free /\ held' = held \cup {r} /\ Goto(r, "open")
     \/ /\ Starved \/ "db" \in Faults
        /\ Goto(r, TxFailed(r)) /\ UNCHANGED held
  /\ UNCHANGED <<work, pending, audit, console, records, committed, restarted>>

\* The statements of the transaction.  processPayment logs that it completed
\* as the last thing it does in there.
LastCallOfAny(r) == IF work[r] # "undo" THEN Logged(r, "completed") ELSE pending   \* mutant
LastCall(r) == IF work[r] = "pay" THEN Logged(r, "completed") ELSE pending
Work(r) ==
  /\ pc[r] = "open"
  /\ \/ /\ r \in held
        /\ Goto(r, IF work[r] = "undo" THEN "audit" ELSE "commit")
        /\ pending' = LastCall(r) /\ UNCHANGED held
     \/ /\ r \notin held \/ "db" \in Faults
        /\ held' = held \ {r}
        /\ Goto(r, TxFailed(r)) /\ UNCHANGED pending
  /\ UNCHANGED <<work, audit, console, records, committed, restarted>>

\* rollbackDisbursement and rollbackPayment: a second connection is needed.
AuditUndo(r) ==
  /\ work[r] = "undo" /\ pc[r] = "audit"
  /\ Await(r, "undone", "commit")
  /\ UNCHANGED <<work, held, records, committed, restarted>>

\* When the commit of a disbursement fails, the wrapper knows the id of the
\* transaction row; of a payment it never does.
CommitFailed(r) == IF work[r] = "disburse" THEN "record named" ELSE TxFailed(r)
Committed(r) == CASE work[r] = "disburse" -> "complete"
                  [] Kind[r] = "disburse" -> "mark"
                  [] OTHER                -> "done"
Commit(r) ==
  /\ pc[r] = "commit"
  /\ held' = held \ {r}
  /\ \/ r \in held /\ Took(r) /\ Goto(r, Committed(r))
     \/ r \in held /\ AckLost(r) /\ Goto(r, CommitFailed(r))
     \/ /\ r \notin held \/ "db" \in Faults
        /\ Goto(r, CommitFailed(r)) /\ UNCHANGED committed
  /\ UNCHANGED <<work, pending, audit, console, records, restarted>>

\* The update to COMPLETED.  When it fails the error is logged and
\* rollbackDisbursement called, which refuses a row that is still PENDING.
Complete(r) ==
  /\ pc[r] = "complete" /\ Free
  /\ \/ Goto(r, "done") /\ pending' = Logged(r, "completed") /\ UNCHANGED work
     \/ /\ "db" \in Faults /\ Goto(r, "mark")
        /\ pending' = Logged(r, "error") /\ UNCHANGED work
     \/ /\ "ack" \in Faults /\ Goto(r, "begin")
        /\ pending' = Logged(r, "error")
        /\ work' = [work EXCEPT ![r] = "undo"]
  /\ UNCHANGED <<held, audit, console, records, committed, restarted>>

\* The catch block of processPayment ends the request, that of disburseLoan
\* goes on to mark the row.  Both log the error first.
NotRethrown(r) ==   \* mutant: the wrapper swallows the error it recorded
  /\ Goto(r, IF work[r] = "pay" THEN "done" ELSE "complete")
  /\ UNCHANGED pending
Caught(r) ==
  /\ pending' = Logged(r, "error")
  /\ Goto(r, IF work[r] = "pay" THEN "failed" ELSE "mark")

\* logRollback: the record, and an entry when the transaction has an id.  An
\* error here replaces the one that led to it.
RecordRollback(r) ==
  /\ pc[r] \in {"record", "record named"} /\ Free
  /\ \/ /\ records' = records \cup {r}
        /\ \/ pc[r] = "record" /\ Caught(r)
           \/ pc[r] = "record named" /\ Goto(r, "name") /\ UNCHANGED pending
     \/ "db" \in Faults /\ Caught(r) /\ UNCHANGED records
  /\ UNCHANGED <<work, held, audit, console, committed, restarted>>

AuditRollback(r) ==
  /\ pc[r] = "name"
  /\ Write(<<r, "rolled back">>)
  /\ Caught(r)
  /\ UNCHANGED <<work, held, records, committed, restarted>>

\* The update to FAILED; whether it works or not, the client gets an error.
MarkFailed(r) ==
  /\ pc[r] = "mark" /\ Free
  /\ Goto(r, "failed")
  /\ UNCHANGED <<work, held, pending, audit, console, records, committed, restarted>>

\* Prisma ends a transaction that waits for 5 seconds; its connection is free
\* again, the handler learns of it at its next statement.
NeverExpires(r) == FALSE   \* mutant
Expires(r) == r \in held /\ Starved
Expire(r) ==
  /\ Expires(r)
  /\ held' = held \ {r}
  /\ UNCHANGED <<pc, work, pending, audit, console, records, committed, restarted>>

\* An entry handed to the logger reaches the database, or its error is dropped.
Flush(x) ==
  /\ x \in pending
  /\ pending' = pending \ {x}
  /\ Write(x)
  /\ UNCHANGED <<pc, work, held, records, committed, restarted>>

\* A restart loses what runs and what waits to be written.
Ended == {"done", "failed", "lost"}
Running(r) == pc[r] \notin Ended \cup {"idle"}
Restart ==
  /\ "crash" \in Faults
  /\ \E r \in Requests : Running(r)
  /\ pc' = [r \in Requests |-> IF Running(r) THEN "lost" ELSE pc[r]]
  /\ held' = {} /\ pending' = {} /\ restarted' = TRUE
  /\ UNCHANGED <<work, audit, console, records, committed>>

Handle(r) ==
  \/ WriteLoan(r) \/ AuditLoan(r) \/ Claim(r) \/ BeginTransaction(r) \/ Work(r)
  \/ AuditUndo(r) \/ Commit(r) \/ Complete(r) \/ RecordRollback(r)
  \/ AuditRollback(r) \/ MarkFailed(r) \/ Expire(r)

AuditNext ==
  \/ \E r \in Requests : Handle(r)
  \/ \E x \in pending : Flush(x)
  \/ Restart

(***************************************************************************)
(* Handlers go on when the database answers, transactions are timed out,   *)
(* the pool serves those who wait, and the logger's promises are resolved  *)
(* by the event loop.                                                      *)
(***************************************************************************)
Entries == {"change", "undone", "completed", "error", "rolled back"}
AuditFairness == /\ \A r \in Requests : WF_vars(Handle(r))
                 /\ \A x \in Requests \X Entries : WF_vars(Flush(x))
AuditSpec == AuditInit /\ [][AuditNext]_vars /\ AuditFairness
-----------------------------------------------------------------------------
\* A loan change or an undo that is answered with success has its entry, for
\* those handlers await it; at worst the entry is on the console.
AnsweredMeansAudited ==
  \A r \in Requests :
    pc[r] = "done" /\ Kind[r] \in {"loan", "undo"}
      => <<r, Effect(r)>> \in audit \cup console

\* What loan changes and disbursements report has been done: they report after
\* the fact, also while the entry is still on its way.
ReportedAfterTheFact ==
  \A x \in audit \cup console \cup pending :
    x[2] \in {"change", "completed"} /\ Kind[x[1]] \in {"loan", "disburse"}
      => x \in committed

\* A request whose transaction was recorded as rolled back, "Re-throw the error
\* for the caller to handle" (transaction-wrapper.helper.ts), is never answered
\* with success.
RecordedNeverSucceeds == \A r \in records : pc[r] # "done"

\* Every request is answered, also when all connections are held by rollbacks
\* that wait for one more; and every payment and disbursement that succeeds and
\* every payment that fails reaches the trail or the console, unless a restart
\* cuts it off.
Told(r) ==
  /\ pc[r] = "done" /\ Kind[r] \in {"pay", "disburse"} =>
       <<r, "completed">> \in committed \cap (audit \cup console)
  /\ pc[r] = "failed" /\ Kind[r] = "pay" => <<r, "error">> \in audit \cup console
EveryEndIsTold ==
  <>(\A r \in Requests : pc[r] \in Ended /\ (Told(r) \/ restarted))
=============================================================================
