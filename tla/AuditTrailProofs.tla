-------------------------- MODULE AuditTrailProofs --------------------------
(***************************************************************************)
(* The safety of the audit trail, for any requests, any pool of            *)
(* connections and every failure of the model.  The argument follows each  *)
(* request: where its handler is tells what it has committed, what it has  *)
(* written, and whether it has been recorded as rolled back.               *)
(***************************************************************************)
EXTENDS AuditTrail, TLAPS

Kinds == {"loan", "undo", "pay", "disburse"}
Places == {"idle", "begin", "open", "audit", "commit", "complete", "record",
           "record named", "name", "mark"} \cup Ended

\* Entries that have left a handler.
Sent == audit \cup console \cup pending
Kept == audit \cup console

AuditTypeOK ==
  /\ pc \in [Requests -> Places]
  /\ work \in [Requests -> Kinds]
  /\ held \subseteq Requests
  /\ Sent \subseteq Requests \X Entries
  /\ records \subseteq Requests
  /\ committed \subseteq Requests \X Entries

\* A handler does what its request asks for, or undoes a disbursement.
DoesItsKind(r) ==
  /\ work[r] = Kind[r] \/ (Kind[r] = "disburse" /\ work[r] = "undo")
  /\ Kind[r] = "loan" => pc[r] \in {"idle", "audit"} \cup Ended
  /\ pc[r] = "audit" => work[r] \in {"loan", "undo"}
  /\ pc[r] = "complete" => work[r] = "disburse"

\* A loan change is audited after it committed, an undo before.
Audited(r) ==
  /\ Kind[r] = "loan" /\ pc[r] \in {"audit", "done"} => <<r, "change">> \in committed
  /\ Kind[r] = "loan" /\ pc[r] = "done" => <<r, "change">> \in Kept
  /\ Kind[r] = "undo" /\ pc[r] \in {"commit", "done"} => <<r, "undone">> \in Kept
  /\ pc[r] = "complete" => <<r, "completed">> \in committed

\* A rollback that is recorded leads to an error.
Recorded(r) == r \in records => pc[r] \in {"name", "mark", "failed", "lost"}

TrailInv ==
  /\ AuditTypeOK
  /\ \A r \in Requests : DoesItsKind(r) /\ Audited(r) /\ Recorded(r)
  /\ ReportedAfterTheFact

-----------------------------------------------------------------------------
\* No request has started.
LEMMA TrailStarts == AuditInit => TrailInv
  BY AuditAssumption
  DEF AuditInit, TrailInv, AuditTypeOK, DoesItsKind, Audited, Recorded,
      ReportedAfterTheFact, Sent, Kept, Kinds, Places, Ended

(***************************************************************************)
(* A step of one handler: the others keep their place and their work, and  *)
(* neither a committed effect nor a written entry is lost.                 *)
(***************************************************************************)
LEMMA OneHandler ==
  ASSUME TrailInv, AuditTypeOK', NEW r \in Requests,
         \A s \in Requests \ {r} : pc'[s] = pc[s] /\ work'[s] = work[s],
         committed \subseteq committed', Kept \subseteq Kept',
         records' \subseteq records \cup {r},
         DoesItsKind(r)', Audited(r)', Recorded(r)', ReportedAfterTheFact'
  PROVE  TrailInv'
<1>1. ASSUME NEW s \in Requests, s # r
      PROVE  DoesItsKind(s)' /\ Audited(s)' /\ Recorded(s)'
  <2>1. pc'[s] = pc[s] /\ work'[s] = work[s]
    BY <1>1
  <2>2. DoesItsKind(s) /\ Audited(s) /\ Recorded(s)
    BY DEF TrailInv
  <2> QED
    BY <1>1, <2>1, <2>2 DEF DoesItsKind, Audited, Recorded
<1> QED
  BY <1>1 DEF TrailInv

\* What is reported stays true when it is kept, and while no new entry reports
\* a change or a completion.
LEMMA StillReported ==
  ASSUME ReportedAfterTheFact, committed \subseteq committed',
         \A x \in Sent' \ Sent :
           x[2] \in {"change", "completed"} /\ Kind[x[1]] \in {"loan", "disburse"}
             => x \in committed'
  PROVE  ReportedAfterTheFact'
  BY DEF ReportedAfterTheFact, Sent

-----------------------------------------------------------------------------
\* No step of a handler breaks the invariant.
LEMMA HandlerStep ==
  ASSUME TrailInv, NEW r \in Requests, Handle(r)
  PROVE  TrailInv'
<1> USE AuditAssumption
<1>0. /\ AuditTypeOK /\ ReportedAfterTheFact
      /\ DoesItsKind(r) /\ Audited(r) /\ Recorded(r)
      /\ pc[r] \in Places /\ work[r] \in Kinds /\ Kind[r] \in Kinds
  BY DEF TrailInv, AuditTypeOK, Kinds
<1>a. ASSUME NEW label \in Places, Goto(r, label)
      PROVE  /\ pc' \in [Requests -> Places] /\ pc'[r] = label
             /\ \A s \in Requests \ {r} : pc'[s] = pc[s]
  BY <1>0, <1>a DEF Goto, AuditTypeOK
<1>b. /\ \A e \in Entries : <<r, e>> \in Requests \X Entries
      /\ {"change", "undone", "completed", "error", "rolled back"} = Entries
  BY DEF Entries
<1>1. CASE WriteLoan(r)
  <2>1. PICK label \in {"audit", "failed"} : Goto(r, label)
    BY <1>1 DEF WriteLoan
  <2>2. /\ UNCHANGED <<work, held, pending, audit, console, records>>
        /\ work[r] = "loan" /\ pc[r] = "idle"
        /\ committed' \in {committed, committed \cup {<<r, "change">>}}
        /\ label = "audit" => <<r, "change">> \in committed'
    BY <1>0, <1>1, <2>1 DEF WriteLoan, Took, NotTaken, AckLost, Effect, Goto, AuditTypeOK
  <2>3. /\ pc' \in [Requests -> Places] /\ pc'[r] = label
        /\ \A s \in Requests \ {r} : pc'[s] = pc[s]
    BY <1>a, <2>1 DEF Places, Ended
  <2>4. AuditTypeOK'
    BY <1>0, <1>b, <2>2, <2>3 DEF AuditTypeOK, Sent
  <2>5. DoesItsKind(r)' /\ Audited(r)' /\ Recorded(r)'
    BY <1>0, <2>2, <2>3 DEF DoesItsKind, Audited, Recorded, Kept, Kinds, Ended
  <2>6. ReportedAfterTheFact'
    BY <1>0, <2>2, StillReported DEF Sent
  <2> QED
    BY <2>2, <2>3, <2>4, <2>5, <2>6, OneHandler DEF Kept
<1>2. CASE AuditLoan(r)
  <2>1. /\ UNCHANGED <<work, held, pending, records, committed>>
        /\ work[r] = "loan" /\ pc[r] = "audit" /\ Goto(r, "done")
        /\ Kept' = Kept \cup {<<r, "change">>}
    BY <1>2 DEF AuditLoan, Await, Write, Kept
  <2>2. /\ pc' \in [Requests -> Places] /\ pc'[r] = "done"
        /\ \A s \in Requests \ {r} : pc'[s] = pc[s]
    BY <1>a, <2>1 DEF Places, Ended
  <2>3. Sent' = Sent \cup {<<r, "change">>}
    BY <2>1 DEF Sent, Kept
  <2>4. AuditTypeOK'
    BY <1>0, <1>b, <2>1, <2>2, <2>3 DEF AuditTypeOK
  <2>5. DoesItsKind(r)' /\ Audited(r)' /\ Recorded(r)'
    BY <1>0, <2>1, <2>2 DEF DoesItsKind, Audited, Recorded, Kinds, Ended
  <2>6. <<r, "change">> \in committed
    BY <1>0, <2>1 DEF Audited, DoesItsKind
  <2>7. ReportedAfterTheFact'
    BY <1>0, <2>1, <2>3, <2>6, StillReported
  <2> QED
    BY <2>1, <2>2, <2>4, <2>5, <2>7, OneHandler
<1>3. CASE Claim(r) \/ BeginTransaction(r) \/ MarkFailed(r)
  <2>1. /\ UNCHANGED <<work, pending, audit, console, records, committed>>
        /\ held' \subseteq Requests
    BY <1>0, <1>3 DEF Claim, BeginTransaction, MarkFailed, AuditTypeOK
  <2>2. PICK label \in {"begin", "open", "record", "failed", "mark"} : Goto(r, label)
    BY <1>3 DEF Claim, BeginTransaction, MarkFailed, TxFailed
  <2>3. pc[r] \in {"idle", "begin", "mark"} /\ (work[r] = "loan" => pc[r] # "idle")
    BY <1>0, <1>3 DEF Claim, BeginTransaction, MarkFailed
  <2>4. /\ pc[r] = "mark" => label = "failed"
        /\ Kind[r] # "loan"
    BY <1>0, <1>3, <2>2, <2>3 DEF Claim, BeginTransaction, MarkFailed, DoesItsKind, Ended, Goto, AuditTypeOK
  <2>5. /\ pc' \in [Requests -> Places] /\ pc'[r] = label
        /\ \A s \in Requests \ {r} : pc'[s] = pc[s]
    BY <1>a, <2>2 DEF Places, Ended
  <2>6. AuditTypeOK' /\ Kept' = Kept /\ Sent' = Sent
    BY <1>0, <2>1, <2>5 DEF AuditTypeOK, Sent, Kept
  <2>7. DoesItsKind(r)' /\ Audited(r)' /\ Recorded(r)'
    BY <1>0, <2>1, <2>3, <2>4, <2>5 DEF DoesItsKind, Audited, Recorded, Ended
  <2>8. ReportedAfterTheFact'
    BY <1>0, <2>1, <2>6, StillReported
  <2>9. /\ \A s \in Requests \ {r} : pc'[s] = pc[s] /\ work'[s] = work[s]
        /\ committed \subseteq committed' /\ Kept \subseteq Kept'
        /\ records' \subseteq records \cup {r}
    BY <2>1, <2>5, <2>6
  <2> QED
    BY <2>6, <2>7, <2>8, <2>9, OneHandler
<1>4. CASE Work(r)
  <2>1. /\ UNCHANGED <<work, audit, console, records, committed>>
        /\ held' \subseteq Requests /\ pc[r] = "open"
        /\ \/ pending' = pending
           \/ work[r] = "pay" /\ pending' = pending \cup {<<r, "completed">>}
    <3>1. pending' \in {pending, LastCall(r)} /\ pc[r] = "open"
          /\ held' \in {held, held \ {r}}
          /\ UNCHANGED <<work, audit, console, records, committed>>
      BY <1>4 DEF Work
    <3>2. CASE work[r] = "pay"
      <4>1. LastCall(r) = pending \cup {<<r, "completed">>}
        BY <3>2 DEF LastCall, Logged
      <4>2. pending' = pending \/ pending' = pending \cup {<<r, "completed">>}
        BY <3>1, <4>1
      <4> QED
        BY <1>0, <3>1, <3>2, <4>2 DEF AuditTypeOK
    <3>3. CASE work[r] # "pay"
      <4>1. LastCall(r) = pending
        BY <3>3 DEF LastCall
      <4>2. pending' = pending
        BY <3>1, <4>1
      <4> QED
        BY <1>0, <3>1, <4>2 DEF AuditTypeOK
    <3> QED
      BY <3>2, <3>3
  <2>2. PICK label \in {"audit", "commit", "record", "failed", "mark"} :
          /\ Goto(r, label)
          /\ label = "audit" => work[r] = "undo"
          /\ label = "commit" => work[r] # "undo"
    BY <1>4 DEF Work, TxFailed
  <2>3. /\ pc' \in [Requests -> Places] /\ pc'[r] = label
        /\ \A s \in Requests \ {r} : pc'[s] = pc[s]
    BY <1>a, <2>2 DEF Places, Ended
  <2>4. /\ Kept' = Kept
        /\ \/ Sent' = Sent
           \/ work[r] = "pay" /\ Sent' = Sent \cup {<<r, "completed">>}
    BY <2>1 DEF Sent, Kept
  <2>5. AuditTypeOK'
    BY <1>0, <1>b, <2>1, <2>3, <2>4 DEF AuditTypeOK
  <2>6. DoesItsKind(r)' /\ Audited(r)' /\ Recorded(r)'
    BY <1>0, <2>1, <2>2, <2>3 DEF DoesItsKind, Audited, Recorded, Ended
  <2>7. ReportedAfterTheFact'
    BY <1>0, <2>1, <2>4, StillReported DEF DoesItsKind
  <2> QED
    BY <2>1, <2>3, <2>4, <2>5, <2>6, <2>7, OneHandler
<1>5. CASE AuditUndo(r)
  <2>1. /\ UNCHANGED <<work, held, pending, records, committed>>
        /\ work[r] = "undo" /\ pc[r] = "audit" /\ Goto(r, "commit")
        /\ Kept' = Kept \cup {<<r, "undone">>}
    BY <1>5 DEF AuditUndo, Await, Write, Kept
  <2>2. /\ pc' \in [Requests -> Places] /\ pc'[r] = "commit"
        /\ \A s \in Requests \ {r} : pc'[s] = pc[s]
    BY <1>a, <2>1 DEF Places, Ended
  <2>3. Sent' = Sent \cup {<<r, "undone">>}
    BY <2>1 DEF Sent, Kept
  <2>4. AuditTypeOK'
    BY <1>0, <1>b, <2>1, <2>2, <2>3 DEF AuditTypeOK
  <2>5. DoesItsKind(r)' /\ Audited(r)' /\ Recorded(r)'
    BY <1>0, <2>1, <2>2 DEF DoesItsKind, Audited, Recorded, Ended
  <2>6. ReportedAfterTheFact'
    BY <1>0, <2>1, <2>3, StillReported
  <2> QED
    BY <2>1, <2>2, <2>4, <2>5, <2>6, OneHandler
<1>6. CASE Commit(r)
  <2>1. /\ UNCHANGED <<work, pending, audit, console, records>>
        /\ held' \subseteq Requests /\ pc[r] = "commit"
        /\ committed' \in {committed, committed \cup {<<r, Effect(r)>>}}
    BY <1>0, <1>6 DEF Commit, Took, AckLost, AuditTypeOK
  <2>2. PICK label \in {"complete", "mark", "done", "record named", "record", "failed"} :
          /\ Goto(r, label)
          /\ label = "complete" =>
               work[r] = "disburse" /\ <<r, Effect(r)>> \in committed'
    BY <1>6 DEF Commit, Committed, CommitFailed, TxFailed, Took
  <2>3. /\ pc' \in [Requests -> Places] /\ pc'[r] = label
        /\ \A s \in Requests \ {r} : pc'[s] = pc[s]
    BY <1>a, <2>2 DEF Places, Ended
  <2>4. Kept' = Kept /\ Sent' = Sent /\ Effect(r) \in Entries
        /\ (work[r] = "disburse" => Effect(r) = "completed")
    BY <2>1 DEF Sent, Kept, Effect, Entries
  <2>5. AuditTypeOK'
    BY <1>0, <1>b, <2>1, <2>3, <2>4 DEF AuditTypeOK
  <2>6. DoesItsKind(r)' /\ Audited(r)' /\ Recorded(r)'
    BY <1>0, <2>1, <2>2, <2>3, <2>4 DEF DoesItsKind, Audited, Recorded, Ended
  <2>7. ReportedAfterTheFact'
    BY <1>0, <2>1, <2>4, StillReported
  <2>8. committed \subseteq committed'
    BY <2>1
  <2> QED
    BY <2>1, <2>3, <2>4, <2>5, <2>6, <2>7, <2>8, OneHandler
<1>7. CASE Complete(r)
  <2>1. /\ UNCHANGED <<held, audit, console, records, committed>>
        /\ pc[r] = "complete" /\ work[r] = "disburse"
        /\ pending' \in {pending \cup {<<r, "completed">>}, pending \cup {<<r, "error">>}}
    BY <1>0, <1>7 DEF Complete, Logged, DoesItsKind
  <2>2. PICK label \in {"done", "mark", "begin"} : Goto(r, label)
    BY <1>7 DEF Complete
  <2>3. /\ pc' \in [Requests -> Places] /\ pc'[r] = label
        /\ \A s \in Requests \ {r} : pc'[s] = pc[s]
    BY <1>a, <2>2 DEF Places, Ended
  <2>4. work' \in {work, [work EXCEPT ![r] = "undo"]}
    BY <1>7 DEF Complete
  <2>5. /\ work' \in [Requests -> Kinds] /\ work'[r] \in {"disburse", "undo"}
        /\ \A s \in Requests \ {r} : work'[s] = work[s]
    BY <1>0, <2>1, <2>4 DEF AuditTypeOK, Kinds
  <2>6. /\ Kept' = Kept
        /\ Sent' \in {Sent \cup {<<r, "completed">>}, Sent \cup {<<r, "error">>}}
    BY <2>1 DEF Sent, Kept
  <2>7. AuditTypeOK'
    BY <1>0, <1>b, <2>1, <2>3, <2>5, <2>6 DEF AuditTypeOK
  <2>8. Kind[r] = "disburse" /\ <<r, "completed">> \in committed
    BY <1>0, <2>1 DEF DoesItsKind, Audited
  <2>9. DoesItsKind(r)' /\ Audited(r)' /\ Recorded(r)'
    BY <1>0, <2>1, <2>3, <2>5, <2>8 DEF DoesItsKind, Audited, Recorded, Ended
  <2>10. ReportedAfterTheFact'
    BY <1>0, <2>1, <2>6, <2>8, StillReported
  <2> QED
    BY <2>1, <2>3, <2>5, <2>6, <2>7, <2>9, <2>10, OneHandler
<1>8. CASE RecordRollback(r) \/ AuditRollback(r)
  <2>1. /\ UNCHANGED <<work, held, committed>>
        /\ pc[r] \in {"record", "record named", "name"}
        /\ records' \in {records, records \cup {r}}
        /\ pending' \in {pending, pending \cup {<<r, "error">>}}
        /\ Kept' \in {Kept, Kept \cup {<<r, "rolled back">>}}
    BY <1>8 DEF RecordRollback, AuditRollback, Caught, Logged, Write, Kept
  <2>2. PICK label \in {"name", "failed", "mark"} : Goto(r, label)
    BY <1>8 DEF RecordRollback, AuditRollback, Caught
  <2>3. /\ pc' \in [Requests -> Places] /\ pc'[r] = label
        /\ \A s \in Requests \ {r} : pc'[s] = pc[s]
    BY <1>a, <2>2 DEF Places, Ended
  <2>4. /\ Kept \subseteq Kept'
        /\ Sent' \subseteq Sent \cup {<<r, "error">>, <<r, "rolled back">>}
    BY <2>1 DEF Sent, Kept
  <2>5. AuditTypeOK'
    <3>1. Sent' \subseteq Requests \X Entries /\ records' \subseteq Requests
      BY <1>0, <1>b, <2>1, <2>4 DEF AuditTypeOK
    <3> QED
      BY <1>0, <2>1, <2>3, <3>1 DEF AuditTypeOK
  <2>6. DoesItsKind(r)' /\ Audited(r)' /\ Recorded(r)'
    BY <1>0, <2>1, <2>3 DEF DoesItsKind, Audited, Recorded, Ended
  <2>7. ReportedAfterTheFact'
    <3>1. \A x \in Sent' \ Sent : x[2] \notin {"change", "completed"}
      <4> SUFFICES ASSUME NEW x \in Sent' \ Sent
                   PROVE  x[2] \notin {"change", "completed"}
        OBVIOUS
      <4>1. x = <<r, "error">> \/ x = <<r, "rolled back">>
        BY <2>4
      <4>2. <<r, "error">>[2] = "error" /\ <<r, "rolled back">>[2] = "rolled back"
        OBVIOUS
      <4>3. x[2] = "error" \/ x[2] = "rolled back"
        BY <4>1, <4>2, Zenon
      <4> QED
        BY <4>3
    <3> QED
      BY <1>0, <2>1, <3>1, StillReported
  <2> QED
    BY <2>1, <2>3, <2>4, <2>5, <2>6, <2>7, OneHandler
<1>9. CASE Expire(r)
  <2>1. /\ UNCHANGED <<pc, work, pending, audit, console, records, committed>>
        /\ held' \subseteq Requests
    BY <1>0, <1>9 DEF Expire, AuditTypeOK
  <2> QED
    BY <1>0, <2>1
    DEF TrailInv, AuditTypeOK, DoesItsKind, Audited, Recorded,
        ReportedAfterTheFact, Sent, Kept
<1> QED
  BY <1>1, <1>2, <1>3, <1>4, <1>5, <1>6, <1>7, <1>8, <1>9 DEF Handle

\* Neither does an entry that is written late, nor a restart.
LEMMA TrailStep == TrailInv /\ [AuditNext]_vars => TrailInv'
<1> SUFFICES ASSUME TrailInv, [AuditNext]_vars
             PROVE  TrailInv'
  OBVIOUS
<1>1. CASE \E r \in Requests : Handle(r)
  BY <1>1, HandlerStep
<1>2. CASE \E x \in pending : Flush(x)
  <2>1. /\ UNCHANGED <<pc, work, held, records, committed>>
        /\ Kept \subseteq Kept' /\ Sent' \subseteq Sent
    BY <1>2 DEF Flush, Write, Kept, Sent
  <2>2. ReportedAfterTheFact'
    BY <2>1, StillReported DEF TrailInv
  <2> QED
    BY <2>1, <2>2 DEF TrailInv, AuditTypeOK, DoesItsKind, Audited, Recorded
<1>3. CASE Restart
  <2>1. /\ pc' = [r \in Requests |-> IF Running(r) THEN "lost" ELSE pc[r]]
        /\ held' = {} /\ pending' = {}
        /\ UNCHANGED <<work, audit, console, records, committed>>
    BY <1>3 DEF Restart
  <2>2. Kept' = Kept /\ Sent' \subseteq Sent
    BY <2>1 DEF Kept, Sent
  <2>3. AuditTypeOK'
    BY <2>1, <2>2 DEF TrailInv, AuditTypeOK, Places, Ended
  <2>4. ASSUME NEW r \in Requests
        PROVE  DoesItsKind(r)' /\ Audited(r)' /\ Recorded(r)'
    <3>1. pc'[r] = pc[r] \/ pc'[r] = "lost"
      BY <2>1
    <3>2. DoesItsKind(r) /\ Audited(r) /\ Recorded(r)
      BY DEF TrailInv
    <3> QED
      BY <2>1, <2>2, <3>1, <3>2 DEF DoesItsKind, Audited, Recorded, Ended
  <2>5. ReportedAfterTheFact'
    BY <2>1, <2>2, StillReported DEF TrailInv
  <2> QED
    BY <2>3, <2>4, <2>5 DEF TrailInv
<1>4. CASE UNCHANGED vars
  BY <1>4
  DEF vars, TrailInv, AuditTypeOK, DoesItsKind, Audited, Recorded,
      ReportedAfterTheFact, Sent, Kept
<1> QED
  BY <1>1, <1>2, <1>3, <1>4 DEF AuditNext

\* The invariant holds in every state the requests reach.
LEMMA TrailAlways == AuditSpec => []TrailInv
  BY TrailStarts, TrailStep, PTL DEF AuditSpec

\* A loan change or an undo that is answered with success has its entry.
THEOREM AnswersAudited == AuditSpec => []AnsweredMeansAudited
<1>1. TrailInv => AnsweredMeansAudited
  BY DEF TrailInv, AnsweredMeansAudited, Audited, DoesItsKind, Effect, Kept
<1> QED
  BY <1>1, TrailAlways, PTL

\* Loan changes and disbursements report what has been done.
THEOREM ReportsAreTrue == AuditSpec => []ReportedAfterTheFact
<1>1. TrailInv => ReportedAfterTheFact
  BY DEF TrailInv
<1> QED
  BY <1>1, TrailAlways, PTL

\* What is recorded as rolled back is never answered with success.
THEOREM RecordedFails == AuditSpec => []RecordedNeverSucceeds
<1>1. TrailInv => RecordedNeverSucceeds
  BY DEF TrailInv, AuditTypeOK, RecordedNeverSucceeds, Recorded
<1> QED
  BY <1>1, TrailAlways, PTL
=============================================================================
