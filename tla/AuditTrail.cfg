SPECIFICATION AuditSpec
CONSTANTS
  undo1 = undo1
  loan1 = loan1
  pay1 = pay1
  disburse1 = disburse1
  Requests = {undo1, loan1, pay1, disburse1}
  Kind <- KindDef
  Pool = 2
  Faults = {"db", "ack", "audit", "crash"}
INVARIANTS
  AnsweredMeansAudited
  ReportedAfterTheFact
  RecordedNeverSucceeds
PROPERTIES
  EveryEndIsTold
CHECK_DEADLOCK FALSE
