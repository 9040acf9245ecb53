SPECIFICATION BuilderSpec
CONSTANTS
  Terms <- TermsDef
INVARIANTS
  PrincipalNearAmount
  RepaidAtTheEnd
  LevelInstallments
  InterestFalls
  DueInOrder
CHECK_DEADLOCK FALSE
