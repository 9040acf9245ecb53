SPECIFICATION DistributionSpec
CONSTANTS
  Values = {0, 1, 3}
  Error <- ErrorDef
  Dues <- DuesDef
INVARIANTS
  LoopTypeOK
  NeverOverspends
  WithinInstallment
  InterestAssigned
  OldestFirst
CHECK_DEADLOCK FALSE
