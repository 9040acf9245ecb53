SPECIFICATION TabSpec
CONSTANTS
  d1 = d1
  p1 = p1
  l1 = l1
  Disbursed = {d1}
  Paid = {p1}
  None = None
  MaxFetches = 2
  MaxPosts = 2
  Network = {"reorders", "loses"}
  ListedLoans = {l1}
  Unchosen = Unchosen
  MaxStanding = 2
  MaxSent = 2
  Endpoints = {"paged", "whole"}
  PerPages = {1, 2}
  PerPage = 1
  MaxTake = 2
  MaxRows = 4
INVARIANTS
  PickedAsShown
  NotOfferedAgain
  AcceptedWasShown
  WalkMissesNothing
