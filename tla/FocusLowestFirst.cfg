SPECIFICATION Spec
CONSTANTS
  ana = ana  cfo = cfo
  Users = {ana, cfo}
  Role <- MCRole
  Scope <- MCScope
  Candidates <- MCCandidates
  HomeLimit = 2
  MaxDay = 1
INVARIANTS
  HighestFirst
CHECK_DEADLOCK FALSE
