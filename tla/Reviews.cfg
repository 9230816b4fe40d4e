SPECIFICATION Spec
CONSTANTS
  r1 = r1  r2 = r2  adm = adm  rev = rev  e1 = e1  e2 = e2  c1 = c1  c2 = c2
  f1 = f1  x1 = x1  x2 = x2  w1 = w1  NoCanon = NoCanon  NoFile = NoFile
  Reqs = {r1, r2}
  Users = {adm, rev}
  Role <- MCRole
  Scope <- MCScope
  Entities = {e1, e2}
  ReviewRequired = {e1}
  Canon = {c1, c2}
  EntityOf <- PartyEntity
  Refs = {"i1"}
  Files = {f1}
  Dates = {1}
  Rows = {x1, x2}
  RowsOf <- BothRows
  RefOf <- OneRef
  AliasOf <- AllMatched
  BadRows = {x2}
  NoDays = {}
  Warnings = {w1}
  WarningsOf <- OneWarning
INVARIANTS
  InFlightInEntity IndependentApproval
SYMMETRY SymmetricReqs
CHECK_DEADLOCK FALSE
