SPECIFICATION Spec
CONSTANTS
  r1 = r1  r2 = r2  ana = ana  adm = adm  e1 = e1  c1 = c1  c2 = c2
  f1 = f1  f2 = f2  x1 = x1  x2 = x2  NoCanon = NoCanon  NoFile = NoFile
  Reqs = {r1, r2}
  Users = {adm}
  Role <- MCRole
  Scope <- MCScope
  Entities = {e1}
  ReviewRequired = {}
  Canon = {c1}
  EntityOf <- OneEntity
  Refs = {"i1"}
  Files = {f1, f2}
  Dates = {1, 2}
  Rows = {x1, x2}
  RowsOf <- OwnRow
  RefOf <- OneRef
  AliasOf <- AllMatched
  BadRows = {}
  NoDays = {}
  Warnings = {}
  WarningsOf <- NoWarnings
PROPERTIES
  DiscardSparesPublished
SYMMETRY SymmetricReqs
CHECK_DEADLOCK FALSE
