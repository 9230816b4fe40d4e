SPECIFICATION Spec
CONSTANTS
  r1 = r1  r2 = r2  ana = ana  adm = adm  e1 = e1  c1 = c1  c2 = c2
  f1 = f1  f2 = f2  x1 = x1  x2 = x2  NoCanon = NoCanon  NoFile = NoFile
  Reqs = {r1, r2}
  Users = {ana}
  Role <- MCRole
  Scope <- MCScope
  Entities = {e1}
  ReviewRequired = {}
  Canon = {c1, c2}
  EntityOf <- OneEntity
  Refs = {"i1"}
  Files = {f1, f2}
  Dates = {1, 2}
  Rows = {x1, x2}
  RowsOf <- Shrinking
  RefOf <- OneRef
  AliasOf <- FirstUnmapped
  BadRows = {}
  NoDays = {}
  Warnings = {}
  WarningsOf <- NoWarnings
INVARIANTS
  TypeOK OpenOrLate SettledExplained LinesComplete MappingKept
PROPERTIES
  LedgerRefined
SYMMETRY SymmetricReqs
CHECK_DEADLOCK FALSE
