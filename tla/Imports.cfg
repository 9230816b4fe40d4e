SPECIFICATION MCSpec
CONSTANTS
  i1 = i1  s1 = s1  s2 = s2  s3 = s3  s4 = s4  x1 = x1
  Reqs = {r1, r2}  Invoices = {i1}  Objs = {o1}  InvoiceOf <- OnI1
  Snapshots = {s1, s2, s3, s4}  Rows = {x1}  RowsOf <- EveryOther
  InvoiceOfRow <- SameInvoice  LineRules <- NoLineRules
  MaxRuns = 2  Receivables = {1, 2, 3}  DateOf <- TwoOfOneDate
  OpenAtFirst = {{1, 2}, {1, 3}}  Draft = {2}  Incomplete = {3}
  PageSize = 1  MaxPages = 2  MaxFaults = 1  MaxChanges = 1
  RowAmounts = {2, 3}  SheetRows = 5
  Analysts = {"u1", "u2"}  Bills = {1, 2}  Amounts = {2, 3}  Dates = {1, 2}  Currencies = {1, 2}
  Terms = {30, 60}  Told <- ThreeFiles  Acked = 2
  MappedFiles = {"f1", "f2", "f3"}  Columns = {"total", "email"}  Required = {"total"}
  HeadersOf <- TwoLayouts  MaxSaves = 1
  TheRequest = r3  Staff = {adm}  RoleOf <- AllAdmin  ScopeOf <- OneScope  Entities = {e1}
  ReviewRequired = {}  Canon = {c1}  EntityOf <- OneEntity  Refs = {ref1}  Uploads = {1, 2}
  Days = {1, 2}  Parsed = {p1, p2}  ParsedIn <- OneRowLess  RefOf <- OneRef  AliasOf <- OneAlias
  BadRows = {}  NoDays = {p1}  Warnings = {}  WarningsOf <- NoWarnings
  NoCanon = NoCanon  NoUpload = NoUpload
INVARIANTS
  TypesOK StagesWhole RunsTell TokenKept SheetsTold ChangesExplain OnePerDay NoZombiesAlone
PROPERTIES
  SignerKept BaselineStands GuardsHold StatusesStand CascadeComplete
CHECK_DEADLOCK FALSE
SYMMETRY SymmetricReqs
