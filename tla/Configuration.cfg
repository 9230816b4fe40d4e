SPECIFICATION MCSpec
CONSTANTS
  Reqs = {r1, r2}  Users = {u1, u2}  Founder = u1  Granted = {"ANALYST", "ADMIN"}
  MaxCodes = 3  MaxFaults = 1
  Clerks = {u1}  RoleOf <- EverybodyAdmin  ScopeOf <- OneEntity
  Parties = {p1}  EntityOf <- OneEntity  Books = {1}  MaxDay = 3  Terms = {30, 60}  MaxRows = 2
  MapReqs = {q1, q2, q3}  Procs = {1, 2}  ProcOf <- LonersApart  Names = {1, 2, 3, 4}
  Stem <- TwoStems  Similar <- CloseNames  Rows = {1, 2, 3, 4, 5}  SnapshotOf <- TwoSnapshots
  NameOf <- SpeltTwice  FewNames = {1, 2}  FewRows = {1, 2}  TTL = 2  MaxLoad = 1
  Cold = Cold  Bulkers = {q1, q2}  Loners = {q1}  Viewers = {q2, q3}
INVARIANTS
  TypesOK LatestDecides StaleAtMostTtl NoTwinsByBulk UsedOnce AdminRemains
  OfferedWorks ReadersChangeNothing FiguresAgree
SYMMETRY SymmetricReqs
CHECK_DEADLOCK FALSE
