SPECIFICATION Spec
CONSTANTS
  t1 = t1  t2 = t2  i1 = i1  i2 = i2
  NoTx = NoTx
  Txs = {t1, t2}
  Invoices = {i1, i2}
  Rows <- Disjoint
INVARIANTS
  AbsentAreSettled
CHECK_DEADLOCK FALSE
