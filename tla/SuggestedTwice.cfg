SPECIFICATION Spec
CONSTANTS
  r1 = r1  i1 = i1  i2 = i2  o1 = o1  s1 = s1  x1 = x1  x2 = x2
  Reqs = {r1}
  Invoices = {i1, i2}
  Objs = {o1}
  InvoiceOf <- OnI1
  Snapshots = {s1}
  Rows = {x1, x2}
  RowsOf <- AllRows
  InvoiceOfRow <- SameInvoice
  LineRules <- AllHighValue
INVARIANTS
  OneSuggestion
CHECK_DEADLOCK FALSE
