------------------------------ MODULE Workbooks ------------------------------
(***************************************************************************)
(* What the parsers make of an uploaded workbook.  The accounting package  *)
(* writes a sheet row by row, from left out for a later cut: every prefix  *)
(* is a file that may arrive.  A row has a meaning for the package that    *)
(* wrote it; the parser sees cells only, and takes the row for what its    *)
(* cells look like.                                                        *)
(***************************************************************************)
EXTENDS Integers, SequencesExt

CONSTANTS
  Parties,     \* names of customers, as sequences of words
  Amounts,     \* amounts of rows
  MaxRows      \* bound on the rows of a sheet

VARIABLES
  wrote,       \* the package that wrote the file: its source hint
  hint,        \* source_hint of the request, or None
  sheets,      \* names of the sheets of the workbook
  rows         \* data rows, with their meaning

vars == <<wrote, hint, sheets, rows>>

-----------------------------------------------------------------------------

None == "none"
Text == "text"       \* a cell that is not a date
NoAmount == 0        \* an empty cell; amounts are positive
NotANumber == -1
Sources == {"TALLY", "XERO", "CREDIT_PERIOD"}
Tolerance == 1

SheetsOf(s) ==
  CASE s = "TALLY" -> {"Sundry Debtors"}
    [] s = "XERO" -> {"Aged Receivables Detail"}
    [] s = "CREDIT_PERIOD" -> {"India", "UAE"}

Sum(S, f(_)) == MapThenSumSet(f, S)

\* Meanings of a row of a statement of receivables.
Ledger ==
  [is: {"party"}, name: Parties, amount: {NoAmount}]
    \cup [is: {"invoice"}, name: {<<>>}, amount: Amounts \cup {NotANumber}]
    \cup [is: {"note", "undated", "blank"}, name: {<<>>}, amount: {NoAmount}]
    \cup [is: {"subtotal"}, name: Parties, amount: Amounts \cup {NotANumber}]
    \cup [is: {"total"}, name: {<<>>}, amount: Amounts]

\* A row of one of the two sheets of the credit-period master.
Master == [is: {"India", "UAE"}, name: Parties \cup {<<>>}, amount: {30, NotANumber}]

\* The cells of a row: date, reference, name, amount.  Xero writes "Total" and
\* "Total <name>" into the name column, Tally leaves it empty.
Cells(r) ==
  [date |-> CASE r.is \in {"invoice", "note"} -> "day"
              [] r.is = "undated" -> Text [] OTHER -> None,
   ref |-> r.is \in {"invoice", "undated"},
   name |-> CASE r.is = "party" -> r.name
              [] r.is = "subtotal" /\ wrote = "XERO" -> <<"Total">> \o r.name
              [] r.is = "total" /\ wrote = "XERO" -> <<"Total">>
              [] OTHER -> <<>>,
   amount |-> r.amount]

-----------------------------------------------------------------------------
(* detectSourceFromXlsx, validateSourceHintAgainstFile *)

Matches == {s \in Sources : SheetsOf(s) \subseteq sheets}

\* The parser a file is given to, or None when the upload is refused: a workbook
\* of two packages is ambiguous, and a hint must not contradict the sheets.
ReadAs ==
  IF Cardinality(Matches) > 1 \/ (hint # None /\ Matches \notin {{}, {hint}}) THEN None
  ELSE IF hint # None THEN hint
  ELSE IF Matches = {} THEN None ELSE CHOOSE s \in Matches : TRUE

-----------------------------------------------------------------------------
(* The receivables parsers: what a row is taken for *)

IsBlank(c) == c.date = None /\ ~c.ref /\ c.name = <<>> /\ c.amount = NoAmount
IsInvoice(c) == c.date # None /\ c.ref
IsSum(c) == c.date = None /\ ~c.ref /\ c.name = <<>> /\ c.amount # NoAmount
TallyHeader(c) == c.name # <<>> /\ c.date = None /\ ~c.ref

SaysTotal(c) == c.name # <<>> /\ Head(c.name) = "Total"
XeroTotal(c) == c.name = <<"Total">>
XeroSubtotal(c) == SaysTotal(c) /\ Len(c.name) > 1
XeroHeader(c) == c.name # <<>> /\ ~SaysTotal(c) /\ c.date = None

\* An invoice row whose date and amount can be read.
Readable(c) == IsInvoice(c) /\ c.date # Text /\ c.amount > 0

C(i) == Cells(rows[i])

\* detectGrandTotal: the last row of Tally that looks like a sum and can be read.
TallySums == {i \in DOMAIN rows : IsSum(C(i)) /\ C(i).amount > 0}
GrandRow == IF TallySums = {} THEN 0 ELSE Max(TallySums)

\* What is known while the rows are read: the party of the last header, the rows
\* reported, and Tally's subtotal of each party (the first one that follows it).
Before == [party |-> <<>>, out |-> {}, subtotal |-> [p \in Parties |-> NoAmount], over |-> FALSE]

Report(s, i) ==
  [s EXCEPT !.out = @ \cup {[row |-> i, party |-> s.party,
                             status |-> IF Readable(C(i)) THEN "OK" ELSE "PARSE_ERROR"]}]

TallyRow(s, i) ==
  CASE i = GrandRow \/ IsBlank(C(i)) -> s
    [] TallyHeader(C(i)) -> [s EXCEPT !.party = C(i).name]
    [] IsSum(C(i)) /\ i # GrandRow ->
         IF s.party # <<>> /\ s.subtotal[s.party] = NoAmount
         THEN [s EXCEPT !.subtotal[s.party] = C(i).amount] ELSE s
    [] OTHER -> Report(s, i)

\* Nothing is read after the grand total.
XeroRow(s, i) ==
  CASE s.over \/ XeroTotal(C(i)) -> [s EXCEPT !.over = TRUE]
    [] ~s.over /\ (IsBlank(C(i)) \/ XeroSubtotal(C(i))) -> s
    [] ~s.over /\ XeroHeader(C(i)) -> [s EXCEPT !.party = C(i).name]
    [] OTHER -> Report(s, i)

Indices == [i \in 1 .. Len(rows) |-> i]
ParseTally == FoldLeft(TallyRow, Before, Indices)
ParseXero == FoldLeft(XeroRow, Before, Indices)

Ok(parsed) == {o \in parsed.out : o.status = "OK"}
Money(S) == Sum(S, LAMBDA o : C(o.row).amount)

Apart(a, b) == a - b > Tolerance \/ b - a > Tolerance

\* Fault: only rows above the subtotal are a mismatch.
SubtotalOffAbove(parsed, p) ==
  parsed.subtotal[p] > 0
    /\ Money({o \in Ok(parsed) : o.party = p}) - parsed.subtotal[p] > Tolerance

\* SUBTOTAL_MISMATCH
SubtotalOff(parsed, p) ==
  parsed.subtotal[p] > 0
    /\ Apart(Money({o \in Ok(parsed) : o.party = p}), parsed.subtotal[p])

\* GRAND_TOTAL_MISMATCH of a Tally sheet: against the subtotals.
GrandOff(parsed) ==
  Apart(C(GrandRow).amount,
        Sum({p \in Parties : parsed.subtotal[p] > 0},
            LAMBDA p : parsed.subtotal[p]))

TallyWarnings(parsed) ==
  {"SUBTOTAL_MISMATCH" : p \in {q \in Parties : SubtotalOff(parsed, q)}}
    \cup (IF GrandRow = 0 THEN {"GRAND_TOTAL_ROW_NOT_DETECTED"}
          ELSE {"UNALLOCATED_CREDITS_DELTA"}
                 \cup IF GrandOff(parsed) THEN {"GRAND_TOTAL_MISMATCH"} ELSE {})

-----------------------------------------------------------------------------
(* parseCreditPeriodMaster *)

RowsOn(sheet) == {i \in DOMAIN rows : rows[i].is = sheet /\ rows[i].name # <<>>}
Read(sheet) == {i \in RowsOn(sheet) : rows[i].amount > 0}

\* A client named twice by rows that can be read costs the sheet all its rows.
Repeats(sheet) == \E i, j \in Read(sheet) : i # j /\ rows[i].name = rows[j].name

PeriodsOf(sheet) == IF Repeats(sheet) THEN {} ELSE Read(sheet)

\* MISSING_SHEET, UNPARSEABLE_CREDIT_DAYS, DUPLICATE_CLIENT
MasterErrors ==
  {s \in {"India", "UAE"} :
     s \notin sheets \/ Read(s) # RowsOn(s) \/ Repeats(s)}

-----------------------------------------------------------------------------

\* One sheet of the package, perhaps beside one of another; India or UAE may be
\* missing from the master.
Init ==
  /\ wrote \in Sources /\ hint \in {wrote, None, "TALLY"}
  /\ sheets \in {SheetsOf(wrote), SheetsOf(wrote) \cup {"UAE", "Sundry Debtors"},
                 SheetsOf(wrote) \ {"UAE"}}
  /\ rows = <<>>

\* The package groups by party and ends with the total.
Writes(row) ==
  /\ row.is = "party" => \A i \in DOMAIN rows : rows[i].name # row.name
  /\ row.is = "subtotal" =>
       \E i \in DOMAIN rows : /\ rows[i].is = "party" /\ rows[i].name = row.name
                              /\ \A j \in i + 1 .. Len(rows) :
                                   rows[j].is \notin {"party", "subtotal"}
  /\ \A i \in DOMAIN rows : rows[i].is # "total"

WriteRow ==
  /\ Len(rows) < MaxRows
  /\ \E row \in IF wrote = "CREDIT_PERIOD" THEN Master ELSE Ledger :
       /\ wrote = "CREDIT_PERIOD" => row.is \in sheets
       /\ Writes(row) /\ rows' = Append(rows, row)
  /\ UNCHANGED <<wrote, hint, sheets>>

Next == WriteRow

Spec == Init /\ [][Next]_vars

TypeOK ==
  /\ wrote \in Sources /\ hint \in Sources \cup {None}
  /\ sheets \subseteq UNION {SheetsOf(s) : s \in Sources}
  /\ rows \in Seq(Ledger \cup Master)

-----------------------------------------------------------------------------

\* Whom row i belongs to, for the package.
Owner(i) ==
  LET headers == {j \in 1 .. i : rows[j].is = "party"} IN
  IF headers = {} THEN <<>> ELSE rows[Max(headers)].name

\* What a statement says: a line for every invoice or note under its party.
Meant ==
  {[row |-> i, party |-> Owner(i),
    status |-> IF rows[i].is = "invoice" /\ rows[i].amount > 0 THEN "OK" ELSE "PARSE_ERROR"] :
     i \in {j \in DOMAIN rows : rows[j].is \in {"invoice", "note", "undated"}}}

\* ADR-0003:89, ADR-0004:28: "Every non-metadata, non-grand-total row" is classified
\* as what it is, and each invoice is reported once, under its party, readable or
\* not; of the master, a file without an error gives one period for every client
\* (parseTallyGrpbills, parseXeroAgedReceivables, parseCreditPeriodMaster).  A
\* customer of Xero whose name begins with "Total" is the exception.
RowsAccounted ==
  LET plain == \A i \in DOMAIN rows : rows[i].is = "party" => Head(rows[i].name) # "Total" IN
  /\ ReadAs # None /\ wrote \in Matches => ReadAs = wrote
  /\ wrote = "TALLY" => ParseTally.out = Meant
  /\ wrote = "XERO" /\ plain => ParseXero.out = Meant
  /\ wrote = "CREDIT_PERIOD" /\ MasterErrors = {} =>
       \A s \in {"India", "UAE"} :
         PeriodsOf(s) = RowsOn(s) /\ \A i, j \in RowsOn(s) : rows[i].name = rows[j].name => i = j

\* A Tally sheet with a subtotal for every party of an invoice, of which no warning
\* but the informational one is made, reports the money of its total: the
\* tolerances of the subtotals and of the total add up, and no row is lost
\* (parseTallyGrpbills).
MoneyTold ==
  LET parsed == ParseTally
      told == {p \in Parties : parsed.subtotal[p] > 0} IN
  wrote = "TALLY" /\ TallyWarnings(parsed) = {"UNALLOCATED_CREDITS_DELTA"}
    /\ {o.party : o \in Ok(parsed)} \subseteq told =>
      LET delta == Money(Ok(parsed)) - C(GrandRow).amount
          most == (Cardinality(told) + 1) * Tolerance IN
      -most =< delta /\ delta =< most

=============================================================================
