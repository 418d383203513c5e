----------------------------- MODULE ReportRows -----------------------------
(***************************************************************************)
(* The report of a folder of invoices (cli/invoices_report.py): the files   *)
(* are parsed one after the other, the records sorted, grouped by vendor    *)
(* with a subtotal for each group, and totalled; the summary CSV has        *)
(* figures of its own (compute_report_totals).                              *)
(***************************************************************************)
EXTENDS InvoiceTotals

CONSTANTS
    Jobs,     \* inputs: [files, subtotals, skipSingle]
    Fold(_),  \* the rank of a vendor's name after str.casefold
    Unknown,  \* "Unknown Vendor"
    Undated   \* the date that sorts last

VARIABLES
    job,      \* the files and the options
    at,       \* how many files have been parsed
    stage,    \* "parse", "group" or "done"
    records,  \* of the report, in the order they were parsed
    left,     \* records still to be put into rows, sorted
    group,    \* vendor_records
    rows

vars == <<job, at, stage, records, left, group, rows>>

Init ==
    /\ job \in Jobs
    /\ at = 0 /\ stage = "parse"
    /\ records = <<>> /\ left = <<>> /\ group = <<>> /\ rows = <<>>

---------------------------------------------------------------------------
(* generate_report. *)

Blank(f) == [file |-> f.name, id |-> 0, vendor |-> Unknown, date |-> Undated,
             total |-> NoAmount, vat |-> NoAmount, base |-> NoAmount]

\* parse_invoice; the text of a file may not be extracted.
Parsed(f) ==
    IF ~f.text THEN Blank(f)
    ELSE LET sums == Overridden(Totals(f.found, f.municipal), f.partner)
         IN  [Blank(f) EXCEPT !.vendor = f.vendor, !.date = f.date,
                              !.total = sums.total, !.vat = sums.vat, !.base = sums.base]

ParseFile ==
    /\ stage = "parse" /\ at < Len(job.files)
    /\ LET f == job.files[at + 1]
       IN  records' = IF ~f.there THEN records
                      ELSE records \o Split(Parsed(f), f.text /\ f.municipal, f.pages)
    /\ at' = at + 1
    /\ UNCHANGED <<job, stage, left, group, rows>>

---------------------------------------------------------------------------
(* _build_pdf_rows_with_vendor_subtotals. *)

SortByDate(r) == <<r.date, Fold(r.vendor), r.id, r.file>>   \* mutant
SortKey(r) == <<Fold(r.vendor), r.date, r.id, r.file>>

Precedes(k, l) ==
    \E n \in 1..4 : k[n] < l[n] /\ \A m \in 1..(n - 1) : k[m] = l[m]

\* sorted(): each record goes before the first one it precedes, so that equal
\* keys keep their order.
Insert(recs, r) ==
    LET k == Cardinality({i \in DOMAIN recs : ~Precedes(SortKey(r), SortKey(recs[i]))})
    IN  SubSeq(recs, 1, k) \o <<r>> \o SubSeq(recs, k + 1, Len(recs))

Sorted(recs) == FoldLeft(Insert, <<>>, recs)

StartRows ==
    /\ stage = "parse" /\ at = Len(job.files)
    /\ stage' = "group"
    /\ left' = Sorted(records)
    /\ UNCHANGED <<job, at, records, group, rows>>

Values(recs, field) == {i \in DOMAIN recs : Known(recs[i][field])}

Added(recs, field) ==
    FoldLeft(LAMBDA sum, r : IF Known(r[field]) THEN sum + r[field] ELSE sum, 0, recs)

\* _sum_field: each figure is rounded by itself.
SumField(recs, field) ==
    IF Values(recs, field) = {} THEN NoAmount ELSE Round(Added(recs, field))

Figures(recs) == [f \in {"base", "vat", "total"} |-> SumField(recs, f)]

Detail(r) == [row |-> "detail", vendor |-> r.vendor, of |-> r,
              sums |-> [base |-> r.base, vat |-> r.vat, total |-> r.total]]
Sums(row, vendor, recs) == [row |-> row, vendor |-> vendor, of |-> Len(recs), sums |-> Figures(recs)]

\* Mutant: the records of a group come with its subtotal only.
FlushedAlone(g) ==
    IF g = <<>> \/ ~job.subtotals \/ (job.skipSingle /\ Len(g) < 2) THEN <<>>
    ELSE [i \in DOMAIN g |-> Detail(g[i])] \o <<Sums("subtotal", g[1].vendor, g)>>

\* flush_vendor_group.
Flushed(g) ==
    IF g = <<>> THEN <<>>
    ELSE [i \in DOMAIN g |-> Detail(g[i])]
         \o IF job.subtotals /\ (~job.skipSingle \/ Len(g) > 1)
            THEN <<Sums("subtotal", g[1].vendor, g)>> ELSE <<>>

\* The group goes on while the name is spelt the same.
NextGroup(r) ==
    IF group = <<>> \/ group[1].vendor = r.vendor THEN Append(group, r) ELSE <<r>>

AddRecord ==
    /\ stage = "group" /\ left # <<>>
    /\ LET r == Head(left)
       IN  /\ rows' = IF group = <<>> \/ group[1].vendor = r.vendor THEN rows
                      ELSE rows \o Flushed(group)
           /\ group' = NextGroup(r)
    /\ left' = Tail(left)
    /\ UNCHANGED <<job, at, stage, records>>

FinishRows ==
    /\ stage = "group" /\ left = <<>>
    /\ rows' = rows \o Flushed(group) \o <<Sums("grand", 0, records)>>
    /\ group' = <<>>
    /\ stage' = "done"
    /\ UNCHANGED <<job, at, records, left>>

Next == ParseFile \/ StartRows \/ AddRecord \/ FinishRows

Spec == Init /\ [][Next]_vars

---------------------------------------------------------------------------
(* compute_report_totals, of VAT and total: zeros and missing amounts are   *)
(* only counted.                                                            *)

Stats(recs, field) ==
    LET used == {i \in Values(recs, field) : recs[i][field] # 0}
    IN  [sum |-> Round(FoldLeft(LAMBDA sum, i : sum + recs[i][field], 0, SetToSeq(used))),
         count |-> Cardinality(used),
         missing |-> Len(recs) - Cardinality(Values(recs, field)),
         zero |-> Cardinality(Values(recs, field) \ used)]

---------------------------------------------------------------------------

Amount(a) == IF Known(a) THEN a ELSE 0
RowsOf(kind) == SelectSeq(rows, LAMBDA row : row.row = kind)
Column(rws, field) == FoldLeft(LAMBDA sum, row : sum + Amount(row.sums[field]), 0, rws)
Grand == rows[Len(rows)].sums

Sum == Int \cup {NoAmount}

TypeOK ==
    /\ at \in 0..Len(job.files) /\ stage \in {"parse", "group", "done"}
    /\ Range(left) \cup Range(group) \subseteq Range(records)
    /\ \A row \in Range(rows) : \A f \in DOMAIN row.sums : row.sums[f] \in Sum

\* Every record has one detail row, and the four ways to a total agree: the
\* detail rows, the subtotals, the grand total and the summary CSV (which has
\* no column for the amount before VAT), whatever amounts are missing, zero or
\* negative.  The grand total is that of the summary, and less than half an
\* agora from the sum of the details; every subtotal may add as much, so they
\* need not add up to the grand total, but do when amounts are whole agorot.
FiguresAgree ==
    TypeOK /\ (stage = "done" =>
       /\ \A r \in Range(records) :
             Len(SelectSeq(records, LAMBDA q : q = r))
                = Len(SelectSeq(RowsOf("detail"), LAMBDA row : row.of = r))
       /\ \A f \in {"base", "vat", "total"} :
             LET grand == Amount(Grand[f])
                 details == Column(RowsOf("detail"), f)
                 parts == Column(RowsOf("subtotal"), f)
                 whole == \A i \in Values(records, f) : records[i][f] % Agora = 0
             IN  /\ 2 * Abs(grand - details) < Agora
                 /\ f # "base" => grand = Stats(records, f).sum
                 /\ job.subtotals /\ ~job.skipSingle =>
                       2 * Abs(grand - parts) < Agora * (Len(RowsOf("subtotal")) + 1)
                 /\ whole => grand = details
                 /\ whole /\ job.subtotals /\ ~job.skipSingle => grand = parts)

\* The records of a vendor, found without sorting and grouping.
OfVendor(v) == SelectSeq(records, LAMBDA r : r.vendor = v)

\* A vendor whose name is spelt one way in the report has one subtotal, over
\* all of its records; none when single invoices are skipped and it has one.
SubtotalPerVendor ==
    stage = "done" /\ job.subtotals =>
       \A v \in {r.vendor : r \in Range(records)} :
          (\A r \in Range(records) : Fold(r.vendor) = Fold(v) => r.vendor = v) =>
             LET subtotals == SelectSeq(RowsOf("subtotal"), LAMBDA row : row.vendor = v)
             IN  IF job.skipSingle /\ Len(OfVendor(v)) = 1 THEN subtotals = <<>>
                 ELSE /\ Len(subtotals) = 1
                      /\ subtotals[1].sums = Figures(OfVendor(v))

FileOf(r) == CHOOSE f \in Range(job.files) : f.name = r.file

BaseScans == {"baseMarked", "bases", "bases2"}
VatScans == {"vatMarked", "percentVat", "vatText", "vatNear", "vatLine", "vats", "vats2"}
Readings(c, scans) == {c[s] : s \in DOMAIN c \cap scans}

\* The scans for the VAT and those for the amount before VAT correct each
\* other: once the total is settled, it is enough that the ones that speak on
\* one side agree on an amount at the usual rate.  On the other side any
\* number of them may mistake one amount of the invoice for another, or read
\* 0, as long as none takes the total for the VAT, and the record still has
\* the total, that VAT and that base.
OneSideSuffices ==
    \A r \in Range(records) :
       LET f == FileOf(r)
           c == f.found
           t == TotalOf(c)
           read == {a \in Readings(c, Sources) : Known(a)}
       IN  ~f.municipal /\ Range(f.partner) = {NoAmount} /\ Known(t) =>
           \A v \in read \cup {t - a : a \in read} :
              /\ Known(Rate(t, v)) /\ IsUsualRate(Rate(t, v))
              /\ read \subseteq {0, v, t - v, t}
              /\ \/ Readings(c, VatScans) = {v}
                 \/ Readings(c, BaseScans) = {t - v} /\ t \notin Readings(c, VatScans)
              => r.total = t /\ ~Apart(r.vat, v) /\ ~Apart(r.base, t - v)
=============================================================================
