---------------------------- MODULE MCReportRows ----------------------------
(***************************************************************************)
(* ReportRows on two kinds of input: single files in which up to three      *)
(* sources of amounts speak, or a total and three others, and up to         *)
(* MaxFiles of a few fixed files.                                           *)
(***************************************************************************)
EXTENDS ReportRows

CONSTANT MaxFiles

\* In shekels.
Amounts == {a * Shekel : a \in {0, 3, 18, 100, 118}}

Silent == [s \in {} |-> 0]
NoPartner == [base |-> NoAmount, vat |-> NoAmount, total |-> NoAmount]

File(name, vendor, date, found, municipal, pages) ==
    [name |-> name, there |-> TRUE, text |-> TRUE, vendor |-> vendor, date |-> date,
     found |-> found, municipal |-> municipal, partner |-> NoPartner, pages |-> pages]

\* A further amount of a list comes after a first one.  The debit line may be
\* found and not be readable.
Triples == {S \in {{a, b, d} : a, b, d \in Sources} :
              \A l \in DOMAIN Further : Further[l] \in S => l \in S}
Unreadable == {[s \in {"debit", t, u} |-> IF s = "debit" THEN NoAmount ELSE 3 * Shekel] : t, u \in Sources}
Found == Unreadable \cup UNION {[S -> Amounts] : S \in Triples}

\* The total, VAT and base of an invoice: a marker gives the total, and each of
\* three further scans reads one of them.
Printed == {118 * Shekel, 18 * Shekel, 100 * Shekel}
Misread ==
    UNION {{[s \in S \cup {"marked"} |-> IF s = "marked" THEN 118 * Shekel ELSE c[s]] :
               c \in [S -> Printed]} : S \in Triples}

Singles ==
    [files : [1..1 -> [name : {1}, there : {TRUE}, text : {TRUE}, vendor : {1}, date : {1},
                       found : Found \cup Misread, municipal : BOOLEAN, partner : {NoPartner},
                       pages : {<<>>}]],
     subtotals : {TRUE}, skipSingle : {FALSE}]

\* Vendors 1 and 2 are one name in two spellings.
MCFold(v) == IF v = 2 THEN 1 ELSE v

Total(a) == [s \in {"marked"} |-> a]
Page(id, date, total, sum) == [id |-> id, date |-> date, total |-> total, sum |-> sum]

Files ==
    {File(1, 1, 1, Total(100 * Shekel), FALSE, <<>>), File(2, 2, 2, Total(7 * Shekel + 2), FALSE, <<>>),
     File(3, 1, 3, Silent, FALSE, <<>>), File(4, 3, 1, Total(0), FALSE, <<>>),
     File(5, 3, 9, Total(1 - 40 * Shekel), FALSE, <<>>),
     File(6, 4, 2, Total(60 * Shekel), TRUE, <<Page(8, 5, 30 * Shekel, NoAmount), Page(7, NoAmount, 0, 25 * Shekel + 1),
                                               Page(8, 1, 5, NoAmount),
                                      Page(6, 2, 0, NoAmount), Page(5, 2, NoAmount, NoAmount)>>),
     [File(7, 4, 2, Total(60 * Shekel + 2), FALSE, <<>>) EXCEPT !.partner = [NoPartner EXCEPT !.total = 90 * Shekel + 2]],
     [File(8, 1, 1, Silent, FALSE, <<>>) EXCEPT !.text = FALSE],
     [File(9, 1, 1, Silent, FALSE, <<>>) EXCEPT !.there = FALSE]}

Folders ==
    {[files |-> fs, subtotals |-> s, skipSingle |-> k] :
        fs \in UNION {[1..n -> Files] : n \in 0..MaxFiles}, s \in BOOLEAN, k \in BOOLEAN}

MCJobs == Singles \cup Folders
=============================================================================
