--------------------------- MODULE InvoiceTotals ---------------------------
(***************************************************************************)
(* How the amounts of an invoice are settled (usecases/report_totals.py     *)
(* infer_totals, usecases/report_parser.py, usecases/report_splitter.py).   *)
(* What the scans of the text find is the input: the amount, or the few     *)
(* amounts, that each source yields.  The rules that choose among them and  *)
(* derive one from the other are modelled in full.                          *)
(* Amounts are counted in fifths of an agora, even thousandths of a shekel: *)
(* parse_number keeps as many decimals as the text has, and a sum of them   *)
(* never falls on a half agora, where Python's round depends on the binary  *)
(* representation.                                                          *)
(***************************************************************************)
EXTENDS Integers, Sequences, SequencesExt, FiniteSets

CONSTANT NoAmount   \* None

Known(a) == a # NoAmount
Abs(n) == IF n < 0 THEN -n ELSE n
Agora == 5
Shekel == 100 * Agora

\* round(x, 2).
Round(n) == Agora * ((n + 2) \div Agora)

Apart(a, b) == Abs(a - b) > Shekel
Largest(S) == CHOOSE a \in S : \A b \in S : b <= a
Least(S) == CHOOSE a \in S : \A b \in S : a <= b

\* Where amounts come from.  Four scans yield a list: its first amount, and
\* the further ones.  For currency the first is the one select_amount prefers,
\* for sums (the blocks after a "total" marker) the largest of the best block.
Further == [sums |-> "sums2", currency |-> "currency2", bases |-> "bases2", vats |-> "vats2"]
Sources == {"marked", "printed", "debit", "late", "sums", "shekel", "currency", "withVat",
            "baseMarked", "bases", "vatMarked", "percentVat", "vatText", "vatNear", "vatLine",
            "vats", "block"} \cup Range(Further)

\* The scans' result c maps the sources that yield something to their amount.
One(c, source) == IF source \in DOMAIN c THEN c[source] ELSE NoAmount
All(c, list) == {c[s] : s \in DOMAIN c \cap {list, Further[list]}}

\* "if x is None: x = y".
Else(x, y) == IF Known(x) THEN x ELSE y

\* vat_rate_estimate, in hundredths of a percent.
Rate(total, vat) ==
    IF ~Known(total) \/ ~Known(vat) THEN NoAmount
    ELSE IF total = 0 \/ total - vat <= 0 THEN NoAmount
    ELSE (20000 * vat + total - vat) \div (2 * (total - vat))
IsUsualRate(r) == Abs(r - 1800) < 100

---------------------------------------------------------------------------
(* The total: the first source that speaks, then the corrections. *)

FromMarkers(c) ==
    LET t == Else(One(c, "marked"), One(c, "printed"))
        d == IF (~Known(t) \/ t <= 5 * Shekel) /\ "debit" \in DOMAIN c THEN c["debit"] ELSE t
    IN  Else(d, One(c, "late"))

FromBlock(c, t) ==
    LET b == One(c, "sums")
        u == IF Known(b) /\ b # 0 /\ (~Known(t) \/ b - t > 50 * Shekel) THEN b ELSE t
    IN  Else(u, One(c, "shekel"))

FromCurrency(c, t) ==
    LET f == One(c, "currency")
    IN  IF ~Known(t) THEN f
        ELSE IF Known(f) /\ f # 0 /\ (t - f > 50 * Shekel \/ (t <= 5 * Shekel /\ f > t)) THEN f
        ELSE t

TotalOf(c) ==
    LET t == FromCurrency(c, FromBlock(c, FromMarkers(c)))
        m == One(c, "withVat")
    IN  IF Known(m) /\ (~Known(t) \/ Apart(m, t)) THEN m ELSE t

---------------------------------------------------------------------------
(* The amount before VAT, and the VAT. *)

\* The block value nearest to total / 1.18.
NearestBase(c, t) ==
    LET near == {a \in All(c, "sums") : 0 < a /\ a < t}
        off(a) == Abs(118 * a - 100 * t)
    IN  IF near = {} THEN NoAmount ELSE CHOOSE a \in near : \A b \in near : off(a) <= off(b)

FirstBase(c, t) ==
    LET bases == All(c, "bases")
        below == {a \in bases : Known(t) /\ a < t}
        b == IF bases = {} THEN One(c, "baseMarked")
             ELSE Largest(IF below = {} THEN bases ELSE below)
    IN  IF ~Known(b) /\ Known(t) /\ t > 0 THEN NearestBase(c, t) ELSE b

FirstVat(c) ==
    LET v == One(c, "vatMarked")
        p == One(c, "percentVat")
        w == IF Known(p) /\ (~Known(v) \/ Apart(p, v)) THEN p ELSE v
    IN  Else(Else(Else(w, One(c, "vatText")), One(c, "vatNear")), One(c, "vatLine"))

\* An amount near "VAT of" whose rate is the usual one, or else the least.
FromCandidates(c, t, v) ==
    LET low == {a \in All(c, "vats") : Known(t) /\ 0 < a /\ a < t}
        usual == {a \in low : IsUsualRate(Rate(t, a))}
    IN  IF low = {} THEN v ELSE Least(IF usual = {} THEN low ELSE usual)

Difference(t, b, v) ==
    IF ~Known(v) /\ Known(t) /\ Known(b) /\ Round(t - b) >= 0 THEN Round(t - b) ELSE v

FromSmaller(c, t, v) ==
    LET smaller == {a \in All(c, "currency") : Known(t) /\ a < t}
        d == Round(t - Largest(smaller))
    IN  IF smaller = {} THEN v
        ELSE IF ~Known(v) \/ (0 < d /\ d < v) THEN d ELSE v

\* A VAT above the total is given up, and looked for again near the markers.
FoundVat(c, t, b) ==
    LET v == Difference(t, b, FromCandidates(c, t, FirstVat(c)))
        w == IF Known(v) /\ Known(t) /\ v > t THEN NoAmount ELSE v
        u == Else(w, One(c, "vatNear"))
    IN  FromSmaller(c, t, IF Known(t) /\ Known(b) /\ b < t THEN Difference(t, b, u) ELSE u)

\* Mutant: a VAT at an unusual rate is not given up for the one of the base.
VatUnchecked(c, t, b) == FoundVat(c, t, b)
VatOf(c, t, b) ==
    LET x == FoundVat(c, t, b)
        r == Rate(t, x)
    IN  IF Known(r) /\ Known(b) /\ b < t /\ Abs(r - 1800) > 100 THEN Round(t - b) ELSE x

BaseOf(t, b, v) ==
    IF /\ Known(t) /\ Known(v) /\ Round(t - v) >= 0
       /\ ~Known(b) \/ Apart(b, Round(t - v))
    THEN Round(t - v) ELSE b

\* infer_totals.  A municipal invoice has no VAT and the total of its block.
Totals(c, municipal) ==
    LET t == TotalOf(c)
        b == FirstBase(c, t)
        v == VatOf(c, t, b)
        sum == One(c, "block")
        corrected == municipal /\ Known(sum) /\ (~Known(t) \/ t < 50 * Shekel \/ Apart(t, sum))
    IN  [total |-> IF corrected THEN sum ELSE t,
         vat |-> IF municipal THEN 0 ELSE v,
         base |-> BaseOf(t, b, v)]

\* parse_invoice: the periodic page of a Partner bill overrides what it states.
Overridden(sums, partner) ==
    [f \in DOMAIN sums |-> Else(partner[f], sums[f])]

---------------------------------------------------------------------------
(* split_municipal_multi_invoice: one record for every bill of a file.  The *)
(* clone keeps the amount before VAT of the whole file.                      *)

\* "total or breakdown_sum": a total of 0 counts as none.
PageTotal(pg) == IF pg.total \in {NoAmount, 0} THEN pg.sum ELSE pg.total

FirstOfId(pages) ==
    FoldLeft(LAMBDA kept, pg : IF \E i \in DOMAIN kept : kept[i].id = pg.id
                               THEN kept ELSE Append(kept, pg), <<>>, pages)

Split(rec, municipal, pages) ==
    LET bills == SelectSeq(pages, LAMBDA pg : Known(pg.total) \/ Known(pg.sum))
        kept == FirstOfId(bills)
    IN  IF ~municipal \/ Len(kept) < 2 THEN <<rec>>
        ELSE [i \in DOMAIN kept |->
                 [rec EXCEPT !.id = kept[i].id, !.total = PageTotal(kept[i]), !.vat = 0,
                             !.date = Else(kept[i].date, rec.date)]]
=============================================================================
