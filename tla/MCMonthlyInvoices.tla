------------------------- MODULE MCMonthlyInvoices -------------------------
(* MonthlyInvoices on a small mailbox for each provider. *)
EXTENDS MonthlyInvoices, TLC

CONSTANTS g1, g2, g3, o1, o2, o3, o4, A, B, C, D, E, X, tA, tC, tD

\* A and B have the same text; E and X have none, and verification rejects X.
MCText == (A :> tA) @@ (B :> tA) @@ (C :> tC) @@ (D :> tD) @@ (E :> NoText) @@ (X :> NoText)

Named(name, ext, pdf) == [name |-> name, ext |-> ext, pdf |-> pdf, bezeq |-> FALSE]
Pdf(name, pdf) == Named(name, ".pdf", pdf)
Bezeq(name, pdf) == [Pdf(name, pdf) EXCEPT !.bezeq = TRUE]

Message(box, nth, likely, negative, atts, links) ==
    [box |-> box, nth |-> nth, likely |-> likely, negative |-> negative,
     atts |-> atts, links |-> links]

\* g1 and o1 have attachments of one name, the last of g1 without a PDF suffix,
\* the last of o1 beyond the cap; o1 has a footer link besides; g2 has only
\* links that matter, the second spelt .PDF; o2 has an attachment that is
\* refused and a link; the text of o3 speaks against an invoice; g3 and o4 are
\* beyond the caps.
MCMail == [m \in Msgs |->
    CASE m = g1 -> Message("gmail", 1, TRUE, FALSE,
                <<Pdf("bill", A), Pdf("bill", C), Named("bill", ".bin", E)>>, <<>>)
      [] m = g2 -> Message("gmail", 2, TRUE, FALSE, <<Pdf("logo", NoPdf)>>,
                <<Bezeq("bill", B), Named("slip", ".PDF", D)>>)
      [] m = g3 -> Message("gmail", 3, TRUE, FALSE, <<Pdf("old", D)>>, <<>>)
      [] m = o1 -> Message("outlook", 1, FALSE, FALSE,
                <<Pdf("bill", A), Pdf("bill", C), Pdf("bill", D)>>, <<Pdf("home", NoPdf)>>)
      [] m = o2 -> Message("outlook", 2, TRUE, FALSE, <<Pdf("scan", X)>>, <<Bezeq("bill", B)>>)
      [] m = o3 -> Message("outlook", 3, FALSE, TRUE, <<Pdf("ad", D)>>, <<>>)
      [] m = o4 -> Message("outlook", 4, TRUE, FALSE, <<Pdf("old", D)>>, <<>>)]

MCMsgCap == [gmail |-> 2, outlook |-> 3]
=============================================================================
