---------------------------- MODULE InvoiceFiles ----------------------------
(***************************************************************************)
(* Folders of invoice PDFs as the mailbox finders and the monthly run use   *)
(* them (domain/files.py, cli/monthly_invoices.py).  A folder maps paths to *)
(* PDFs.  A path is a wanted name and the number that made it unique: the   *)
(* finders want <attachment name>__<message tag>, with the suffix of the    *)
(* attachment, the monthly run wants the name of the file it moves or       *)
(* copies.  PDFs are equal when their SHA-256 digests are.                  *)
(***************************************************************************)
EXTENDS Naturals, FiniteSets, Functions

CONSTANTS
    Pdfs,        \* the PDFs that can be met
    Text,        \* the text fingerprint of each PDF
    NoText,      \* the fingerprint of a PDF without extractable text
    NumericTags, \* the messages whose tag consists of digits
    PdfSuffixes  \* ".pdf" in its spellings

ASSUME TextIsTotal == Pdfs = DOMAIN Text
ASSUME PdfIsSuffix == ".pdf" \in PdfSuffixes

EmptyFolder == [path \in {} |-> NoText]

Put(folder, path, pdf) ==
    [q \in DOMAIN folder \cup {path} |-> IF q = path THEN pdf ELSE folder[q]]

Remove(folder, path) == Restrict(folder, DOMAIN folder \ {path})

\* ensure_unique_path and ensure_unique: the first number that is free.
\* Mutant: the wanted name as it is.
WantedPath(folder, wanted) == [wanted |-> wanted, n |-> 1]
UniquePath(folder, wanted) ==
    LET free == {n \in 1 .. Cardinality(DOMAIN folder) + 1 :
                    [wanted |-> wanted, n |-> n] \notin DOMAIN folder}
    IN  [wanted |-> wanted, n |-> CHOOSE n \in free : \A k \in free : n <= k]

\* stem_key and normalized_stem drop one trailing __<digits>: the number of a
\* numbered path, or else the tag of a message if the tag is a number.
Stem(path) ==
    IF path.n = 1 /\ path.wanted.msg \in NumericTags
    THEN <<path.wanted.name>>
    ELSE <<path.wanted.name, path.wanted.msg>>

\* The indexes of the Gmail finder take .pdf in any spelling, the listing of
\* the monthly run (rglob) only this one.
Indexed(folder) == {path \in DOMAIN folder : path.wanted.ext \in PdfSuffixes}
Listed(folder) == {path \in DOMAIN folder : path.wanted.ext = ".pdf"}

At(folder, paths) == {folder[path] : path \in paths}
Stems(paths) == {Stem(path) : path \in paths}

\* duplicate_by_text_fingerprint: PDFs without a fingerprint never match.
SameText(pdf, texts) == Text[pdf] # NoText /\ Text[pdf] \in texts

Texts(pdfs) == {Text[pdf] : pdf \in pdfs} \ {NoText}
=============================================================================
