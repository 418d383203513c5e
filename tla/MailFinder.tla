----------------------------- MODULE MailFinder -----------------------------
(***************************************************************************)
(* The two mailbox finders, gmail_invoice_finder and graph_invoice_finder   *)
(* (Outlook): one run goes through the messages of a date window, saves the *)
(* PDFs it accepts in the provider's folder and ends by writing a report.   *)
(* The Gmail finder knows what earlier runs did from the files it finds,    *)
(* the Outlook finder from the report the last completed run left behind.   *)
(*                                                                          *)
(* Headers, texts and the relevance score are abstracted to whether a       *)
(* message is considered and whether a PDF is accepted.  A link yields a    *)
(* PDF directly, through a browser (which fails like a direct download) or  *)
(* through the Bezeq site.  The report of the Gmail finder is never read    *)
(* and is left out.                                                         *)
(***************************************************************************)
EXTENDS InvoiceFiles, Sequences

CONSTANTS
    Msgs,      \* messages of the date window
    Mail,      \* what each message holds
    NoPdf,     \* an attachment or a link that is no PDF
    NoMsg,     \* no message is being worked on
    Accepted,  \* the PDFs verification accepts
    MsgCap,    \* messages a finder goes through, --max-messages or the pages
    AttCap,    \* attachments the Outlook finder is told of
    MaxFaults  \* bound: calls that fail and processes that die

Providers == {"gmail", "outlook"}

\* An attachment or a link; bezeq: the link is in a domain of Bezeq.
Item == [name : STRING, ext : STRING, pdf : Pdfs \cup {NoPdf}, bezeq : BOOLEAN]

ASSUME MailIsKnown ==
    \A m \in Msgs :
        /\ Mail[m].box \in Providers
        /\ Mail[m].nth \in Nat           \* its place in the list, newest first
        /\ Mail[m].likely \in BOOLEAN    \* the headers look like an invoice's
        /\ Mail[m].negative \in BOOLEAN  \* ... or speak against one
        /\ Mail[m].atts \in Seq(Item)
        /\ Mail[m].links \in Seq(Item)
ASSUME MarkersAreFresh == NoPdf \notin Pdfs /\ NoMsg \notin Msgs
ASSUME AcceptedArePdfs == Accepted \subseteq Pdfs
ASSUME CapsAreNat == MsgCap \in [Providers -> Nat] /\ AttCap \in Nat \ {0}
ASSUME MaxFaultsIsNat == MaxFaults \in Nat

VARIABLES
    folder,  \* invoices_dir of each provider
    dups,    \* its duplicates/ folder
    report,  \* rows of the last Outlook report, what a reader makes of it
    fin,     \* the run of each finder
    clean,   \* consecutive reports of runs without a fault, up to 2
    faults

finderVars == <<folder, dups, report, fin, clean, faults>>

Reasons == {"saved", "skip", "verify_failed", "links_no_pdf",
            "no_attach_no_pdf_links", "negative_context", "bezeq_no_pdf",
            "attachments_list_fail", "attach_download_fail", "body_fetch_fail"}
Row == [id : Msgs, reason : Reasons]

Idle ==
    [pc |-> "idle", todo |-> {}, msg |-> NoMsg, pos |-> 1, saved |-> FALSE,
     hash |-> {}, text |-> {}, stem |-> {}, skip |-> {}, rows |-> {},
     mine |-> {}, bad |-> FALSE]

FinderInit ==
    /\ folder = [p \in Providers |-> EmptyFolder]
    /\ dups = [p \in Providers |-> EmptyFolder]
    /\ report = {}
    /\ fin = [p \in Providers |-> Idle]
    /\ clean = [p \in Providers |-> 0]
    /\ faults = 0

---------------------------------------------------------------------------
(* The message cache of the Outlook finder. *)

\* Any reason with "_fail" in it, a refused PDF's too (without --keep-quarantine).
IsRetryable(reason) ==
    reason \in {"attachments_list_fail", "attach_download_fail",
                "body_fetch_fail", "verify_failed"}

CachedIds(rows) == {r.id : r \in {x \in rows : ~IsRetryable(x.reason)}}

\* Rows of the report are only kept where somebody reads them again.
WithRows(p, f, reasons) ==
    IF p = "outlook"
    THEN [f EXCEPT !.rows = @ \cup {[id |-> f.msg, reason |-> r] : r \in reasons}]
    ELSE f

---------------------------------------------------------------------------
(* The start of a run and the choice of a message. *)

\* The messages a run goes through: what exceeds the cap is never listed.
Reached(p) == {m \in Msgs : Mail[m].box = p /\ Mail[m].nth <= MsgCap[p]}

\* What a run knows at its start: the files of its folder that are named .pdf
\* (Gmail; the hash index includes duplicates/, all of them named so) or the
\* messages of the last report (Outlook).  A file that cannot be read is not
\* known: neither its hash nor its text.
\* Mutant: the hashes of earlier runs are not loaded.
Forgetful(p, blind) ==
    [Idle EXCEPT !.pc = "scan", !.todo = Reached(p),
                 !.skip = IF p = "outlook" THEN CachedIds(report) ELSE {}]
Started(p, blind) ==
    LET found == p = "gmail"
        here == At(folder[p], Indexed(folder[p])) IN
    [Idle EXCEPT
        !.pc = "scan",
        !.todo = Reached(p),
        !.hash = IF found THEN (here \cup Range(dups[p])) \ blind ELSE {},
        !.text = IF found THEN Texts(here \ blind) ELSE {},
        !.stem = IF found THEN Stems(Indexed(folder[p])) ELSE {},
        !.skip = IF found THEN {} ELSE CachedIds(report)]

Considered(p, m) ==
    \/ Mail[m].likely
    \/ p = "outlook" /\ Mail[m].atts # <<>>
    \/ p = "gmail" /\ \E i \in DOMAIN Mail[m].atts : Mail[m].atts[i].pdf # NoPdf

\* A message the cache, the prefilter or the Outlook finder's negative
\* context keeps from being opened.
PassOver(p) ==
    /\ fin[p].pc = "scan"
    /\ \E m \in fin[p].todo :
        LET f == [fin[p] EXCEPT !.todo = @ \ {m}, !.skip = @ \cup {m}]
        IN  \/ /\ m \in fin[p].skip \/ ~Considered(p, m)
               /\ fin' = [fin EXCEPT ![p] = f]
            \/ /\ p = "outlook" /\ m \notin fin[p].skip
               /\ Considered(p, m) /\ Mail[m].negative
               /\ fin' = [fin EXCEPT ![p] =
                    [WithRows(p, [f EXCEPT !.msg = m], {"negative_context"})
                        EXCEPT !.msg = NoMsg]]
    /\ UNCHANGED <<folder, dups, report, clean, faults>>

Openable(p, m) ==
    /\ fin[p].pc = "scan"
    /\ m \in fin[p].todo \ fin[p].skip
    /\ Considered(p, m)
    /\ p = "outlook" => ~Mail[m].negative

Opened(p, m, pc) ==
    [fin[p] EXCEPT !.pc = pc, !.todo = @ \ {m}, !.skip = @ \cup {m}, !.msg = m]

OpenMessage(p, m) ==
    /\ Openable(p, m)
    /\ fin' = [fin EXCEPT ![p] = Opened(p, m, "attach")]
    /\ UNCHANGED <<folder, dups, report, clean, faults>>

Fault == faults < MaxFaults /\ faults' = faults + 1

\* The message cannot be fetched (Gmail: it is given up) or its attachments
\* cannot be listed (Outlook: its links are still tried).
OpenFails(p, m) ==
    /\ Openable(p, m)
    /\ Fault
    /\ \/ /\ p = "gmail"
          /\ fin' = [fin EXCEPT ![p] = [Opened(p, m, "scan")
                        EXCEPT !.msg = NoMsg, !.bad = TRUE]]
       \/ /\ p = "outlook" /\ Mail[m].atts # <<>>
          /\ fin' = [fin EXCEPT ![p] =
                [WithRows(p, Opened(p, m, "links"), {"attachments_list_fail"})
                    EXCEPT !.bad = TRUE]]
    /\ UNCHANGED <<folder, dups, report, clean>>

---------------------------------------------------------------------------
(* What happens to a PDF that was downloaded. *)

Known(p, f, pdf) == pdf \in f.hash \/ (p = "gmail" /\ SameText(pdf, f.text))

\* The Gmail finder refuses a linked PDF whose name it has a file for.
StemTaken(p, f, stem, linked) == p = "gmail" /\ linked /\ stem \in f.stem

Verdict(p, f, pdf, stem, linked) ==
    IF Known(p, f, pdf) THEN "skip"
    ELSE IF pdf \notin Accepted THEN "verify_failed"
    ELSE IF StemTaken(p, f, stem, linked) THEN "skip"
    ELSE "saved"

Wanted(f, item) == [name |-> item.name, ext |-> item.ext, msg |-> f.msg]

\* The PDF of an item goes to the folder, or its row to the report alone.
Decide(p, f, item, linked) ==
    LET want == Wanted(f, item)
        stem == Stem([wanted |-> want, n |-> 1])
        verdict == Verdict(p, f, item.pdf, stem, linked)
        path == UniquePath(folder[p], want)
        noted == WithRows(p, f, {verdict})
    IN  IF verdict = "saved"
        THEN /\ folder' = [folder EXCEPT ![p] = Put(@, path, item.pdf)]
             /\ fin' = [fin EXCEPT ![p] =
                    [noted EXCEPT !.saved = TRUE,
                                  !.hash = @ \cup {item.pdf},
                                  !.text = @ \cup Texts({item.pdf}),
                                  !.stem = IF linked THEN @ \cup {stem} ELSE @,
                                  !.mine = @ \cup {path}]]
        ELSE /\ folder' = folder
             /\ fin' = [fin EXCEPT ![p] = noted]

Current(p, items) ==
    fin[p].pos \in DOMAIN items /\ fin[p].msg # NoMsg

\* list_attachments asks for one page; a Gmail message comes with all of them.
AttCount(p, m) ==
    LET all == Len(Mail[m].atts)
    IN  IF p = "outlook" /\ all > AttCap THEN AttCap ELSE all

Advanced(f) == [f EXCEPT !.pos = @ + 1]

\* One attachment: anything but a PDF is passed over.
Attachment(p) ==
    LET f == fin[p] IN
    /\ f.pc = "attach"
    /\ Current(p, Mail[f.msg].atts) /\ f.pos <= AttCount(p, f.msg)
    /\ LET item == Mail[f.msg].atts[f.pos] IN
        IF item.pdf = NoPdf
        THEN fin' = [fin EXCEPT ![p] = Advanced(f)] /\ folder' = folder
        ELSE Decide(p, Advanced(f), item, FALSE)
    /\ UNCHANGED <<dups, report, clean, faults>>

AttachmentFails(p) ==
    LET f == fin[p] IN
    /\ f.pc = "attach"
    /\ Current(p, Mail[f.msg].atts) /\ f.pos <= AttCount(p, f.msg)
    /\ Mail[f.msg].atts[f.pos].pdf # NoPdf
    /\ Fault
    /\ fin' = [fin EXCEPT ![p] = [WithRows(p, Advanced(f), {"attach_download_fail"})
                                    EXCEPT !.bad = TRUE]]
    /\ UNCHANGED <<folder, dups, report, clean>>

AttachmentsDone(p) ==
    LET f == fin[p] IN
    /\ f.pc = "attach"
    /\ f.pos > AttCount(p, f.msg)
    /\ fin' = [fin EXCEPT ![p] = [f EXCEPT !.pc = "links", !.pos = 1]]
    /\ UNCHANGED <<folder, dups, report, clean, faults>>

---------------------------------------------------------------------------
(* Links are tried when no attachment was saved, up to the first that is. *)

AtLink(p, bezeq) ==
    LET f == fin[p] IN
    /\ f.pc = "links" /\ ~f.saved
    /\ Current(p, Mail[f.msg].links)
    /\ Mail[f.msg].links[f.pos].bezeq = bezeq

LinkItem(f) == Mail[f.msg].links[f.pos]

\* A link that is downloaded directly, or is no PDF.
Link(p) ==
    LET f == fin[p] IN
    /\ AtLink(p, FALSE)
    /\ IF LinkItem(f).pdf = NoPdf
       THEN fin' = [fin EXCEPT ![p] = Advanced(f)] /\ folder' = folder
       ELSE Decide(p, Advanced(f), LinkItem(f), TRUE)
    /\ UNCHANGED <<dups, report, clean, faults>>

\* A download that gives up looks like a link that is no PDF.
LinkFails(p) ==
    LET f == fin[p] IN
    /\ AtLink(p, FALSE)
    /\ LinkItem(f).pdf # NoPdf
    /\ Fault
    /\ fin' = [fin EXCEPT ![p] = [Advanced(f) EXCEPT !.bad = TRUE]]
    /\ UNCHANGED <<folder, dups, report, clean>>

NoBezeqPdf(p, f) == WithRows(p, Advanced(f), {"bezeq_no_pdf"})

\* A page of Bezeq, which loads its invoice in a browser.
BezeqLink(p) ==
    LET f == fin[p] IN
    /\ AtLink(p, TRUE)
    /\ IF LinkItem(f).pdf = NoPdf
       THEN fin' = [fin EXCEPT ![p] = NoBezeqPdf(p, f)] /\ folder' = folder
       ELSE Decide(p, Advanced(f), LinkItem(f), TRUE)
    /\ UNCHANGED <<dups, report, clean, faults>>

\* The page does not load its invoice in time.
BezeqFails(p) ==
    LET f == fin[p] IN
    /\ AtLink(p, TRUE)
    /\ Fault
    /\ fin' = [fin EXCEPT ![p] = [NoBezeqPdf(p, f) EXCEPT !.bad = TRUE]]
    /\ UNCHANGED <<folder, dups, report, clean>>

\* The rows a message without a saved PDF ends with.
Rejections(p, m, links) ==
    (IF links # <<>> THEN {"links_no_pdf"} ELSE {})
        \cup (IF Mail[m].atts = <<>> THEN {"no_attach_no_pdf_links"} ELSE {})

Closed(p, f, reasons) ==
    [WithRows(p, f, reasons)
        EXCEPT !.pc = "scan", !.msg = NoMsg, !.pos = 1, !.saved = FALSE]

EndMessage(p) ==
    LET f == fin[p] IN
    /\ f.pc = "links"
    /\ f.saved \/ f.pos > Len(Mail[f.msg].links)
    /\ fin' = [fin EXCEPT ![p] =
            Closed(p, f, IF f.saved THEN {}
                         ELSE Rejections(p, f.msg, Mail[f.msg].links))]
    /\ UNCHANGED <<folder, dups, report, clean, faults>>

\* Outlook fetches the body on its own; without it there are no links.
BodyFails(p) ==
    LET f == fin[p] IN
    /\ p = "outlook" /\ f.pc = "links" /\ ~f.saved /\ f.pos = 1
    /\ Fault
    /\ fin' = [fin EXCEPT ![p] =
            [Closed(p, f, {"body_fetch_fail"} \cup Rejections(p, f.msg, <<>>))
                EXCEPT !.bad = TRUE]]
    /\ UNCHANGED <<folder, dups, report, clean>>

---------------------------------------------------------------------------
(* The end of a run. *)

\* The report replaces the one of the run before.
\* Mutant: it is merged with the rows of earlier runs.
Accumulated(old, new) == old \cup new
Overwritten(old, new) == new

WriteReport(p) ==
    LET f == fin[p] IN
    /\ f.pc = "scan" /\ f.todo = {}
    /\ report' = IF p = "outlook" THEN Overwritten(report, f.rows) ELSE report
    /\ clean' = [clean EXCEPT ![p] = IF f.bad THEN 0 ELSE IF @ = 2 THEN 2 ELSE @ + 1]
    /\ fin' = [fin EXCEPT ![p] = [Idle EXCEPT !.pc = "ok", !.mine = f.mine]]
    /\ UNCHANGED <<folder, dups, faults>>

\* An exception leaves main: listing the messages or writing a file raised.
\* While the report is written it leaves one no reader can parse.
Abort(p) ==
    LET f == fin[p] IN
    /\ f.pc \in {"scan", "attach", "links"}
    /\ Fault
    /\ report' \in {report} \cup
            (IF p = "outlook" /\ f.pc = "scan" /\ f.todo = {} THEN {{}} ELSE {})
    /\ fin' = [fin EXCEPT ![p] = [Idle EXCEPT !.pc = "failed", !.mine = f.mine]]
    /\ UNCHANGED <<folder, dups, clean>>

FinderStep(p) ==
    \/ PassOver(p)
    \/ \E m \in Msgs : OpenMessage(p, m) \/ OpenFails(p, m)
    \/ Attachment(p) \/ AttachmentFails(p) \/ AttachmentsDone(p)
    \/ Link(p) \/ LinkFails(p) \/ BezeqLink(p) \/ BezeqFails(p) \/ EndMessage(p) \/ BodyFails(p)
    \/ WriteReport(p) \/ Abort(p)
=============================================================================
