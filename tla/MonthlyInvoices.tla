-------------------------- MODULE MonthlyInvoices --------------------------
(***************************************************************************)
(* The monthly run (cli/monthly_invoices.py): both finders in parallel,     *)
(* then the duplicates of every folder whose finder succeeded are moved     *)
(* aside, then those folders are copied into the merged folder of the       *)
(* month.  The run is repeated by hand or by a schedule and may stop at any *)
(* point; nothing but the folders and the Outlook report survives it.       *)
(***************************************************************************)
EXTENDS MailFinder

CONSTANTS
    Torn,    \* what an interrupted copy leaves, equal to no PDF
    MaxRuns  \* bound: monthly runs

ASSUME TornIsNoPdf == Torn \notin Pdfs
ASSUME MaxRunsIsNat == MaxRuns \in Nat

VARIABLES
    stage,      \* what the monthly run is doing
    dirs,       \* providers whose folders are still to be worked on
    left,       \* paths of the first of them still to be worked on
    seen,       \* what the pass over them has met
    merged,     \* invoices_<month>
    unread,     \* providers with a file the consolidation could not read
    delivered,  \* providers the last completed run consolidated in full
    runs,
    hidden,     \* PDFs some Gmail run could not read at its start
    skipped     \* merged PDFs some consolidation could not read at its start

history == <<hidden, skipped>>
monthVars == <<stage, dirs, left, seen, merged, unread, delivered, runs, history>>
vars == <<finderVars, monthVars>>

Nothing == [hash |-> {}, text |-> {}, stem |-> {}]

Init ==
    /\ FinderInit
    /\ stage = "idle"
    /\ dirs = <<>>
    /\ left = {}
    /\ seen = Nothing
    /\ merged = EmptyFolder
    /\ unread = {}
    /\ delivered = {}
    /\ runs = 0
    /\ hidden = {} /\ skipped = {}

---------------------------------------------------------------------------
(* main: the finders run in a thread pool, one of them may fail. *)

\* All the PDFs a provider has, wherever they were moved.
Have(p) == Range(folder[p]) \cup Range(dups[p])

\* Reading may fail for any of the files that are there.
Overlooks(blind) == IF blind = {} THEN UNCHANGED faults ELSE Fault

StartMonth(blind) ==
    /\ stage = "idle" /\ runs < MaxRuns
    /\ runs' = runs + 1
    /\ stage' = "providers"
    /\ Overlooks(blind)
    /\ fin' = [p \in Providers |-> Started(p, blind)]
    /\ hidden' = hidden \cup blind
    /\ delivered' = {}
    /\ UNCHANGED <<folder, dups, report, clean,
                   dirs, left, seen, merged, unread, skipped>>

RunFinder(p) ==
    /\ stage = "providers"
    /\ FinderStep(p)
    /\ UNCHANGED monthVars

\* The folders that are used, in the order of build_runs.
IfOk(p) == IF fin[p].pc = "ok" THEN <<p>> ELSE <<>>
Successful == IfOk("gmail") \o IfOk("outlook")

\* The pass over the folders of the providers ps; iter_invoice_pdfs.
OpenDirs(ps) ==
    /\ dirs' = ps
    /\ left' = IF ps = <<>> THEN {} ELSE Listed(folder[Head(ps)])

FindersDone ==
    /\ stage = "providers"
    /\ \A p \in Providers : fin[p].pc \in {"ok", "failed"}
    /\ stage' = "dedupe"
    /\ OpenDirs(Successful)
    /\ seen' = Nothing
    /\ UNCHANGED <<finderVars, merged, unread, delivered, runs, history>>

---------------------------------------------------------------------------
(* dedupe_provider_dir: in whatever order the folder lists its files. *)

IsDuplicate(path, pdf) ==
    \/ pdf \in seen.hash
    \/ Stem(path) \in seen.stem
    \/ SameText(pdf, seen.text)

KeepFile(path) ==
    LET pdf == folder[Head(dirs)][path] IN
    /\ stage = "dedupe" /\ path \in left
    /\ ~IsDuplicate(path, pdf)
    /\ seen' = [hash |-> seen.hash \cup {pdf},
                text |-> seen.text \cup Texts({pdf}),
                stem |-> seen.stem \cup {Stem(path)}]
    /\ left' = left \ {path}
    /\ UNCHANGED <<finderVars, stage, dirs, merged, unread, delivered, runs, history>>

MoveAside(path) ==
    LET p == Head(dirs)
        pdf == folder[p][path]
    IN
    /\ stage = "dedupe" /\ path \in left
    /\ IsDuplicate(path, pdf)
    /\ folder' = [folder EXCEPT ![p] = Remove(@, path)]
    /\ dups' = [dups EXCEPT ![p] = Put(@, UniquePath(@, path), pdf)]
    /\ left' = left \ {path}
    /\ UNCHANGED <<report, fin, clean, faults, stage, dirs, seen, merged,
                   unread, delivered, runs, history>>

\* A file that cannot be read or moved stays where it is.
DedupeFails(path) ==
    /\ stage = "dedupe" /\ path \in left
    /\ Fault
    /\ left' = left \ {path}
    /\ UNCHANGED <<folder, dups, report, fin, clean, stage, dirs, seen, merged,
                   unread, delivered, runs, history>>

\* Every folder is searched for duplicates on its own.
DirDeduped ==
    /\ stage = "dedupe" /\ left = {} /\ Len(dirs) > 1
    /\ OpenDirs(Tail(dirs))
    /\ seen' = Nothing
    /\ UNCHANGED <<finderVars, stage, merged, unread, delivered, runs, history>>

---------------------------------------------------------------------------
(* consolidate_pdfs *)

\* preload_hashes: what earlier runs consolidated, but for the files that
\* cannot be read.
\* Mutant: only this run counts.
NotPreloaded(existing, blind) == {}
Preloaded(existing, blind) == Range(existing) \ blind

StartMerge(blind) ==
    /\ stage = "dedupe" /\ left = {} /\ Len(dirs) <= 1
    /\ stage' = "merge"
    /\ OpenDirs(Successful)
    /\ Overlooks(blind)
    /\ seen' = [Nothing EXCEPT !.hash = Preloaded(merged, blind)]
    /\ skipped' = skipped \cup blind
    /\ unread' = {}
    /\ UNCHANGED <<folder, dups, report, fin, clean, merged, delivered, runs, hidden>>

CopyOrSkip(path) ==
    LET pdf == folder[Head(dirs)][path] IN
    /\ stage = "merge" /\ path \in left
    /\ IF pdf \in seen.hash
       THEN UNCHANGED <<merged, seen>>
       ELSE /\ merged' = Put(merged, UniquePath(merged, path), pdf)
            /\ seen' = [seen EXCEPT !.hash = @ \cup {pdf}]
    /\ left' = left \ {path}
    /\ UNCHANGED <<finderVars, stage, dirs, unread, delivered, runs, history>>

Unreadable(path) ==
    /\ stage = "merge" /\ path \in left
    /\ Fault
    /\ left' = left \ {path}
    /\ unread' = unread \cup {Head(dirs)}
    /\ UNCHANGED <<folder, dups, report, fin, clean, stage, dirs, seen, merged,
                   delivered, runs, history>>

DirMerged ==
    /\ stage = "merge" /\ left = {} /\ Len(dirs) > 1
    /\ OpenDirs(Tail(dirs))
    /\ UNCHANGED <<finderVars, stage, seen, merged, unread, delivered, runs, history>>

\* write_summary; the exit code tells whether a finder failed.
EndMonth ==
    /\ stage = "merge" /\ left = {} /\ Len(dirs) <= 1
    /\ stage' = "idle"
    /\ dirs' = <<>>
    /\ seen' = Nothing
    /\ delivered' = Range(Successful) \ unread
    /\ unread' = {}
    /\ fin' = [p \in Providers |-> Idle]
    /\ UNCHANGED <<folder, dups, report, clean, faults, left, merged, runs, history>>

\* The process stops; a copy it was writing stays half done.
Crash ==
    /\ stage # "idle"
    /\ Fault
    /\ \/ merged' = merged
       \/ /\ stage = "merge"
          /\ \E path \in left :
                /\ folder[Head(dirs)][path] \notin seen.hash
                /\ merged' = Put(merged, UniquePath(merged, path), Torn)
    /\ stage' = "idle"
    /\ dirs' = <<>> /\ left' = {} /\ seen' = Nothing /\ unread' = {}
    /\ fin' = [p \in Providers |-> Idle]
    /\ UNCHANGED <<folder, dups, report, clean, delivered, runs, history>>

Next ==
    \/ \E blind \in SUBSET Have("gmail") : StartMonth(blind)
    \/ \E p \in Providers : RunFinder(p)
    \/ FindersDone
    \/ \E path \in left :
        \/ KeepFile(path) \/ MoveAside(path) \/ DedupeFails(path)
        \/ CopyOrSkip(path) \/ Unreadable(path)
    \/ \E blind \in SUBSET Range(merged) : StartMerge(blind)
    \/ DirDeduped \/ DirMerged \/ EndMonth
    \/ Crash

Spec == Init /\ [][Next]_vars

---------------------------------------------------------------------------
(* Properties. *)

TypeOK ==
    /\ \A p \in Providers :
        /\ Range(folder[p]) \cup Range(dups[p]) \subseteq Pdfs
        /\ fin[p].pc \in {"idle", "scan", "attach", "links", "ok", "failed"}
        /\ fin[p].msg \in Msgs \cup {NoMsg}
        /\ fin[p].rows \subseteq Row
    /\ report \subseteq Row
    /\ clean \in [Providers -> 0 .. 2]
    /\ Range(merged) \subseteq Pdfs \cup {Torn}
    /\ stage \in {"idle", "providers", "dedupe", "merge"}
    /\ unread \cup delivered \subseteq Providers
    /\ runs \in 0 .. MaxRuns /\ faults \in 0 .. MaxFaults
    /\ hidden \subseteq Pdfs /\ skipped \subseteq Pdfs \cup {Torn}

\* The Gmail finder saves a PDF again only where an earlier copy has a name its
\* index passes over, or could not be read at the start of some run, whatever
\* runs were interrupted and whatever was moved aside; the Outlook finder,
\* which starts without hashes, never saves one twice in a run.
OneCopyPerPdf ==
    \A p \in Providers :
        LET all == ({0} \X DOMAIN folder[p]) \cup ({1} \X DOMAIN dups[p])
            pdf(x) == IF x[1] = 0 THEN folder[p][x[2]] ELSE dups[p][x[2]]
            unindexed == {0} \X (DOMAIN folder[p] \ Indexed(folder[p]))
        IN  \A x, y \in all : x # y /\ pdf(x) = pdf(y) =>
                IF p = "gmail" THEN pdf(x) \in hidden \/ {x, y} \cap unindexed # {}
                ELSE ~({x, y} \subseteq {0} \X fin[p].mine)

\* The finders and dedupe_provider_dir keep the folders in order.
FoldersConsistent == TypeOK /\ OneCopyPerPdf

\* No step loses a PDF: attachments share names, and the number of a file that
\* was moved aside is given out again, so the same name may be moved a second
\* time; a file is always put under a name that is free.
NothingIsLost ==
    [][/\ \A p \in Providers : Have(p) \subseteq Have(p)'
       /\ Range(merged) \subseteq Range(merged)']_vars

\* An attachment with an accepted PDF is in the folder or among its
\* duplicates (Gmail: or one with the same text is) once reports of runs
\* without a fault were written, one by the Gmail finder, two by the Outlook
\* finder: its cache may skip a message whose attachment failed, but only in
\* every other completed run.  Messages and attachments beyond the caps are
\* never fetched, and not claimed.
CleanRunsSuffice ==
    \A p \in Providers : \A m \in Reached(p) :
        /\ clean[p] >= (IF p = "gmail" THEN 1 ELSE 2)
        /\ Considered(p, m) /\ ~(p = "outlook" /\ Mail[m].negative)
        => \A i \in 1 .. AttCount(p, m) :
                LET pdf == Mail[m].atts[i].pdf IN
                pdf \in Accepted =>
                    pdf \in Have(p) \/ (p = "gmail" /\ SameText(pdf, Texts(Have(p))))

\* The merged folder holds a PDF once, however often the run was repeated,
\* and in whole, unless a copy was interrupted or could not be read when a
\* later run looked for it.
MergedHoldsOnce ==
    \A a, b \in DOMAIN merged :
        merged[a] = merged[b] /\ a # b => merged[a] \in {Torn} \cup skipped

\* A file as dedupe_provider_dir compares it, and when it takes two for twins.
Twin(a, b) == a.pdf = b.pdf \/ a.stem = b.stem \/ SameText(a.pdf, Texts({b.pdf}))

\* After a run that consolidated a provider, whatever is in its folder under a
\* name in .pdf is in the merged folder, and whatever was moved aside is linked
\* to such a file by a chain of twins (same PDF, same text or same stem).  A
\* single twin may be gone: being a twin is not transitive, and a file kept by
\* one pass can be moved aside by the next.  A file named otherwise (.PDF, or
\* no PDF suffix) is never merged, and not claimed.
MergedUpToTwins ==
    \A p \in delivered :
        LET inFolder == {[stem |-> Stem(a), pdf |-> folder[p][a]] :
                            a \in Listed(folder[p])}
            moved == {[stem |-> Stem(d.wanted), pdf |-> dups[p][d]] :
                            d \in DOMAIN dups[p]}
        IN  /\ At(folder[p], Listed(folder[p])) \subseteq Range(merged)
            /\ \A aside \in (SUBSET (moved \ inFolder)) \ {{}} :
                \E a \in aside, b \in (moved \cup inFolder) \ aside : Twin(a, b)

\* consolidate_pdfs brings everything over that is worth keeping, once.
MergedIsComplete == MergedHoldsOnce /\ MergedUpToTwins
=============================================================================
