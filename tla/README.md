# Verification of the invoices platform

TLA+ models of the parts of the repository that keep state over several steps:
the SaaS service (`src/apps/workers-py/src/invplatform/saas`), its RQ workers
and retention job, the pages of the web client that follow their work, the
monthly command line run with its two mailbox finders, and the report that
turns amounts found in invoices into rows and totals. TLC checks the models on
small instances, TLAPS proves the central results for every instance.
`PROJECT.json` maps each definition to the lines it stands for.

## 1. Inventory

### The system

A FastAPI process (`saas/api.py`) authenticates a caller and calls
`SaaSService` (`saas/service.py`). The service writes PostgreSQL rows
(`saas/models.py`) and puts tasks into Redis (`saas/queue.py`). RQ workers run
the functions of `saas/worker.py` on these tasks; they write rows, objects in a
storage (`saas/storage.py`: a directory or S3) and further tasks. Commands
(`cli/saas_worker.py`, `cli/saas_cleanup.py`) run the same functions by hand or
on a schedule. Next to the service stand the older command line tools: mailbox
finders, the monthly orchestration and the invoice parser.

| Part | State | Operations | Hard behaviour | What makes it correct |
|---|---|---|---|---|
| Job submission | job rows, idempotency records, queue | `create_parse_job`, `create_report_job`, `create_collection_job` | races for one key, enqueue before commit, failure at the commit | one job per key, replays agree, no job without a task |
| Collection worker | `collection_jobs`, `invoice_files`, `parse_jobs`, audit, storage, queue | `run_collection_job` | double delivery, crash after the claim, exceptions half way through storage and queue writes | one run per job, the outcome is whole, every claimed job ends |
| Parse worker | `parse_jobs`, `invoice_records`, `invoice_files.status` | `run_parse_job`, `saas_worker` | repeated and overlapping runs, partial UPDATEs | a running job is decided, counts agree with records |
| Report worker, retry, cleanup | `reports`, `report_artifacts`, storage, queue | `run_report_job`, `retry_report_job`, `run_report_retention_cleanup` | three actors on one report, storage outside the transaction | succeeded reports offer every requested format and the files are there |
| Auth sessions | `auth_sessions`, memberships, the browser's cookie and local storage | login, refresh, logout, `me`, page load | two tabs with one token, lost answers, refresh against logout | a revoked session stays out, a sign-out ends it, pages settle |
| API keys, bootstrap | `api_keys`, `tenants`, `users`, `memberships` | create, rotate, revoke, authenticate, `bootstrap_tenant`, `bootstrap_tenant_admin_user` | check, then insert; a rotation that read before a revocation | one first user, closed keys stay closed, nothing half done |
| Providers, OAuth | `provider_configs` with the flow's state | CRUD, start, callback, refresh, revoke, test | callbacks, revokes and PATCHes on one row, one JSON column for state and settings | whole token pairs, a spent state is not brought back, status agrees with tokens |
| Tenant guard | session info | `with_loader_criteria` on every SELECT | statements the filter does not reach | no row of another tenant |
| S3 cache | local files | `save_bytes`, `resolve_local_path`, `delete` | a cached copy that is out of date | a read returns the last write |
| Monthly orchestration | provider folders, duplicates folders, merged folder | parallel finders, `dedupe_provider_dir`, consolidation, summary | one provider fails, the process is killed, the run is repeated | nothing lost, duplicates once |
| Mailbox finders | the folder, the Outlook report that is the next run's cache | prefilter, download of attachments and links, verification, duplicate policy, report | failed downloads, interrupted runs, retryable reasons, files the index does not know | no known invoice twice, none within the caps skipped for good |
| Web pages that poll | the shown status, a timer, calls in flight | load, poll, refresh, retry, create, navigate | late and failing answers, overlapping loads | the page shows its own object and its end |
| Amounts and report rows | records of one report | choose and derive amounts, split, sort, group, total | contradicting or missing amounts, rounding, names that fold together | the scans correct each other, sums agree |
| Text scans, HTTP layer, metrics | none or a view | pure functions, routes, counters | none for a model checker | tests |

### Interactions

The API hands work to the workers through the queue only, and they meet again
in the rows: a client polls the row's status. The two stores have no common
transaction, so the order of the queue write and the commit matters. The
storage is a third store, written and deleted at once. Within the database the
deployment (`deploy/`) uses PostgreSQL at its default level, READ COMMITTED.

A page of the web client knows the rows through calls whose answers may arrive
late, out of order or not at all. The command line tools meet only in folders:
the finders write them, the monthly run moves duplicates aside and copies the
rest together, and the report reads the result.

`PROJECT.json` lists the hazards line by line.

## 2. How the code is modelled

* **Transactions.** A statement sees what is committed when it starts. A
  handler is cut where another actor can observe or overtake it: at a SELECT
  whose result is used later, at a flush that can wait or fail, at a write to
  the queue or the storage, at the commit. Rows that are flushed and not yet
  committed are visible to nobody, but an INSERT with the same unique key waits
  for them.
* **ORM sessions.** SQLAlchemy writes the columns that differ from the values it
  loaded, by primary key, without a version check. `OrmSession!Flushed` is that
  rule; `ParseRun`, `ReportLifecycle`, `ProviderOAuth` and `TenantAdmin` use it
  for every commit that follows a read in the same session.
* **Exceptions and crashes.** Calls that leave the process may raise. An
  exception takes the path the code gives it; a crash rolls back the open
  transaction and leaves what was written to the queue and the storage. RQ does
  not retry: the tasks are enqueued without a retry policy.
* **Data.** Ids are the request or the model value that stands for the row.
  Files and invoice records are counts, providers a small set, the formats of a
  report a list that may name one twice, timestamps of reports the three cases
  the cleanup tells apart. A PDF is its SHA-256 digest with a text fingerprint; a
  path is a wanted name with its suffix and the number that made it unique.
  Amounts are missing or a number of fifths of an agora, so that `round(x, 2)`
  has something to round; a half agora, where Python's result depends on the
  binary representation, cannot occur.

| Module | Code | State and actions |
|---|---|---|
| `JobSubmission` | the three `create_*_job` methods, `_resolve_idempotent_*`, the lookup at the start of a task, the cleanup of a report | `pc` is the position in the handler; `row`, `records`, `queue` are database and Redis; `Begin`, `FindRecord`, `FetchJob`, `InsertJob`, `EnqueueTask`, `Commit` are its statements, `Abort` its end by an exception or a crash |
| `CollectionRun` | `run_collection_job` | `Claim` is the conditional UPDATE and `ClaimFails` an exception in it, outside the `try`; `Load` the reads, `SkipProvider`, `CollectProvider`, `FanOut` the loops, `Finish` the commit, `Raise` and `MarkFailed` the except branch, `Crash`, `Redeliver`, `Reconfigure` the surroundings |
| `JobLifecycle` | the status documentation, as an abstract specification | `Start`, `Finish`; `CollectionRun` implements it |
| `ParseRun` | `run_parse_job` | `Begin` and `MarkRunning`, `Load` and `Succeed`, `Reload` and `Fail` are the reads and commits of its three transactions |
| `ReportLifecycle` | `run_report_job`, `retry_report_job`, `run_report_retention_cleanup` | rows, artifact rows (one per entry of `Requested`), stored files and tasks; `target` and `dropped` are the rows a DELETE found and holds |
| `AuthSessions` | `authenticate_user`, `refresh_session`, `revoke_session`, `get_current_user`; `authSession.tsx` | `sess` and `issued` are the server's rows and tokens, `cookie` and `stored` the browser's, `tab` the client; `...Read` and `...Commit` are the statements of a call, `...Done` and `Refused` what the client does with the answer, `Lose` a call without one |
| `ProviderOAuth` | provider create, update, delete, OAuth start, callback, refresh, revoke, test | `rows` are the columns of the row; `Read...` reads the row and decides, `Commit...` writes; `edited`, `spent`, `undone` are history |
| `TenantAdmin` | `bootstrap_tenant`, `bootstrap_tenant_admin_user`, `create_api_key`, `rotate_api_key`, `revoke_api_key`, `resolve_tenant_id_from_api_key` | `req` is the request with what it has read and where it stands; `slug`, `user`, `members`, `key` are the rows; `PickSlug`, `CheckTenant`, `FindUser`, `LoadKey` read, `InsertTenant`, `InsertUser` flush, `Commit...` end |
| `InvoiceFiles` | `domain/files.py`, the helpers of `monthly_invoices.py` | folders as functions from paths to PDFs, unique paths, stems, texts; `Indexed` is what the Gmail indexes list (`.pdf` in any spelling), `Listed` what the monthly run lists (`*.pdf` as spelt) |
| `MailFinder` | `gmail_invoice_finder.py`, `graph_invoice_finder.py`, `provider_shared.py`, `relevance.py` | `fin` is a running finder with its known hashes, stems and texts; `Reached` and `AttCount` are the messages and attachments within the caps (`--max-messages`, `max_pages`, `$top`), `Started` what a run knows at its start; `OpenMessage`, `Attachment`, `Link`, `BezeqLink`, `EndMessage`, `WriteReport` with a failing form of each call, `Abort` |
| `MonthlyInvoices` | `monthly_invoices.py`; extends `MailFinder` and runs it once per provider | `StartMonth`, `RunFinder`, then file by file `KeepFile`, `MoveAside`, then `StartMerge`, `CopyOrSkip`, and `EndMonth`; `StartMonth` and `StartMerge` take the PDFs that cannot be read when the indexes are built, `hidden` and `skipped` are their history; `Crash` stops it anywhere, inside a copy too |
| `StatusPages` | `CollectionRunDetailPage.tsx`, `ReportDetailScreen.tsx`, `ReportCreationScreen.tsx`, `shared/api/client.ts` | `page` is the mounted component, `calls` the calls in flight with the effect that made them; `Answer` is the API, `Deliver` the component's reaction, `FireTimer`, `Open`, `Follow`, `Refresh`, `Retry`, `Submit` timers and user |
| `InvoiceTotals` | `report_totals.py`, the amounts of `report_parser.py` and `report_splitter.py` | operators only: `TotalOf`, `FirstBase`, `FoundVat`, `VatOf`, `BaseOf`, `Totals`, `Split` |
| `ReportRows` | `invoices_report.py` | `ParseFile`, `StartRows`, `AddRecord`, `FinishRows` build the rows of a report from what was found in its files |
| `OrmSession` | SQLAlchemy's flush | one operator |
| `MC...` | instances for TLC | |
| `JobSubmissionProofs`, `CollectionRunProofs`, `ParseRunProofs`, `ReportLifecycleProofs`, `AuthSessionsProofs`, `ProviderOAuthProofs`, `TenantAdminProofs`, `MonthlyInvoicesProofs` | the theorems about the module each is named after | |

Operators that carry the comment "Mutant" stand for plausible mistakes in the
definition that follows them. The specifications do not use them; they show
that the property named in `PROJECT.json` would notice the mistake.

## 3. What is checked

| Run | Instance | Properties | Shows |
|---|---|---|---|
| `submission` | 3 requests, 1 key and none, reports | `RecordsConsistent`, `CommitMeetsNoRecord`, `AnswersAgree`, `QueuedJobHasTask`, `LoserLeavesNoTask`, `RequestsAnswered` | keys, records, answers and tasks stay consistent; every accepted request is answered |
| `collection` | 1 job, 2 workers, 2 providers, 2 deliveries, 1 crash | `OneWorkerPerJob`, `OutcomeConsistent`, `SideEffectsCover`, `FollowsLifecycle`, `EveryJobEnds` | one worker per job, audit trail and outcome are whole, storage and tasks cover the rows, and a task without a parse job belongs to a run that goes on or failed; implements `JobLifecycle`; ends unless a process dies or every task was spent on a claim that raised |
| `parse` | 3 executions of a job, up to all at once, 1 crash | `RunningHasDecider`, `OutcomeConsistent`, `BegunJobDecided` | a running job has an execution that will decide it; records come with the outcome |
| `report` | 1 report, a list of 3 formats with one named twice, 2 executions, a retry, a cleanup, 1 exception, 1 crash | `ArtifactsConsistent`, `OfferedFileExists`, `UnretriedKeptUntilPast`, `UnretriedReportEnds` | succeeded means a row for every entry of the list, with one worker all of one execution; offered files exist; deletion only past retention for a report nobody retries |
| `auth` | 2 tabs, 3 tokens, 2 mishaps (lost call, disabled membership, closed refresh window) | `SessionsConsistent`, `SoloTabIsSafe`, `TabsSettle` | no check or refresh sent after a revocation is granted; one tab at a time keeps the cookie current and its sign-out ends the session; every page load, sign-in and sign-out settles |
| `provider` | 2 clients, 2 rows, 2 flows, 2 grants, 1 edit, 1 expiry | `RowsConsistent`, `SpentIsSpent`, `ConnectedHasToken`, `SettingsKept` | access token, refresh token and expiry come from one grant under every interleaving; a state that was spent when a callback read it never connects; one row per type; without overlap, status, tokens and settings agree |
| `tenant` | 3 requests, 2 e-mail addresses, 2 passwords, a tenant with a key | `NothingHalfDone`, `ClosedStaysClosed`, `FirstUserOnce`, `MembersKnewPassword` | a revoked key or a rotated secret is refused by every later request, whatever read it before; a second bootstrap that starts after the first is refused; whoever joins an account knew its password |
| `monthly` | 3 Gmail and 4 Outlook messages, one of each beyond the cap, 6 PDFs, 3 suffixes, 3 runs, 1 fault | `FoldersConsistent`, `CleanRunsSuffice`, `MergedIsComplete`, `NothingIsLost` | the Gmail finder has a PDF twice only where its index passes over a name or could not read a file; no step loses one; after one clean Gmail run or two clean Outlook runs every accepted attachment within the caps is there; the merged folder holds every kept file named `.pdf`, once unless one could not be read, and what was moved aside has a chain of twins |
| `pages` | 2 runs, or 2 reports of which one may not exist yet; 2 moves of the user, 2 calls in flight, 1 failing call | `RunShowsOwnJob`, `RunNeverRegresses`, `PagesCatchUp`, `ListSettles` | the run page never shows the run the user left, nor an older status after a newer one; polling ends with the final status or an error |
| `rows` | every choice of up to 3 sources of amounts in an invoice, or of 3 sources that read total, VAT or base next to a stated total; folders of up to 3 invoices | `FiguresAgree`, `SubtotalPerVendor`, `OneSideSuffices` | details, subtotals, grand total and summary agree up to the rounding of each figure, and exactly for whole agorot; a vendor's group is whole; if the scans on one side (VAT or base) agree on the usual rate, those on the other side may mistake the amounts for each other |

Properties that are conjunctions (`RecordsConsistent`, `OutcomeConsistent`, `SideEffectsCover`,
`ArtifactsConsistent`, `SessionsConsistent`, `SoloTabIsSafe`, `RowsConsistent`,
`FoldersConsistent`, `MergedIsComplete`, `PagesCatchUp`) are made of named parts
with a comment each in the module.

Two runs state what a document says and TLC refutes it:

| Run | What happens |
|---|---|
| `submission_outrun` | the task is enqueued before the commit; a fast worker does not find the job, the task dies, the job stays queued |
| `report_deleted_fresh` | a cleanup that selected a report before its retry deletes the retried report |

The models contain further behaviours a maintainer should know, without a run
of their own. The properties above are limited to what holds next to them.

* The loser of a race for an idempotency key fails in `flush()`, outside the
  `try` that would return the existing job, which
  `COLLECTION_JOBS_WEEK4_CONTRACT.md:71` promises.
* A collection job whose worker died, or whose except branch raised, is running
  for ever. The claim stands before the `try`: when it raises, the task is used
  up, and a job without another task is queued for ever. `EveryJobEnds` says that
  these are the only ways.
* A second execution of a parse job adds its records to those of the first,
  while `records_count` counts one execution.
* Nothing dedupes the list of formats of a report: a format named twice has two
  artifact rows with one storage key.
* `retry_report_job` enqueues before it commits: a worker that is done first is
  overwritten, and the report is queued without a task. `UnretriedReportEnds`
  therefore leaves retried reports out. A retry that meets a cleanup may also lose
  files or the report; `OfferedFileExists` leaves this out, and rows past their
  retention, which may have lost their files to a cleanup that did not commit.
* Files saved by a report execution that raised have no artifact row and survive
  the report.
* A sign-out whose cookie was rotated meanwhile by another tab revokes nothing,
  and two tabs that refresh at once may leave a void cookie;
  `SoloTabIsSafe` therefore speaks of one tab at a time (`solo`).
* Two callbacks with one state that both read it before either commits are both
  let in. `SpentIsSpent` says that a state is not brought back once its callback
  has committed.
* A revoke that read the provider before a callback committed has nothing to
  write and answers with a connected provider, and overlapping writers of
  `config_json` lose each other's settings. `ConnectedHasToken` and
  `SettingsKept` speak of clients that wait for each other.
* A PATCH takes any key of `config`, the `_oauth_*` keys of the flow too
  (`service.py:412-425`, `1378`). A GET does not show them; the model's clients
  never send them.
* Two first-user bootstraps that overlap may both succeed; `FirstUserOnce`
  speaks of one that begins after the other ended.
* The monthly run moves a PDF aside for its stem or its text alone, so the merged
  folder may lack a PDF whose digest it does not hold. Being a duplicate in this
  sense is not transitive, so `MergedUpToTwins` asks for a chain of twins.
* The indexes of the Gmail finder list names in `.pdf` only and leave out what
  they cannot read: an attachment with another suffix is saved again by every
  run, under the next number. `OneCopyPerPdf` names these cases.
* `iter_invoice_pdfs` is case-sensitive: a file saved as `.PDF` is never merged
  and never searched for duplicates. `preload_hashes` passes over files it cannot
  read, and the next run copies them again.
* Messages beyond `--max-messages` (Gmail) or the fiftieth page (Outlook) and
  attachments beyond the fiftieth (Outlook) are never fetched, however often the
  run is repeated. `CleanRunsSuffice` speaks of what is within the caps.
* A failed attachment next to a saved one gives the Outlook report a row that is
  not retryable. The run after it passes the message over and forgets it, and
  the one after that takes it again, hence two clean runs.
* Once the chain of a report's page has ended, a retry or a refresh shows the
  report queued and nothing polls it; `DetailCatchesUp` speaks of a live chain.
* The page of a report, unlike that of a run, shows a late answer for a report
  the user has left. `RunShowsOwnJob` is about the
  run page, whose reset on navigation is queued as a microtask
  (`CollectionRunDetailPage.tsx:117-124`), before any answer; `Follow` has
  it in the same step.
* Vendors whose names differ in case only are sorted together and grouped
  apart, so one of them may have several subtotals; `SubtotalPerVendor` leaves
  them out.
* Every figure of a report is rounded by itself, so subtotals need not add up to
  the grand total when an amount has more than two decimals. `FiguresAgree`
  bounds the difference by half an agora for each figure.
* A VAT scan that reads the total suppresses the check against the base; and when
  both sides contradict the usual rate, or each other, the record keeps a
  wrong amount. `OneSideSuffices` asks for one side that agrees.
* The records of a split municipal file keep the base amount of the whole file.

**Bounds.** Three requests are one winner, one loser that waits for it and one
that arrives after either; one key suffices because requests with different keys
touch no common row. Two workers and two deliveries are what it takes to claim a
job twice. Three executions are an overlapping pair and a later one, or all at once; two
executions, a retry and a cleanup are all the actors that write a report. Jobs do
not share rows, so one job (one report) per run is enough. Two tabs
are what it takes to use one cookie twice; two clients and two grants to
overtake one read with another commit. In `auth` the bound on tokens is taken
where a call begins, so that no call is cut short by it. In `tenant` three requests are a pair
that overlaps and one that follows, with two passwords for one address. In
`monthly` three runs are one that fails, one that repeats it and one that finds
the result; the messages hold a PDF in both mailboxes, two PDFs of one name, two
of one text, one reachable by a link only, one that is refused, one spelt `.PDF`,
one without a PDF suffix, and a message and an attachment just beyond each cap
(2 Gmail and 3 Outlook messages, 2 attachments). The one fault may be a failed
call, a set of files that cannot be read, or the end of the process. In
`pages` two calls in flight are what it takes to overtake an answer and two
moves to leave a page and come back. In `rows` a rule of
`infer_totals` compares at most three amounts, and three records are what it
takes to tear a group; the amounts of the folders have a fraction of an agora, so
that roundings add up. `MaxTokens`,
`MaxMishaps`, `MaxIds`, `MaxStates`, `MaxGrants`, `MaxEdits`, `MaxPast`, `MaxFiles`,
`MaxRecords`, `MaxRuns`, `MaxOverlap`, `MaxWorkers`, `MaxDeliveries`,
`MaxRaises`, `MaxCrashes`, `MaxFaults`, `MaxMoves`, `MaxCalls` and `Amounts` are bounds of the instance, not of the code; each
is at least large enough for the case to happen once next to a run without it.
The number of workers (`workers`) and of overlapping executions (`overlap`), and
whether tabs or clients wait for each other (`solo`), are
chosen in the initial state, so that one run covers sequential and concurrent
deployments and a property can say which of them it needs.

**Fairness.** Weak fairness of the steps of a request, an execution or a cleanup
that has begun: these are straight-line code in a live process, and crashes are
actions of their own. For `auth`
the same of a call that was sent and of the client's reaction to its answer; a
lost call is an action of its own. For `pages` weak fairness of a job's
progress, of each call, which the API answers or the client's timeout ends, and of
the timer; none of the user. Weak fairness of taking a task: RQ workers poll the queue
as long as they live. `provider`, `tenant`, `monthly` and `rows` check safety
only: their handlers wait for nobody. No fairness is assumed of clients, retries, cleanups,
redelivery or exceptions. Deadlock checking is off because all of these systems
may legitimately come to rest.

## 4. What is proved

Each proof module extends the module it is about and proves the safety
properties of its run for every value of the constants: any number of requests,
workers, executions, retries, cleanups, tabs, clients, jobs, reports, files,
messages, monthly runs, exceptions and crashes. The layout is the same everywhere: `IInv` is the
inductive invariant, `InitIInv` and `StepIInv` establish and keep it, with a
step per action or a lemma per part of `IInv`, and the theorems follow from
`Invariance`. TLC finds no violation of any `IInv` on the instance of its run.

| Module | Theorem | Property |
|---|---|---|
| `JobSubmissionProofs` | `OneJobPerKey`, `CommitNeverRaces`, `ReplayIsSafe`, `QueuedWasEnqueued`, `LosersEnqueueNothing` | the five invariants of `submission` |
| `CollectionRunProofs` | `OneRunPerJob`, `OutcomeAgrees`, `EffectsAreCovered` | `OneWorkerPerJob`, `OutcomeConsistent`, `SideEffectsCover` |
| | `ImplementsLifecycle` | `FollowsLifecycle`: `CollectionRun` implements `JobLifecycle` |
| `ParseRunProofs` | `SomebodyDecides`, `OutcomeAgrees` | `RunningHasDecider`, `OutcomeConsistent` |
| `ReportLifecycleProofs` | `RowsFitReport`, `DownloadsWork` | `ArtifactsConsistent`, `OfferedFileExists` |
| | `KeptUntilPast` | `UnretriedKeptUntilPast`, an action property |
| `AuthSessionsProofs` | `RevokedStaysOut`, `OneTabIsSafe` | `SessionsConsistent`, `SoloTabIsSafe` |
| `ProviderOAuthProofs` | `RowIsOnePiece`, `SpentStaysSpent`, `ConnectedMeansToken` | `RowsConsistent`, `SpentIsSpent`, `ConnectedHasToken` |
| | `FlowKeepsSettings` | `SettingsKept`, an action property |
| `TenantAdminProofs` | `WholeOrNothing`, `NothingReopens`, `NoSecondFirstUser`, `PasswordWasKnown` | `NothingHalfDone`, `ClosedStaysClosed`, `FirstUserOnce`, `MembersKnewPassword` |
| `MonthlyInvoicesProofs` | `FoldersStayConsistent`, `MergedStaysComplete`, `CleanRunsAreEnough` | `FoldersConsistent`, `MergedIsComplete`, `CleanRunsSuffice` |
| | `NothingGetsLost` | `NothingIsLost`, an action property |

The assumptions are those the modules state: the values that stand for "none"
are apart from the others, the bounds are natural numbers of any size, sets of
actors do not overlap, and there are finitely many executions (`ParseRun`,
`ReportLifecycle`) and requests (`TenantAdmin`), because the models count them.
The providers of a collection are the two types the service accepts
(`_PROVIDER_ALLOWED_TYPES`), and those of a monthly run are the two finders it
starts. A message has a mailbox, a place in its list and finite sequences of
attachments and links, `.pdf` is a PDF suffix, and the caps are natural numbers;
nothing else is fixed, neither about names, suffixes, texts and tags nor about
which messages look like invoices.

The modules write `(SUBSET S) \ {{}}` with parentheses: SANY and the proof system
do not agree on how to read it without them.

**Submission.** `KeyNamesOneJob` is not inductive: a commit preserves it only if
nobody else committed the same key since the request looked for a record. `IInv`
adds what prevents it: a request has an uncommitted row exactly between its
flush and its commit (`RowMatchesPc`), and while it has, no other request has a
row with its key, committed or not (`PendingIsAlone`). `InsertJob` establishes
this because the flush waits for uncommitted rows and fails on committed ones;
no other step creates rows. From there `CommitMeetsNoRecord` follows without a
step of its own. `FoundIsAJob` and `AnswerIsAJob` carry the identity of the job
from the record to the client and `TaskMatchesPc` ties the tasks to the requests.

**Collection.** That the rows agree at the end says nothing of the way there: the
worker keeps its results in local variables while it writes to storage and
queue. `RunIsAccount` says that these variables are an exact account of what it
has stored and enqueued for the job. It can start to hold only because nothing
was stored before the claim (`QueuedIsUntouched`) and the claim admits one worker
(`OneWorkerPerJob`). It also tells that a task without a parse job is one its
run has not committed yet, or never will. For the refinement every action is shown to be `Start`,
`Finish` or a stutter of `JobLifecycle`.

**Parsing.** An execution whose session loaded the status it is about to write
writes nothing, so "the last one decides" is not obvious. The proof shows that
such an execution was not the one the job depended on. Where executions follow
each other, an open session holds the row as it still is (`AloneReadsTrue`); for
a job with a single execution the count is followed from the empty row to the
commit (`SoleRunCounts`).

**Reports.** `OwnRows` says that whoever deletes rows deletes those of its own
report, or of a report it will delete in the same commit; with it a commit
cannot take an entry from a succeeded report. For one worker process, `SoleWorker`
and `Replaces` add that it deletes every row there is before it writes its own.
For the files, `OneRun` says that a report that nobody retries has one task in
its life and is left alone once it is finished. Hence what a cleanup has selected
stays past its retention until it commits (`SelectedIsOld`), and files under an
execution or under a row disappear only for retried reports (`SavedThere`,
`FileThere`). The exception in `OfferedFileExists` is exactly where this argument
breaks down; `report_deleted_fresh` shows it.

**Sessions.** The hash in a session row is that of a token issued for this
session (`HashIsOwn`), so a refresh cannot find a row its token does not belong
to. For one tab at a time, `CookieFollows` says that the cookie is out of date only
between the commit of a refresh and its answer, and `Lands` what a call under way
will find.

**Providers.** Numbers of flows and grants are not reused, so a commit that sets
them always differs from what its session loaded and is written (`Bounded`); a
session has loaded a whole pair of tokens, so it clears both columns or neither
(`LoadedWhole`); a callback leaves no state behind and nobody writes an old one
back (`SpentIsGone`). `SoloIsAlone` is what waiting clients have: they commit to
the row they read.

**Tenants.** What a request has read is either still true when it commits, or
what it writes cannot be harmed by the change: `SlugReq`, `UserReq` and `KeyReq`
say this for the three kinds of rows, and the `...Table` parts say that rows speak
only of requests that are done.

**Monthly run.** Finders and orchestration share folders only, and each property
is an argument over several runs.

* *Copies.* A finder at work knows the digests of its own files, the Gmail finder
  also those of the indexed files it could read, and it knows nothing
  else (`Knows`). So a copy it adds has a twin only among the files it could not
  know (`Copies`), and what it passes over is there. Duplicates are all indexed,
  because only listed files are moved (`Suffixes`).
* *Merging.* While a folder is searched for duplicates, everything the pass has
  remembered belongs to a listed file it has kept and that is still in the folder
  (`KeptInFolder`). A file that is moved aside therefore leaves a twin behind, and
  the chains of files moved earlier are only made longer (`Chained`). The
  consolidation knows what is merged but for the files it could not read, and
  has brought over every listed file behind it (`Merges`).
* *Catching up.* Files are put under free names and moved, never overwritten or
  deleted (`NothingIsLost`), so a message whose attachments have been brought
  stays covered. A run without a fault covers what it has opened (`Covers`). What
  the Outlook finder skips has a row in the report, and a row written by a run
  without a fault belongs to a message that this run had opened. After two such runs
  every message within the caps was opened by one or the other (`CleanCovers`). The induction
  needs the two counts separately: what the first of them has covered is what the
  second one may skip.

A finder has fourteen actions, most of them with several outcomes. The proof first
sorts these into eight kinds (`Skips`, `Opens`, `Spoils`, `Passes`, `Saves`, `Turns`, `Closes`, `Stops`; lemma
`FinderKinds`) by what they do to the files and to the message in hand, and
reasons about the kinds from there.

Only model-checked:

* the liveness properties (`RequestsAnswered`, `EveryJobEnds`, `BegunJobDecided`,
  `UnretriedReportEnds`, `TabsSettle`, `PagesCatchUp`, `ListSettles`), which need
  fairness and are outside the prover's reach;
* `FiguresAgree`, `SubtotalPerVendor` and `OneSideSuffices`: sums and groups over
  sequences, recursive definitions that need induction over data;
* `RunShowsOwnJob` and `RunNeverRegresses` of the pages: `StatusPages` numbers its
  calls within the bound of the instance and gives the calls of components that
  are gone one common number, so an invariant of the instance does not carry over
  to pages that are opened any number of times.

## 5. Plan

1. Proofs: `RunShowsOwnJob` and `RunNeverRegresses` for `StatusPages`, once its
   calls are numbered freely.
2. `StorageCache`: the S3 backend's local copies against the objects.
3. The tenant guard as an operator on queries.
4. A composition of `CollectionRun` with `ParseRun` through the parse queue.

## 6. What is not modelled

* What the regular expressions find in a text, vendor rules, dates and the layout
  of a report: text without state. What is done with the amounts they
  find is modelled. The same holds for the relevance score of a message.
* The HTTP layer, forms, the dashboard, provider settings and the generated API
  client, metrics: views of the service. Hashes and token formats: a token is its
  number.
* The tenant guard and the S3 backend's cache: planned.
* The Meta billing export and the quarantine tool: scripts that run once.
* A PATCH that moves a provider to another `provider_type`.
* Migrations and deployment files: declarative. The constraints the handlers
  rely on appear as guards.
* The Go API (a health endpoint) and the n8n workflows.
* `src/archive`: earlier versions of the finders and the report, kept for
  reference and called by nothing. They are more than half of the repository's
  lines. Mapping the models to them would say nothing about the program
  in use, whose finders and report are modelled from their current sources.
* External mail APIs and browser automation: executors return files or raise.
* SQLite, which the tests use: it serialises writers, so its behaviours are a
  subset of those above.
