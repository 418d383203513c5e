---------------------------- MODULE StatusPages ----------------------------
(***************************************************************************)
(* The three pages of the web client that follow work until it is done: a   *)
(* collection run (CollectionRunDetailPage.tsx), a report                   *)
(* (ReportDetailScreen.tsx) and the list of reports                         *)
(* (ReportCreationScreen.tsx).  Each polls by a chain of calls and timers,  *)
(* while the user navigates and clicks.  A call is handled by the API at    *)
(* one moment and its answer arrives at a later one, so that answers may    *)
(* overtake each other; a call may also time out (shared/api/client.ts).    *)
(***************************************************************************)
EXTENDS Integers, FiniteSets

CONSTANTS
    Jobs,       \* collection jobs
    Reports,
    Starts,     \* what may exist when the user comes, and the page he comes to
    Links,      \* pairs of pages: how the user goes from one to another
    NoId,       \* what the list has for an id
    MaxMoves,   \* bound: navigations and clicks
    MaxCalls,   \* bound: calls in flight
    MaxFaults   \* bound: calls that fail

ASSUME IdsAreApart == Jobs \cap Reports = {} /\ NoId \notin Jobs \cup Reports
ASSUME PageBounds == MaxMoves \in Nat /\ MaxCalls \in Nat /\ MaxFaults \in Nat

VARIABLES
    status,  \* of every job and report, on the server
    page,    \* the mounted page
    calls,   \* API calls the browser has sent
    moves, faults

vars == <<status, page, calls, moves, faults>>

Statuses == {"queued", "running", "succeeded", "failed"}
Terminal == {"succeeded", "failed"}
Posts == {"retry", "create"}

\* Status badges on the screen: a function from ids to statuses.
NoRows == [x \in {} |-> "queued"]
Row(x, s) == [y \in {x} |-> s]
AllTerminal(rows) == \A x \in DOMAIN rows : rows[x] \in Terminal

\* eff numbers the effects of the mounted page: an in-place navigation starts
\* a new one.  failed is loadError, busy isRetrying or isSubmitting.
Mounted(kind, id) ==
    [kind |-> kind, id |-> id, eff |-> 1, shown |-> NoRows, loading |-> TRUE,
     failed |-> FALSE, timer |-> "off", busy |-> FALSE]

\* by says which code waits for the answer: load of the polling effect
\* ("first"), the poll after it in ReportDetailScreen ("second"), loadReports
\* of submitReport ("submit"), a button ("click").
Call(op, by, id, eff) ==
    [n |-> CHOOSE k \in 0..Cardinality(calls) : \A c \in calls : c.n # k,
     op |-> op, by |-> by, id |-> id, eff |-> eff, phase |-> "sent", rows |-> NoRows]

LoadOp(kind) == IF kind = "list" THEN "list" ELSE "get"

FirstLoad(kind, id) ==
    [n |-> 0, op |-> LoadOp(kind), by |-> "first", id |-> id, eff |-> 1,
     phase |-> "sent", rows |-> NoRows]

Routes == ({"run"} \X Jobs) \cup ({"report"} \X Reports) \cup {<<"list", NoId>>}

ASSUME StartsExist ==
    \A s \in Starts : s.there \subseteq Jobs \cup Reports /\ s.at \in Routes
                      /\ s.at[2] \in s.there \cup {NoId}

Init ==
    /\ \E s \in Starts :
          /\ status = [x \in Jobs \cup Reports |-> IF x \in s.there THEN "queued" ELSE "absent"]
          /\ page = Mounted(s.at[1], s.at[2])
          /\ calls = {FirstLoad(s.at[1], s.at[2])}
    /\ moves = 0 /\ faults = 0

---------------------------------------------------------------------------
(* The server. *)

\* A worker takes a job or finishes it.
Progress(x) ==
    /\ \/ status[x] = "queued" /\ status' = [status EXCEPT ![x] = "running"]
       \/ status[x] = "running"
          /\ \E s \in Terminal : status' = [status EXCEPT ![x] = s]
    /\ UNCHANGED <<page, calls, moves, faults>>

Handled(c, rows) ==
    IF c.eff = 0 THEN calls \ {c}   \* nobody waits for it any more
    ELSE (calls \ {c}) \cup {[c EXCEPT !.phase = "ok", !.rows = rows]}

Answer(c) ==
    /\ c.phase = "sent"
    /\ \/ /\ c.op = "get"
          /\ calls' = Handled(c, Row(c.id, status[c.id]))
          /\ UNCHANGED status
       \/ /\ c.op = "list"
          /\ calls' = Handled(c, [r \in {r \in Reports : status[r] # "absent"} |-> status[r]])
          /\ UNCHANGED status
       \/ /\ c.op = "retry"
          /\ status' = [status EXCEPT ![c.id] = "queued"]
          /\ calls' = Handled(c, Row(c.id, "queued"))
       \/ /\ c.op = "create"
          /\ status' = [status EXCEPT ![c.id] = "queued"]
          /\ calls' = Handled(c, Row(c.id, "queued"))
    /\ UNCHANGED <<page, moves, faults>>

\* timeoutFetch, or the network, gives up on a call.  A request that changes
\* something may still reach the server.
CallFails(c) ==
    /\ faults < MaxFaults
    /\ c.phase \in {"sent", "ok"} /\ c.eff # 0
    /\ faults' = faults + 1
    /\ \E late \in SUBSET {[c EXCEPT !.eff = 0, !.n = Call("get", "first", c.id, 0).n]} :
          /\ late # {} => c.op \in Posts /\ c.phase = "sent"
          /\ calls' = (calls \ {c}) \cup {[c EXCEPT !.phase = "error"]} \cup late
    /\ UNCHANGED <<status, page, moves>>

---------------------------------------------------------------------------
(* Navigation. *)

\* Once a page is unmounted the answers to its calls have no state left to
\* set; what it asked the server to do is still done.
Orphaned ==
    {[c EXCEPT !.eff = 0, !.n = 1] : c \in {d \in calls : d.op \in Posts /\ d.phase = "sent"}}

\* Another route: the old page is unmounted and its timer cleared.
Open(kind, id) ==
    /\ moves < MaxMoves /\ <<page.kind, kind>> \in Links
    /\ id # NoId => status[id] # "absent"
    /\ moves' = moves + 1
    /\ page' = Mounted(kind, id)
    /\ calls' = Orphaned \cup {FirstLoad(kind, id)}
    /\ UNCHANGED <<status, faults>>

\* The same route with another id: the effect's cleanup cancels the chain and
\* the effect runs again on the mounted component, after the view was reset.
Follow(id) ==
    /\ moves < MaxMoves
    /\ \/ page.kind = "run" /\ id \in Jobs
       \/ page.kind = "report" /\ id \in Reports
    /\ id # page.id /\ status[id] # "absent"
    /\ moves' = moves + 1
    /\ page' = [Mounted(page.kind, id) EXCEPT !.eff = page.eff + 1, !.busy = page.busy]
    /\ calls' = calls \cup {Call(LoadOp(page.kind), "first", id, page.eff + 1)}
    /\ UNCHANGED <<status, faults>>

---------------------------------------------------------------------------
(* Polling. *)

\* What a load does to the view before it awaits the answer: loadReport with
\* resetView, loadReports.  A poll of a run leaves the view alone.
Loading(pg) ==
    CASE pg.kind = "report" -> [pg EXCEPT !.shown = NoRows, !.loading = TRUE, !.failed = FALSE]
      [] pg.kind = "list" -> [pg EXCEPT !.loading = TRUE, !.failed = FALSE, !.timer = "off"]
      [] OTHER -> pg

\* ReportDetailScreen alternates load, which resets the view, and a plain poll.
Interval(pg) == pg   \* mutant: setInterval
Fired(pg) == [pg EXCEPT !.timer = "off"]

FireTimer ==
    /\ page.timer # "off" /\ Cardinality(calls) < MaxCalls
    /\ page' = IF page.timer = "second" THEN Fired(page) ELSE Loading(Fired(page))
    /\ calls' = calls \cup {Call(LoadOp(page.kind), page.timer, page.id, page.eff)}
    /\ UNCHANGED <<status, moves, faults>>

Failed(pg) == [pg EXCEPT !.failed = TRUE, !.loading = FALSE]
Showing(pg, rows) == [pg EXCEPT !.shown = rows, !.failed = FALSE, !.loading = FALSE]

\* Mutant: the answer is applied without a look at isCancelled.
AnyLoaded(c) ==
    IF c.phase = "error" THEN Failed(page)
    ELSE [Showing(page, c.rows) EXCEPT
             !.timer = IF AllTerminal(c.rows) THEN "off" ELSE "first"]

RunLoaded(c) ==
    IF c.eff # page.eff THEN page   \* isCancelled
    ELSE IF c.phase = "error" THEN Failed(page)
    ELSE [Showing(page, c.rows) EXCEPT
             !.timer = IF AllTerminal(c.rows) THEN "off" ELSE "first"]

\* The answer is shown whoever asked and whatever page.id is by then; only
\* the chain looks at isCancelled.
NoNextPoll(c) == IF c.by = "first" THEN "second" ELSE "off" \* mutant
NextPoll(c) == IF c.by = "first" THEN "second" ELSE "first"

ReportLoaded(c) ==
    IF c.phase = "error" THEN Failed(page)
    ELSE [Showing(page, c.rows) EXCEPT
             !.timer = IF c.by = "click" \/ c.eff # page.eff \/ AllTerminal(c.rows)
                       THEN page.timer ELSE NextPoll(c)]

\* The polling effect of the list depends on what is listed, not on who asked.
\* Mutant: queued reports are not polled.
PolledIfRunning(rows) ==
    IF \E r \in DOMAIN rows : rows[r] = "running" THEN "first" ELSE "off"

Polled(rows) == IF AllTerminal(rows) THEN "off" ELSE "first"

ListLoaded(c) ==
    [IF c.phase = "error" THEN [Failed(page) EXCEPT !.timer = "off"]
     ELSE [Showing(page, c.rows) EXCEPT !.timer = Polled(c.rows)]
     EXCEPT !.busy = IF c.by = "submit" THEN FALSE ELSE page.busy]

Loaded(c) ==
    /\ c.op \in {"get", "list"} /\ c.phase \in {"ok", "error"}
    /\ calls' = calls \ {c}
    /\ page' = CASE page.kind = "run" -> RunLoaded(c)
                 [] page.kind = "report" -> ReportLoaded(c)
                 [] page.kind = "list" -> ListLoaded(c)
    /\ UNCHANGED <<status, moves, faults>>

---------------------------------------------------------------------------
(* Buttons. *)

Click(op, by, id) ==
    /\ moves < MaxMoves /\ Cardinality(calls) < MaxCalls
    /\ moves' = moves + 1
    /\ calls' = calls \cup {Call(op, by, id, page.eff)}
    /\ UNCHANGED <<status, faults>>

Refresh ==
    /\ \/ page.kind = "report" /\ ~page.loading /\ ~page.failed /\ page.shown # NoRows
       \/ page.kind = "list"
    /\ page' = Loading(page)
    /\ Click(LoadOp(page.kind), "click", page.id)

\* retry: the report on the screen is sent again.
Retry(r) ==
    /\ page.kind = "report" /\ ~page.loading /\ ~page.failed /\ ~page.busy
    /\ page.shown = Row(r, "failed")
    /\ page' = [page EXCEPT !.busy = TRUE]
    /\ Click("retry", "click", r)

Retried(c) ==
    /\ c.op = "retry" /\ c.phase \in {"ok", "error"}
    /\ calls' = calls \ {c}
    /\ page' = [page EXCEPT !.busy = FALSE, !.failed = c.phase = "error",
                            !.shown = IF c.phase = "error" THEN page.shown ELSE c.rows]
    /\ UNCHANGED <<status, moves, faults>>

\* submitReport: create, then loadReports.
Submit(r) ==
    /\ page.kind = "list" /\ ~page.busy
    /\ status[r] = "absent" /\ \A c \in calls : c.id # r
    /\ page' = [page EXCEPT !.busy = TRUE]
    /\ Click("create", "click", r)

Submitted(c) ==
    /\ c.op = "create" /\ c.phase \in {"ok", "error"}
    /\ IF c.phase = "error"
       THEN /\ page' = [page EXCEPT !.busy = FALSE]
            /\ calls' = calls \ {c}
       ELSE /\ page' = Loading(page)
            /\ calls' = (calls \ {c}) \cup {Call("list", "submit", page.id, page.eff)}
    /\ UNCHANGED <<status, moves, faults>>

---------------------------------------------------------------------------

Deliver(c) == Loaded(c) \/ Retried(c) \/ Submitted(c)

User ==
    \/ \E to \in Routes : Open(to[1], to[2])
    \/ \E id \in Jobs \cup Reports : Follow(id)
    \/ Refresh
    \/ \E r \in Reports : Retry(r) \/ Submit(r)

Next ==
    \/ \E x \in Jobs \cup Reports : Progress(x)
    \/ \E c \in calls : Answer(c) \/ CallFails(c) \/ Deliver(c)
    \/ FireTimer
    \/ User

\* Workers finish what is queued, timers fire, and a call is answered or,
\* at the latest, given up by timeoutFetch.  Nothing is assumed of the user.
Fairness ==
    /\ \A x \in Jobs \cup Reports : WF_vars(Progress(x))
    /\ \A n \in 0..MaxMoves + MaxCalls : WF_vars(\E c \in calls : c.n = n /\ (Answer(c) \/ Deliver(c)))
    /\ WF_vars(FireTimer)

Spec == Init /\ [][Next]_vars
FairSpec == Spec /\ Fairness

---------------------------------------------------------------------------

TypeOK ==
    /\ status \in [Jobs \cup Reports -> Statuses \cup {"absent"}]
    /\ page.kind \in {"run", "report", "list"}
    /\ page.timer \in {"off", "first", "second"}
    /\ \A c \in calls : c.phase \in {"sent", "ok", "error"} /\ c.eff \in 0..page.eff
    /\ \A c, d \in calls : c.n = d.n => c = d

\* The page of a run shows the status of the run in its address, never that of
\* the one the user navigated away from while its answer was on the way.
RunShowsOwnJob ==
    TypeOK /\ (page.kind = "run" => DOMAIN page.shown \subseteq {page.id})

Rank(s) == CASE s = "queued" -> 0 [] s = "running" -> 1 [] OTHER -> 2

\* What a run's page shows never goes back while the user stays on it: no
\* answer of an earlier visit replaces a newer one.
RunNeverRegresses ==
    [][\A j \in DOMAIN page.shown \cap DOMAIN page'.shown :
          page.kind = "run" /\ page'.kind = "run" =>
             Rank(page'.shown[j]) >= Rank(page.shown[j])]_vars

ShowsEnd(id) == id \in DOMAIN page.shown /\ page.shown[id] \in Terminal

\* Whoever opens the page of a run sees how it ended, or an error, in the end.
RunCatchesUp ==
    \A j \in Jobs :
       (page.kind = "run" /\ page.id = j)
          ~> (page.kind # "run" \/ page.id # j \/ page.failed \/ ShowsEnd(j))

Tracked(r) ==
    /\ page.kind = "report" /\ page.id = r
    /\ \/ page.timer # "off"
       \/ \E c \in calls : c.op = "get" /\ c.by # "click" /\ c.eff = page.eff

\* While its polling runs, the page of a report leads to the end of the report,
\* whatever Refresh or Retry brings on the screen in between.
DetailCatchesUp ==
    \A r \in Reports :
       Tracked(r) ~> (page.kind # "report" \/ page.id # r \/ page.failed \/ ShowsEnd(r))

\* The two pages that poll one object follow it to its end.
PagesCatchUp == RunCatchesUp /\ DetailCatchesUp

\* The list of reports settles: in the end it is left, shows an error, or
\* every report on it is finished, in whatever order its loads were answered.
ListSettles ==
    <>[](page.kind = "list" => page.failed \/ (~page.loading /\ AllTerminal(page.shown)))
=============================================================================
