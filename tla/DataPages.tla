----------------------------- MODULE DataPages ------------------------------
(***************************************************************************)
(* The pages of the web application that show what the API answers: lists  *)
(* with filters and "load more", dashboards that poll, watchers of a run   *)
(* and pages whose buttons change what they show.                          *)
(*                                                                         *)
(* They are one state machine under different policies.  A policy records  *)
(* the choices the component makes: which answers it ignores, what a       *)
(* request resets when it is sent and when it fails, when its controls are *)
(* enabled, how it polls and how a change of the user reaches the screen.  *)
(* The data of the server is the set of changes made to it.                *)
(***************************************************************************)
EXTENDS Naturals, Sequences, FiniteSets

CONSTANTS
    Pages,        \* the components under check
    Filters,      \* what can be selected
    Changes,      \* the changes made to the data while the page is open
    MaxPages,     \* pages of rows the server has for every query
    MaxPending,   \* requests under way at once
    MaxFailures   \* requests that fail

\* The components that have a policy below.
Components ==
    {"PipelinesPage", "RunsPage", "RuntimeLineage", "ExecutionDrawer", "ArchitectureLineage",
     "LineageChanges", "useApiQuery", "MonitoringPage", "TeamPage", "ConnectorsPage",
     "LifecyclePage", "BackfillPanel", "BackfillPlan", "FeatureProvider", "AnalyticsWidget",
     "RunDetailPage", "ExecutionMonitor", "RecentRuns", "RunLogs",
     "PipelineDrawer", "DatasetPreview", "AddWidgetModal", "ShareModal", "DrivePicker",
     "ZendeskPicker", "SheetPicker", "ExcelPicker"}

ASSUME PagesAssumption ==
    /\ Pages \subseteq Components /\ Filters # {} /\ IsFiniteSet(Changes)
    /\ MaxPages \in Nat \ {0} /\ MaxPending \in Nat \ {0} /\ MaxFailures \in Nat

VARIABLES
    page,         \* the component that is mounted
    ui,           \* its state
    pending,      \* the requests under way, in the order they were sent
    server,       \* the changes the server has applied
    acked,        \* the changes of this user that were acknowledged
    excuse,       \* why the screen may not be the answer to the last load: see After
    failures

vars == <<page, ui, pending, server, acked, excuse, failures>>

-----------------------------------------------------------------------------
(* Policies *)

\* guard:  the answer of a load is ignored once a newer one was sent
\* eager:  a load is sent when the component is mounted and when its query changes
\* starts: what is reset when a load is sent; fails: what a failed load does
\* more:   load more - none, under the guard of the loads, or always applied
\* shared: load more uses the spinner of the loads
\* poll:   a timer that sends loads - none, chosen by the user, an interval,
\*         one that ends with the run, one armed again by every answer
\* change: how a change reaches the screen - another load, an edit of the rows
\*         on the screen, or the answer itself
\* tells:  a change that fails is reported
\* refresh: when the user may ask for a load, and what that resets besides
\* swallows: the failure of a part of a load shows that part empty, as if it
\*         were the answer
Default ==
    [guard |-> FALSE, eager |-> TRUE, filters |-> FALSE, windows |-> FALSE, whole |-> FALSE,
     swallows |-> FALSE,
     starts |-> {"spinner", "clearError"}, fails |-> {"report"},
     more |-> "none", shared |-> FALSE, poll |-> "none", change |-> {}, tells |-> TRUE,
     refresh |-> "never", reset |-> {}]

PipelinesPageKeepingCursor ==
    [Default EXCEPT !.guard = TRUE, !.filters = TRUE, !.more = "guarded", !.refresh = "always"]

PipelinesPage ==
    [Default EXCEPT !.guard = TRUE, !.filters = TRUE, !.more = "guarded", !.refresh = "always",
                    !.starts = {"spinner", "clearError", "dropCursor", "stopMore"}]

RunsPage ==
    [Default EXCEPT !.filters = TRUE, !.more = "free", !.shared = TRUE, !.refresh = "idle",
                    !.fails = {"report", "dropCursor"}]

RuntimeLineage ==
    [Default EXCEPT !.guard = TRUE, !.filters = TRUE, !.windows = TRUE, !.more = "free",
                    !.refresh = "always"]

ExecutionDrawer ==
    [Default EXCEPT !.filters = TRUE, !.starts = {"clearError", "dropData"}]

\* The health of the pipelines is the part that may get lost.
ArchitectureLineage ==
    [Default EXCEPT !.filters = TRUE, !.poll = "interval", !.refresh = "idle", !.swallows = TRUE]

LineageChanges == [Default EXCEPT !.filters = TRUE, !.refresh = "onError"]

useApiQuery ==
    [Default EXCEPT !.guard = TRUE, !.filters = TRUE, !.refresh = "always",
                    !.fails = {"report", "dropData"}]

\* The incidents, which the buttons change, and the log.
MonitoringPage ==
    [Default EXCEPT !.filters = TRUE, !.poll = "interval", !.change = {"patch"}, !.refresh = "idle",
                    !.swallows = TRUE]

\* The invitations.
TeamPage == [Default EXCEPT !.starts = {}, !.change = {"refetch"}, !.swallows = TRUE]

\* Disconnecting edits the list; a stored or removed credential loads it again.
ConnectorsPage ==
    [Default EXCEPT !.change = {"patch", "refetch"}, !.tells = FALSE, !.refresh = "onError"]

LifecyclePage == [Default EXCEPT !.whole = TRUE, !.change = {"refetch"}, !.refresh = "idle"]

BackfillPanel ==
    [Default EXCEPT !.starts = {}, !.poll = "interval", !.change = {"refetch"}, !.refresh = "always"]

\* The preview of a backfill: the query is the form.
BackfillPlan ==
    [Default EXCEPT !.eager = FALSE, !.filters = TRUE, !.refresh = "idle",
                    !.starts = {"spinner", "clearError", "dropData"}]

FeatureProvider == [Default EXCEPT !.fails = {}, !.change = {"answer"}]

AnalyticsWidget == [Default EXCEPT !.filters = TRUE, !.poll = "chosen"]

\* The live status, which the signals change.
RunDetailPage ==
    [Default EXCEPT !.swallows = TRUE, !.guard = TRUE, !.filters = TRUE, !.poll = "chain", !.change = {"patch"},
                    !.starts = {}, !.tells = FALSE, !.refresh = "onError",
                    !.reset = {"clearError", "dropData"}]

ExecutionMonitor ==
    [Default EXCEPT !.eager = FALSE, !.filters = TRUE, !.poll = "ends", !.starts = {}, !.fails = {}]

\* The drawer has the id of its pipeline as key, so another pipeline mounts
\* another drawer and the answers for the first are dropped.
PipelineDrawer ==
    [Default EXCEPT !.guard = TRUE, !.filters = TRUE, !.starts = {"dropData"}, !.fails = {}]

\* The rows of a dataset, and the columns of the dataset of a new widget.
DatasetPreview == [Default EXCEPT !.filters = TRUE]
AddWidgetModal == [Default EXCEPT !.filters = TRUE]

\* A created link loads the list again, a revoked one is taken off it.
ShareModal == [Default EXCEPT !.starts = {}, !.change = {"refetch", "patch"}]

\* A level of a connector picker: its list depends on the selection above it.
DrivePicker == [Default EXCEPT !.filters = TRUE, !.starts = {"spinner", "dropData"}]
ZendeskPicker == [Default EXCEPT !.filters = TRUE, !.starts = {"spinner", "dropData"}]
SheetPicker == [Default EXCEPT !.filters = TRUE, !.starts = {"spinner", "dropData"}]
ExcelPicker == [Default EXCEPT !.filters = TRUE, !.starts = {"spinner", "dropData"}]

\* The recent runs of the output drawer, and the log of one of them.
RecentRuns == [Default EXCEPT !.starts = {"spinner"}, !.fails = {}, !.refresh = "always"]
RunLogs == [Default EXCEPT !.filters = TRUE, !.starts = {"clearError", "dropData"}]

policy ==
    CASE page = "PipelinesPage"       -> PipelinesPage
      [] page = "RunsPage"            -> RunsPage
      [] page = "RuntimeLineage"      -> RuntimeLineage
      [] page = "ExecutionDrawer"     -> ExecutionDrawer
      [] page = "ArchitectureLineage" -> ArchitectureLineage
      [] page = "LineageChanges"      -> LineageChanges
      [] page = "useApiQuery"         -> useApiQuery
      [] page = "MonitoringPage"      -> MonitoringPage
      [] page = "TeamPage"            -> TeamPage
      [] page = "ConnectorsPage"      -> ConnectorsPage
      [] page = "LifecyclePage"       -> LifecyclePage
      [] page = "BackfillPanel"       -> BackfillPanel
      [] page = "BackfillPlan"        -> BackfillPlan
      [] page = "FeatureProvider"     -> FeatureProvider
      [] page = "AnalyticsWidget"     -> AnalyticsWidget
      [] page = "RunDetailPage"       -> RunDetailPage
      [] page = "ExecutionMonitor"    -> ExecutionMonitor
      [] page = "RecentRuns"          -> RecentRuns
      [] page = "RunLogs"             -> RunLogs
      [] page = "PipelineDrawer"      -> PipelineDrawer
      [] page = "DatasetPreview"      -> DatasetPreview
      [] page = "AddWidgetModal"      -> AddWidgetModal
      [] page = "ShareModal"          -> ShareModal
      [] page = "DrivePicker"         -> DrivePicker
      [] page = "ZendeskPicker"       -> ZendeskPicker
      [] page = "SheetPicker"         -> SheetPicker
      [] page = "ExcelPicker"         -> ExcelPicker
-----------------------------------------------------------------------------
(* The state of a component and its requests *)

\* The time window of RuntimeLineage: a preset, a custom one, or a custom one
\* with an end that is missing or out of range.  The others have no window.
Query == [window: {"ok", "custom", "bad"}, filter: Filters]

\* Rows: what they answer, what the server said, and whether the part of them
\* that may fail on its own was lost and is shown empty.
Chunk == [q: Query, page: 1..MaxPages, content: SUBSET Changes, lost: BOOLEAN]

\* A request: what it asks for, the rows it has been answered so far, whether
\* it is the newest under the guard and whether something newer was applied.
Request(kind, u, first, how, change) ==
    [kind |-> kind, q |-> [u.q EXCEPT !.window = u.applied.window], page |-> first, got |-> <<>>,
     done |-> FALSE, current |-> TRUE, late |-> FALSE, how |-> how, change |-> change]

Reads(r) == r.kind \in {"load", "more"}

\* The request of a load, and what sending it does to the component.
Loading(u, resets) ==
    [u EXCEPT !.applied = u.q,
              !.loading = u.loading \/ "spinner" \in resets,
              !.error   = u.error /\ "clearError" \notin resets,
              !.more    = u.more /\ "stopMore" \notin resets,
              !.cursor  = IF "dropCursor" \in resets THEN 0 ELSE u.cursor,
              !.shown   = IF "dropData" \in resets THEN <<>> ELSE u.shown,
              !.armed   = u.armed /\ policy.poll # "chain"]

Superseded(requests) == [i \in DOMAIN requests |-> [requests[i] EXCEPT !.current = FALSE]]

SendLoad(u, requests, resets) ==
    /\ ui' = Loading(u, resets)
    /\ pending' = Append(Superseded(requests), Request("load", Loading(u, resets), 1, "none", {}))

Room == Len(pending) < MaxPending
Without(i) == [j \in 1..Len(pending) - 1 |-> pending[IF j < i THEN j ELSE j + 1]]

\* The requests left once request i has ended.  One that was sent earlier or
\* had already left the server, and one that continues a list which has just
\* been replaced or continued, is late from then on.
Overtaken(i) ==
    [j \in DOMAIN Without(i) |->
        LET r == Without(i)[j]
        IN  [r EXCEPT !.late = r.late \/ (r.kind = "more" /\ Reads(pending[i]))
                                      \/ (pending[i].kind # "more" /\ (j < i \/ r.got # <<>>))]]

-----------------------------------------------------------------------------
(* The user and the timers *)

\* Typing an end of a custom window is no reason to load; the button Apply is.
Typing(new) == new.filter = ui.q.filter /\ {new.window, ui.q.window} \subseteq {"custom", "bad"}

\* A filter, a search after its delay, another run, another window.
\* RuntimeLineage sends nothing while its custom window is incomplete, and a
\* watcher that is given another run watches again.
SetQuery(new) ==
    /\ policy.filters \/ new.filter = ui.q.filter
    /\ policy.windows \/ new.window = "ok"
    /\ new # ui.q /\ (new.filter = ui.q.filter \/ new.window = ui.q.window)
    /\ IF policy.eager /\ new.window # "bad" /\ ~Typing(new)
       THEN Room /\ SendLoad([ui EXCEPT !.q = new], pending, policy.starts)
       ELSE /\ ui' = [ui EXCEPT !.q = new, !.armed = ui.armed \/ policy.poll = "ends",
                                !.shown = IF "dropData" \in policy.starts THEN <<>> ELSE ui.shown]
            /\ UNCHANGED pending
    /\ UNCHANGED <<page, server, acked, excuse, failures>>

RefreshEnabled ==
    \/ policy.refresh = "always"
    \/ policy.refresh = "idle" /\ ~ui.loading
    \/ policy.refresh # "never" /\ ui.error

\* The refresh button, Retry of an error, Apply, Preview.
Refresh ==
    /\ RefreshEnabled /\ ui.q.window # "bad" /\ Room
    /\ SendLoad(ui, pending, policy.starts \cup policy.reset)
    /\ UNCHANGED <<page, server, acked, excuse, failures>>

\* The timer of the component fires.
Poll ==
    /\ policy.poll # "none" /\ ui.armed /\ Room
    /\ SendLoad(ui, pending, policy.starts)
    /\ UNCHANGED <<page, server, acked, excuse, failures>>

\* The next page, with the cursor and the filters of the moment and the window
\* of the last load.
LoadMore ==
    /\ policy.more # "none" /\ ui.cursor # 0 /\ Room
    /\ IF policy.shared THEN ~ui.loading ELSE ~ui.more
    /\ ui' = IF policy.shared THEN [ui EXCEPT !.loading = TRUE] ELSE [ui EXCEPT !.more = TRUE]
    /\ pending' = Append(IF policy.more = "guarded" THEN Superseded(pending) ELSE pending,
                         Request("more", ui, ui.cursor, "none", {}))
    /\ UNCHANGED <<page, server, acked, excuse, failures>>

\* A button that changes the data; the buttons of different rows are
\* independent of each other.
Change(c, how) ==
    /\ how \in policy.change /\ Room
    /\ how = "refetch" \/ (ui.shown # <<>> /\ \A j \in DOMAIN ui.shown : ~ui.shown[j].lost)
    /\ c \notin server /\ \A i \in DOMAIN pending : c \notin pending[i].change
    /\ ui' = IF policy.tells /\ how = "refetch" THEN [ui EXCEPT !.error = FALSE] ELSE ui
    /\ pending' = Append(pending, Request("change", ui, 1, how, {c}))
    /\ UNCHANGED <<page, server, acked, excuse, failures>>

-----------------------------------------------------------------------------
(* The server *)

\* Another user, or the progress of a run.  What the rows say is followed only
\* where a component polls for it or changes it: for the others no property
\* tells one content from another.
ServerMoves(c) ==
    /\ policy.poll # "none" \/ policy.change # {}
    /\ c \notin server /\ \A i \in DOMAIN pending : c \notin pending[i].change
    /\ server' = server \cup {c}
    /\ UNCHANGED <<page, ui, pending, acked, excuse, failures>>

\* A request with one more page of rows, taken from this content.
\* listAllPipelines asks for one page after the other; everything else is one
\* request.
Served(r, content, lost) ==
    [r EXCEPT !.got  = Append(r.got, [q |-> r.q, page |-> r.page, content |-> content, lost |-> lost]),
              !.page = IF r.page < MaxPages THEN r.page + 1 ELSE r.page,
              !.done = ~policy.whole \/ r.kind = "change" \/ r.page = MaxPages]

\* A request is carried out.
Serve(i) ==
    /\ i \in DOMAIN pending /\ ~pending[i].done
    /\ server' = server \cup pending[i].change
    /\ pending' = [pending EXCEPT ![i] = Served(pending[i], server', FALSE)]
    /\ UNCHANGED <<page, ui, acked, excuse, failures>>

\* A part of a load fails, and its catch takes the place of the answer.
LosePart(i) ==
    /\ i \in DOMAIN pending /\ ~pending[i].done
    /\ policy.swallows /\ pending[i].kind = "load" /\ failures < MaxFailures
    /\ failures' = failures + 1
    /\ pending' = [pending EXCEPT ![i] = Served(pending[i], server, TRUE)]
    /\ UNCHANGED <<page, ui, server, acked, excuse>>

-----------------------------------------------------------------------------
(* Answers *)

AcceptedAny(r) == TRUE

\* The guard: requestGeneration, requestSeq, the AbortController, alive.
Accepted(r) ==
    r.current \/ (r.kind = "load" /\ ~policy.guard) \/ (r.kind = "more" /\ policy.more # "guarded")

\* The run that is watched is over.
TerminalEarly(content) == content # {}
Terminal(content) == content = Changes

\* The cursor that comes with the last of these rows.
NextCursor(got) == IF got[Len(got)].page < MaxPages THEN got[Len(got)].page + 1 ELSE 0

\* The timer after an answer: the end of another run stops its own timer only.
Rearmed(r) ==
    CASE policy.poll = "chain" -> ~Terminal(r.got[1].content)
      [] policy.poll = "ends"  -> ui.armed /\ ~(Terminal(r.got[1].content) /\ r.q = ui.q)
      [] OTHER -> ui.armed

Lost(rows) == \E j \in DOMAIN rows : rows[j].lost

\* What is wrong with the screen after the answer of a load: a part of it was
\* lost, something newer had been applied before, or it answers what a form
\* no longer says.
After(r) ==
    CASE Lost(r.got) -> "partial"
      [] ~Lost(r.got) /\ r.late -> "late"
      [] ~Lost(r.got) /\ ~r.late /\ ~policy.eager /\ r.q # ui.q -> "moved"
      [] OTHER -> "none"

LoadAnswered(i) ==
    LET r == pending[i] IN
    /\ r.kind = "load" /\ r.done
    /\ IF Accepted(r)
       THEN /\ ui' = [ui EXCEPT !.shown = r.got, !.cursor = NextCursor(r.got), !.loading = FALSE,
                                !.armed = Rearmed(r)]
            /\ pending' = Overtaken(i)
            /\ excuse' = After(r)
       ELSE pending' = Without(i) /\ UNCHANGED <<ui, excuse>>
    /\ UNCHANGED <<page, server, acked, failures>>

\* The rows are appended to whatever is shown, and are mixed with it if they
\* were asked for under other filters.
MoreAnswered(i) ==
    LET r == pending[i] IN
    /\ r.kind = "more" /\ r.done
    /\ IF Accepted(r)
       THEN /\ ui' = [ui EXCEPT !.shown = ui.shown \o r.got, !.cursor = NextCursor(r.got),
                                !.loading = ui.loading /\ ~policy.shared,
                                !.more = ui.more /\ policy.shared]
            /\ excuse' = CASE r.late -> "late"
                           [] ~r.late /\ r.q # ui.applied -> "mixed"
                           [] OTHER -> excuse
            /\ pending' = Overtaken(i)
       ELSE pending' = Without(i) /\ UNCHANGED <<ui, excuse>>
    /\ UNCHANGED <<page, server, acked, failures>>

\* The rows on the screen with the change made to them.
Patched(shown, change) == [j \in DOMAIN shown |-> [shown[j] EXCEPT !.content = shown[j].content \cup change]]

ShowForgotten(i) == ui' = ui /\ pending' = Overtaken(i) /\ UNCHANGED excuse

\* What the component does once its change has been acknowledged.
Show(i) ==
    LET r == pending[i] IN
    CASE r.how = "refetch" -> SendLoad(ui, Overtaken(i), policy.starts) /\ UNCHANGED excuse
      [] r.how = "patch"   -> /\ ui' = [ui EXCEPT !.shown = Patched(ui.shown, r.change)]
                              /\ pending' = Overtaken(i) /\ UNCHANGED excuse
      [] r.how = "answer"  -> /\ ui' = [ui EXCEPT !.shown = r.got]
                              /\ pending' = Overtaken(i)
                              /\ excuse' = IF r.late THEN "late" ELSE "none"

ChangeAnswered(i) ==
    /\ pending[i].kind = "change" /\ pending[i].done
    /\ acked' = acked \cup pending[i].change
    /\ Show(i)
    /\ UNCHANGED <<page, server, failures>>

Answer(i) ==
    /\ i \in DOMAIN pending
    /\ LoadAnswered(i) \/ MoreAnswered(i) \/ ChangeAnswered(i)

\* A request fails, before or after it had its effect.
Fail(i) ==
    LET r == pending[i]
        heard == r.kind = "change" \/ Accepted(r)
    IN
    /\ i \in DOMAIN pending /\ failures < MaxFailures
    /\ failures' = failures + 1
    /\ pending' = IF heard /\ r.kind = "load" THEN Overtaken(i) ELSE Without(i)
    /\ ui' = IF ~heard THEN ui ELSE
            [ui EXCEPT
              !.error   = ui.error \/ (IF r.kind = "change" THEN policy.tells ELSE "report" \in policy.fails),
              !.loading = ui.loading /\ r.kind # "load" /\ ~(r.kind = "more" /\ policy.shared),
              !.more    = ui.more /\ r.kind # "more",
              !.cursor  = IF r.kind = "load" /\ "dropCursor" \in policy.fails THEN 0 ELSE ui.cursor,
              !.shown   = IF r.kind = "load" /\ "dropData" \in policy.fails THEN <<>> ELSE ui.shown]
    /\ excuse' = IF heard /\ r.kind = "load" THEN "failed" ELSE excuse
    /\ UNCHANGED <<page, server, acked>>

-----------------------------------------------------------------------------
(* The specification *)

First == [window |-> "ok", filter |-> CHOOSE f \in Filters : TRUE]

\* The component right after it was mounted and its effects have run.
Init ==
    /\ page \in Pages
    /\ ui = [q |-> First, applied |-> First, shown |-> <<>>, cursor |-> 0, error |-> FALSE,
             loading |-> policy.eager /\ "spinner" \in policy.starts, more |-> FALSE,
             armed |-> policy.poll # "chain"]
    /\ pending = IF policy.eager THEN <<Request("load", ui, 1, "none", {})>> ELSE <<>>
    /\ server = {} /\ acked = {} /\ excuse = "none" /\ failures = 0

Ask == Refresh \/ \E new \in Query : SetQuery(new)

Next ==
    \/ Ask \/ Poll \/ LoadMore
    \/ \E c \in Changes : ServerMoves(c) \/ \E how \in policy.change : Change(c, how)
    \/ \E i \in DOMAIN pending : Serve(i) \/ LosePart(i) \/ Answer(i) \/ Fail(i)

\* Timers fire and every request is answered in the end; the oldest is named
\* because each becomes the oldest.  A user need not do anything.
Fairness ==
    /\ WF_vars(policy.poll # "chosen" /\ Poll)
    /\ WF_vars(Serve(1)) /\ WF_vars(Answer(1))

Spec == Init /\ [][Next]_vars /\ Fairness

-----------------------------------------------------------------------------
(* Properties *)

Settled == \A i \in DOMAIN pending : ~Reads(pending[i])

\* Once its requests are answered a page shows the rows of its last load, all
\* of them, from the first page on and without a gap, and offers the page after
\* them; and that load asked for what is selected, unless a custom window was
\* typed and not applied, the page shows nothing, or a watcher waits for its
\* timer.  The exceptions last until the next load: one that failed or lost a
\* part; rows that were loaded under other filters (RuntimeLineage); a plan of
\* a form that was changed since (BackfillPlan); and an answer applied after a
\* newer one, which a page whose requests are all under a guard
\* (PipelinesPage, useApiQuery, RunDetailPage) does not allow.
ShownMatchesQuery ==
    LET guarded == policy.guard /\ policy.more # "free"
    IN  Settled /\ (excuse = "none" \/ (excuse = "late" /\ guarded)) =>
        /\ \A j \in DOMAIN ui.shown :
                ui.shown[j].q = ui.applied /\ ui.shown[j].page = j /\ ~ui.shown[j].lost
        /\ policy.more # "none" => ui.cursor = IF Len(ui.shown) < MaxPages THEN Len(ui.shown) + 1 ELSE 0
        /\ \/ ui.q = ui.applied \/ ui.shown = <<>>
           \/ ui.q.window # "ok" \/ policy.poll = "ends"

\* A spinner is never left behind: while one turns, a request is under way
\* whose answer stops it.
SpinnerHasRequest ==
    /\ ui.loading => \E i \in DOMAIN pending :
            /\ Reads(pending[i])
            /\ pending[i].kind = "load" \/ policy.shared
            /\ policy.guard => pending[i].current
    /\ ui.more => \E i \in DOMAIN pending :
            pending[i].kind = "more" /\ (policy.more = "guarded" => pending[i].current)

\* What the user did and the API confirmed is on the screen once the page has
\* settled, in every page of rows, unless the last load failed, lost the part
\* that shows it, or had left the server before.
OwnChangeIsShown ==
    Settled /\ excuse = "none" =>
        \A j \in DOMAIN ui.shown : ~ui.shown[j].lost /\ acked \subseteq ui.shown[j].content

UpToDate ==
    /\ ui.shown # <<>>
    /\ \A j \in DOMAIN ui.shown :
            ui.shown[j].content = server /\ ~ui.shown[j].lost /\ ui.shown[j].q = ui.q

\* A page that polls on an interval comes to show the last state of the data
\* and keeps it, whatever failed, was lost or overtook what before.  A watcher
\* of a run does so too, unless a poll failed (RunDetailPage then stops), lost
\* the live status of the end, or an older answer came after the last one
\* (ExecutionMonitor has stopped by then), or the user keeps switching.
WatchSettles ==
    \/ <>[](policy.poll = "interval" => UpToDate)
       /\ <>[](policy.poll \in {"chain", "ends"} => UpToDate \/ excuse # "none")
    \/ []<><<Ask>>_vars
=============================================================================
