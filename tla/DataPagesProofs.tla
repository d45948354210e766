-------------------------- MODULE DataPagesProofs ---------------------------
(***************************************************************************)
(* Proofs about DataPages for every component with a policy, every number  *)
(* of filters, changes and pages of rows, and any number of requests under *)
(* way.  The policies enter only through PolicyOK: what their fields have  *)
(* in common is what makes the pages correct.                              *)
(***************************************************************************)
EXTENDS DataPages, SequenceTheorems, TLAPS

\* What the policies have in common.
PolicyOK(p) ==
    /\ p.guard \in BOOLEAN /\ p.eager \in BOOLEAN /\ p.whole \in BOOLEAN /\ p.shared \in BOOLEAN
    /\ p.tells \in BOOLEAN /\ p.filters \in BOOLEAN /\ p.windows \in BOOLEAN
    /\ p.swallows \in BOOLEAN
    /\ p.more \in {"none", "guarded", "free"} /\ p.change \subseteq {"refetch", "patch", "answer"}
    /\ p.shared => ~p.guard /\ p.more = "free"
    /\ p.more = "guarded" => p.guard /\ ~p.windows /\ {"spinner", "dropCursor", "stopMore"} \subseteq p.starts
    /\ p.more # "none" => /\ p.eager /\ ~p.whole /\ p.change = {} /\ p.poll = "none"
                          /\ "dropData" \notin p.starts \cup p.fails \cup p.reset
    /\ "answer" \in p.change => ~p.filters
    /\ p.change # {} => ~p.windows
    /\ p.poll # "none" => ~p.windows
    /\ p.swallows => p.more = "none" /\ "answer" \notin p.change
    /\ ~p.eager => ~p.guard /\ p.change = {} /\ (p.poll = "ends" \/ "dropData" \in p.starts)

UI == [q: Query, applied: Query, shown: Seq(Chunk), cursor: 0..MaxPages, error: BOOLEAN,
       loading: BOOLEAN, more: BOOLEAN, armed: BOOLEAN]

Req == [kind: {"load", "more", "change"}, q: Query, page: 1..MaxPages, got: Seq(Chunk),
        done: BOOLEAN, current: BOOLEAN, late: BOOLEAN,
        how: {"none", "refetch", "patch", "answer"}, change: SUBSET Changes]

Excuses == {"none", "late", "failed", "partial", "mixed", "moved"}

TypeInv ==
    /\ page \in Components
    /\ ui \in UI
    /\ pending \in Seq(Req)
    /\ server \in SUBSET Changes /\ acked \in SUBSET Changes
    /\ excuse \in Excuses /\ failures \in Nat

\* What was asked for is something the component does.
RequestOK(r) ==
    /\ r.kind = "change" => r.how \in policy.change
    /\ r.kind # "change" => r.change = {}
    /\ r.kind = "more" => policy.more # "none"
    /\ r.done => r.got # <<>>
    /\ \A j \in 1..Len(r.got) : r.got[j].lost => r.kind = "load" /\ policy.swallows

KindInv == \A i \in 1..Len(pending) : RequestOK(pending[i])

\* Only a component with a custom window can have an incomplete one.
WindowInv == ~policy.windows => ui.q.window = "ok"

\* A part is missing on the screen only where failures are swallowed, and then
\* the last load has lost it or failed.
LostInv ==
    \A j \in 1..Len(ui.shown) : ui.shown[j].lost => policy.swallows /\ excuse \in {"partial", "failed"}

Base == TypeInv /\ KindInv /\ WindowInv /\ LostInv

\* While a guarded page loads, it offers no further page and every load more
\* is outdated, so no request can discard the answer that stops the spinner.
LoadHasRequest ==
    ui.loading => \E i \in 1..Len(pending) :
        /\ pending[i].kind = "load" \/ (pending[i].kind = "more" /\ policy.shared)
        /\ policy.guard => pending[i].current
MoreHasRequest ==
    ui.more => \E i \in 1..Len(pending) :
        pending[i].kind = "more" /\ (policy.more = "guarded" => pending[i].current)
LoadExcludesMore ==
    policy.more = "guarded" /\ ui.loading =>
        ui.cursor = 0 /\ \A i \in 1..Len(pending) : pending[i].kind = "more" => ~pending[i].current
SharedSpinner == policy.shared => ~ui.more

SpinnerInv == LoadHasRequest /\ MoreHasRequest /\ LoadExcludesMore /\ SharedSpinner

\* A load whose answer will be applied.
Eligible(r) == r.kind = "load" /\ (policy.guard => r.current)
Coming == \E i \in 1..Len(pending) : Eligible(pending[i])

\* Rows hold a set of changes.
Hold(rows, changes) == \A j \in 1..Len(rows) : changes \subseteq rows[j].content

\* What is acknowledged has been applied; every answer that is not late knows
\* of it, and so does the screen unless a load is on its way.
AckedApplied == acked \subseteq server
ServedHolds ==
    \A i \in 1..Len(pending) :
        pending[i].got # <<>> => pending[i].change \subseteq server /\ Hold(pending[i].got, pending[i].change)
FreshHolds == \A i \in 1..Len(pending) : ~pending[i].late => Hold(pending[i].got, acked)
ScreenHolds == excuse = "none" => Hold(ui.shown, acked) \/ Coming
PagedUnchanged == policy.more # "none" => acked = {}

OwnInv == AckedApplied /\ ServedHolds /\ FreshHolds /\ ScreenHolds /\ PagedUnchanged

\* The query: what is selected has been asked for, unless it is incomplete.
QueryInv ==
    /\ ui.applied.window # "bad"
    /\ policy.eager /\ ui.q.window = "ok" => ui.q = ui.applied
    /\ ~policy.filters /\ ~policy.windows => ui.q = ui.applied

\* A request and the rows it has got: those of its query, in order.
Start(r) == IF r.got = <<>> THEN r.page ELSE r.got[1].page
RowsOK(r) ==
    /\ \A j \in 1..Len(r.got) : r.got[j].q = r.q
    /\ r.kind = "more" => Len(r.got) <= 1 /\ (~r.done => r.got = <<>>)
    /\ r.kind # "more" => /\ \A j \in 1..Len(r.got) : r.got[j].page = j
                          /\ ~r.done => r.page = Len(r.got) + 1
    /\ ~policy.filters /\ ~policy.windows => r.q = ui.applied
RowsInv == \A i \in 1..Len(pending) : RowsOK(pending[i])

\* Under a guard the newest load is the only one that counts; where load more
\* shares it, the newest request is, and nothing ever overtakes that one.
GuardInv ==
    /\ policy.guard => \A i, k \in 1..Len(pending) :
        i < k /\ pending[k].kind = "load" => ~pending[i].current
    /\ policy.more = "guarded" =>
        /\ \A i \in 1..Len(pending) : pending[i].current => i = Len(pending) /\ ~pending[i].late
        /\ Coming => ui.loading

Guarded == policy.guard /\ policy.more # "free"
Trusted == excuse = "none" \/ (excuse = "late" /\ Guarded)

\* A load that counts asks for what was applied last, or a newer one does.
LoadsInv ==
    \A i \in 1..Len(pending) : Eligible(pending[i]) /\ (~pending[i].late \/ Guarded) =>
        \/ pending[i].q = ui.applied
        \/ \E k \in 1..Len(pending) : i < k /\ Eligible(pending[k])

\* The screen shows what was applied last, from the first page on.
Matches ==
    /\ \A j \in 1..Len(ui.shown) : ui.shown[j].q = ui.applied /\ ui.shown[j].page = j
    /\ policy.more # "none" => ui.cursor = IF Len(ui.shown) < MaxPages THEN Len(ui.shown) + 1 ELSE 0
ScreenInv == Trusted => Matches \/ Coming

\* A load more that counts continues the screen.
Continues(r) ==
    r.kind = "more" /\ (IF policy.more = "guarded" THEN r.current ELSE ~r.late) /\ Trusted =>
        \/ Matches /\ Start(r) = Len(ui.shown) + 1
        \/ Coming
MoreInv == \A i \in 1..Len(pending) : Continues(pending[i])

\* A form that does not load by itself shows nothing but the answer to what it
\* says.
FormInv ==
    ~policy.eager /\ policy.poll # "ends" /\ Trusted =>
        ui.q = ui.applied \/ ui.shown = <<>> \/ Coming

ShowInv == QueryInv /\ RowsInv /\ GuardInv /\ LoadsInv /\ ScreenInv /\ MoreInv /\ FormInv

-----------------------------------------------------------------------------
(* The policies *)

\* Every component has a policy, and all of them are alike in what matters.
LEMMA PolicyFacts ==
    ASSUME page \in Components
    PROVE  PolicyOK(policy)
  <1>1. CASE page = "PipelinesPage"
    <2>1. policy = PipelinesPage
      BY <1>1 DEF policy
    <2>2. PolicyOK(PipelinesPage)
      BY DEF PolicyOK, PipelinesPage, Default
    <2> QED
      BY <2>1, <2>2
  <1>2. CASE page = "RunsPage"
    <2>1. policy = RunsPage
      BY <1>2 DEF policy
    <2>2. PolicyOK(RunsPage)
      BY DEF PolicyOK, RunsPage, Default
    <2> QED
      BY <2>1, <2>2
  <1>3. CASE page = "RuntimeLineage"
    <2>1. policy = RuntimeLineage
      BY <1>3 DEF policy
    <2>2. PolicyOK(RuntimeLineage)
      BY DEF PolicyOK, RuntimeLineage, Default
    <2> QED
      BY <2>1, <2>2
  <1>4. CASE page = "ExecutionDrawer"
    <2>1. policy = ExecutionDrawer
      BY <1>4 DEF policy
    <2>2. PolicyOK(ExecutionDrawer)
      BY DEF PolicyOK, ExecutionDrawer, Default
    <2> QED
      BY <2>1, <2>2
  <1>5. CASE page = "ArchitectureLineage"
    <2>1. policy = ArchitectureLineage
      BY <1>5 DEF policy
    <2>2. PolicyOK(ArchitectureLineage)
      BY DEF PolicyOK, ArchitectureLineage, Default
    <2> QED
      BY <2>1, <2>2
  <1>6. CASE page = "LineageChanges"
    <2>1. policy = LineageChanges
      BY <1>6 DEF policy
    <2>2. PolicyOK(LineageChanges)
      BY DEF PolicyOK, LineageChanges, Default
    <2> QED
      BY <2>1, <2>2
  <1>7. CASE page = "useApiQuery"
    <2>1. policy = useApiQuery
      BY <1>7 DEF policy
    <2>2. PolicyOK(useApiQuery)
      BY DEF PolicyOK, useApiQuery, Default
    <2> QED
      BY <2>1, <2>2
  <1>8. CASE page = "MonitoringPage"
    <2>1. policy = MonitoringPage
      BY <1>8 DEF policy
    <2>2. PolicyOK(MonitoringPage)
      BY DEF PolicyOK, MonitoringPage, Default
    <2> QED
      BY <2>1, <2>2
  <1>9. CASE page = "TeamPage"
    <2>1. policy = TeamPage
      BY <1>9 DEF policy
    <2>2. PolicyOK(TeamPage)
      BY DEF PolicyOK, TeamPage, Default
    <2> QED
      BY <2>1, <2>2
  <1>10. CASE page = "ConnectorsPage"
    <2>1. policy = ConnectorsPage
      BY <1>10 DEF policy
    <2>2. PolicyOK(ConnectorsPage)
      BY DEF PolicyOK, ConnectorsPage, Default
    <2> QED
      BY <2>1, <2>2
  <1>11. CASE page = "LifecyclePage"
    <2>1. policy = LifecyclePage
      BY <1>11 DEF policy
    <2>2. PolicyOK(LifecyclePage)
      BY DEF PolicyOK, LifecyclePage, Default
    <2> QED
      BY <2>1, <2>2
  <1>12. CASE page = "BackfillPanel"
    <2>1. policy = BackfillPanel
      BY <1>12 DEF policy
    <2>2. PolicyOK(BackfillPanel)
      BY DEF PolicyOK, BackfillPanel, Default
    <2> QED
      BY <2>1, <2>2
  <1>13. CASE page = "BackfillPlan"
    <2>1. policy = BackfillPlan
      BY <1>13 DEF policy
    <2>2. PolicyOK(BackfillPlan)
      BY DEF PolicyOK, BackfillPlan, Default
    <2> QED
      BY <2>1, <2>2
  <1>14. CASE page = "FeatureProvider"
    <2>1. policy = FeatureProvider
      BY <1>14 DEF policy
    <2>2. PolicyOK(FeatureProvider)
      BY DEF PolicyOK, FeatureProvider, Default
    <2> QED
      BY <2>1, <2>2
  <1>15. CASE page = "AnalyticsWidget"
    <2>1. policy = AnalyticsWidget
      BY <1>15 DEF policy
    <2>2. PolicyOK(AnalyticsWidget)
      BY DEF PolicyOK, AnalyticsWidget, Default
    <2> QED
      BY <2>1, <2>2
  <1>16. CASE page = "RunDetailPage"
    <2>1. policy = RunDetailPage
      BY <1>16 DEF policy
    <2>2. PolicyOK(RunDetailPage)
      BY DEF PolicyOK, RunDetailPage, Default
    <2> QED
      BY <2>1, <2>2
  <1>17. CASE page = "ExecutionMonitor"
    <2>1. policy = ExecutionMonitor
      BY <1>17 DEF policy
    <2>2. PolicyOK(ExecutionMonitor)
      BY DEF PolicyOK, ExecutionMonitor, Default
    <2> QED
      BY <2>1, <2>2
  <1>18. CASE page = "RecentRuns"
    <2>1. policy = RecentRuns
      BY <1>18 DEF policy
    <2>2. PolicyOK(RecentRuns)
      BY DEF PolicyOK, RecentRuns, Default
    <2> QED
      BY <2>1, <2>2
  <1>19. CASE page = "RunLogs"
    <2>1. policy = RunLogs
      BY <1>19 DEF policy
    <2>2. PolicyOK(RunLogs)
      BY DEF PolicyOK, RunLogs, Default
    <2> QED
      BY <2>1, <2>2
  <1>20. CASE page = "PipelineDrawer"
    <2>1. policy = PipelineDrawer
      BY <1>20 DEF policy
    <2>2. PolicyOK(PipelineDrawer)
      BY DEF PolicyOK, PipelineDrawer, Default
    <2> QED
      BY <2>1, <2>2
  <1>21. CASE page = "DatasetPreview"
    <2>1. policy = DatasetPreview
      BY <1>21 DEF policy
    <2>2. PolicyOK(DatasetPreview)
      BY DEF PolicyOK, DatasetPreview, Default
    <2> QED
      BY <2>1, <2>2
  <1>22. CASE page = "AddWidgetModal"
    <2>1. policy = AddWidgetModal
      BY <1>22 DEF policy
    <2>2. PolicyOK(AddWidgetModal)
      BY DEF PolicyOK, AddWidgetModal, Default
    <2> QED
      BY <2>1, <2>2
  <1>23. CASE page = "ShareModal"
    <2>1. policy = ShareModal
      BY <1>23 DEF policy
    <2>2. PolicyOK(ShareModal)
      BY DEF PolicyOK, ShareModal, Default
    <2> QED
      BY <2>1, <2>2
  <1>24. CASE page = "DrivePicker"
    <2>1. policy = DrivePicker
      BY <1>24 DEF policy
    <2>2. PolicyOK(DrivePicker)
      BY DEF PolicyOK, DrivePicker, Default
    <2> QED
      BY <2>1, <2>2
  <1>25. CASE page = "ZendeskPicker"
    <2>1. policy = ZendeskPicker
      BY <1>25 DEF policy
    <2>2. PolicyOK(ZendeskPicker)
      BY DEF PolicyOK, ZendeskPicker, Default
    <2> QED
      BY <2>1, <2>2
  <1>26. CASE page = "SheetPicker"
    <2>1. policy = SheetPicker
      BY <1>26 DEF policy
    <2>2. PolicyOK(SheetPicker)
      BY DEF PolicyOK, SheetPicker, Default
    <2> QED
      BY <2>1, <2>2
  <1>27. CASE page = "ExcelPicker"
    <2>1. policy = ExcelPicker
      BY <1>27 DEF policy
    <2>2. PolicyOK(ExcelPicker)
      BY DEF PolicyOK, ExcelPicker, Default
    <2> QED
      BY <2>1, <2>2
  <1> QED
    BY <1>1, <1>2, <1>3, <1>4, <1>5, <1>6, <1>7, <1>8, <1>9, <1>10, <1>11, <1>12, <1>13, <1>14,
       <1>15, <1>16, <1>17, <1>18, <1>19, <1>20, <1>21, <1>22, <1>23, <1>24, <1>25, <1>26, <1>27 DEF Components

LEMMA PolicyKept ==
    ASSUME UNCHANGED page
    PROVE  policy' = policy
  BY DEF policy

-----------------------------------------------------------------------------
(* The requests under way *)

\* Two requests agree but for what others do to them.
Same(r, t) ==
    /\ r.kind = t.kind /\ r.q = t.q /\ r.page = t.page /\ r.got = t.got
    /\ r.done = t.done /\ r.how = t.how /\ r.change = t.change

LEMMA SeqFacts ==
    ASSUME NEW S, NEW s \in Seq(S)
    PROVE  /\ Len(s) \in Nat /\ DOMAIN s = 1..Len(s)
           /\ \A i \in 1..Len(s) : s[i] \in S
           /\ s # <<>> => 1 \in 1..Len(s)
  <1>1. Len(s) \in Nat /\ DOMAIN s = 1..Len(s) /\ \A i \in 1..Len(s) : s[i] \in S
    BY LenProperties, ElementOfSeq
  <1>2. s # <<>> => Len(s) \in Nat \ {0}
    BY EmptySeq
  <1> QED
    BY <1>1, <1>2

LEMMA FunctionIsSeq ==
    ASSUME NEW S, NEW n \in Nat, NEW f \in [1..n -> S]
    PROVE  f \in Seq(S) /\ Len(f) = n
  BY SMT

\* A newer request supersedes the others.
LEMMA SupersededFacts ==
    ASSUME NEW s \in Seq(Req)
    PROVE  /\ Superseded(s) \in Seq(Req) /\ Len(Superseded(s)) = Len(s)
           /\ \A i \in 1..Len(s) : /\ Same(Superseded(s)[i], s[i])
                                   /\ Superseded(s)[i].late = s[i].late
                                   /\ ~Superseded(s)[i].current
  <1>1. Len(s) \in Nat /\ DOMAIN s = 1..Len(s) /\ \A i \in 1..Len(s) : s[i] \in Req
    BY SeqFacts
  <1>2. Superseded(s) = [i \in 1..Len(s) |-> [s[i] EXCEPT !.current = FALSE]]
    BY <1>1 DEF Superseded
  <1>3. ASSUME NEW r \in Req
        PROVE  /\ [r EXCEPT !.current = FALSE] \in Req
               /\ Same([r EXCEPT !.current = FALSE], r)
               /\ [r EXCEPT !.current = FALSE].late = r.late
               /\ ~[r EXCEPT !.current = FALSE].current
    BY DEF Req, Same
  <1>4. Superseded(s) \in [1..Len(s) -> Req]
    BY <1>1, <1>2, <1>3
  <1>5. Superseded(s) \in Seq(Req) /\ Len(Superseded(s)) = Len(s)
    BY <1>1, <1>4, FunctionIsSeq
  <1>6. ASSUME NEW i \in 1..Len(s)
        PROVE  /\ Same(Superseded(s)[i], s[i]) /\ Superseded(s)[i].late = s[i].late
               /\ ~Superseded(s)[i].current
    <2>1. Superseded(s)[i] = [s[i] EXCEPT !.current = FALSE]
      BY <1>2
    <2> QED
      BY <1>1, <1>3, <2>1
  <1> QED
    BY <1>5, <1>6

\* Where a request was before request i ended.
Old(i, j) == IF j < i THEN j ELSE j + 1

LEMMA OldFacts ==
    ASSUME NEW n \in Nat, NEW i \in 1..n
    PROVE  /\ n - 1 \in Nat
           /\ \A j \in 1..(n - 1) : Old(i, j) \in 1..n /\ Old(i, j) # i
           /\ \A k \in 1..n : k # i => \E j \in 1..(n - 1) : Old(i, j) = k
           /\ \A j, k \in 1..(n - 1) : j < k <=> Old(i, j) < Old(i, k)
           /\ \A j \in 1..(n - 1) : j < i <=> Old(i, j) < i
  <1>1. \A k \in 1..n : k # i => \E j \in 1..(n - 1) : Old(i, j) = k
    <2> SUFFICES ASSUME NEW k \in 1..n, k # i PROVE \E j \in 1..(n - 1) : Old(i, j) = k
      OBVIOUS
    <2>1. CASE k < i
      <3>1. k \in 1..(n - 1) /\ Old(i, k) = k
        BY <2>1 DEF Old
      <3> QED
        BY <3>1
    <2>2. CASE k > i
      <3>1. k - 1 \in 1..(n - 1) /\ Old(i, k - 1) = k
        BY <2>2 DEF Old
      <3> QED
        BY <3>1
    <2> QED
      BY <2>1, <2>2
  <1> QED
    BY <1>1 DEF Old

\* The requests left once request i has ended.
Leaves(p, i) ==
    /\ p \in Seq(Req) /\ Len(p) = Len(pending) - 1
    /\ \A j \in 1..Len(p) : /\ Same(p[j], pending[Old(i, j)])
                            /\ p[j].current = pending[Old(i, j)].current
                            /\ pending[Old(i, j)].late => p[j].late

\* The ones that are late from then on.
Overtakes(p, i) ==
    \A j \in 1..Len(p) :
        /\ p[j].kind = "more" /\ Reads(pending[i]) => p[j].late
        /\ pending[i].kind # "more" /\ (j < i \/ p[j].got # <<>>) => p[j].late

LEMMA WithoutFacts ==
    ASSUME pending \in Seq(Req), NEW i \in 1..Len(pending)
    PROVE  /\ Leaves(Without(i), i)
           /\ \A j \in 1..Len(Without(i)) : Without(i)[j] = pending[Old(i, j)]
  <1>1. Len(pending) \in Nat /\ \A k \in 1..Len(pending) : pending[k] \in Req
    BY SeqFacts
  <1>2. /\ Len(pending) - 1 \in Nat
        /\ \A j \in 1..(Len(pending) - 1) : Old(i, j) \in 1..Len(pending)
    BY <1>1, OldFacts
  <1>3. Without(i) = [j \in 1..(Len(pending) - 1) |-> pending[Old(i, j)]]
    BY DEF Without, Old
  <1>4. Without(i) \in [1..(Len(pending) - 1) -> Req]
    BY <1>1, <1>2, <1>3
  <1>5. Without(i) \in Seq(Req) /\ Len(Without(i)) = Len(pending) - 1
    BY <1>2, <1>4, FunctionIsSeq
  <1>6. \A j \in 1..Len(Without(i)) : Without(i)[j] = pending[Old(i, j)]
    BY <1>3, <1>5
  <1> QED
    BY <1>5, <1>6 DEF Leaves, Same

LEMMA OvertakenFacts ==
    ASSUME pending \in Seq(Req), NEW i \in 1..Len(pending)
    PROVE  Leaves(Overtaken(i), i) /\ Overtakes(Overtaken(i), i)
  <1> DEFINE W == Without(i)
             L(j) == \/ W[j].late
                     \/ W[j].kind = "more" /\ Reads(pending[i])
                     \/ pending[i].kind # "more" /\ (j < i \/ W[j].got # <<>>)
             O == [j \in 1..Len(W) |-> [W[j] EXCEPT !.late = L(j)]]
  <1>1. /\ W \in Seq(Req) /\ Len(W) = Len(pending) - 1
        /\ \A j \in 1..Len(W) : W[j] = pending[Old(i, j)]
    BY WithoutFacts DEF Leaves
  <1>2. Len(W) \in Nat /\ DOMAIN W = 1..Len(W) /\ \A j \in 1..Len(W) : W[j] \in Req
    BY <1>1, SeqFacts
  <1>3. Overtaken(i) = O
    <2>1. Overtaken(i) = [j \in DOMAIN W |-> [W[j] EXCEPT !.late =
                \/ W[j].late \/ (W[j].kind = "more" /\ Reads(pending[i]))
                \/ (pending[i].kind # "more" /\ (j < i \/ W[j].got # <<>>))]]
      BY DEF Overtaken
    <2> QED
      BY <1>2, <2>1
  <1> HIDE DEF W
  <1>4. ASSUME NEW j \in 1..Len(W)
        PROVE  /\ O[j] \in Req /\ Same(O[j], W[j]) /\ O[j].current = W[j].current
               /\ O[j].late = L(j)
    <2>1. W[j] \in Req
      BY <1>2
    <2>2. O[j] = [W[j] EXCEPT !.late = L(j)]
      OBVIOUS
    <2>3. W[j].late \in BOOLEAN
      BY <2>1 DEF Req
    <2>4. L(j) \in BOOLEAN
      BY <2>3
    <2> HIDE DEF L, O
    <2> QED
      BY <2>1, <2>2, <2>4 DEF Req, Same
  <1>5. O \in [1..Len(W) -> Req]
    BY <1>4
  <1>6. O \in Seq(Req) /\ Len(O) = Len(W)
    BY <1>2, <1>5, FunctionIsSeq
  <1> HIDE DEF O
  <1>7. Leaves(O, i)
    <2>1. \A j \in 1..Len(O) : /\ Same(O[j], pending[Old(i, j)])
                               /\ O[j].current = pending[Old(i, j)].current
                               /\ pending[Old(i, j)].late => O[j].late
      BY <1>1, <1>4, <1>6
    <2> QED
      BY <1>1, <1>6, <2>1 DEF Leaves
  <1>8. Overtakes(O, i)
    BY <1>4, <1>6 DEF Overtakes, Same
  <1> QED
    BY <1>3, <1>7, <1>8

\* A request is added.
LEMMA AppendFacts ==
    ASSUME NEW S, NEW s \in Seq(S), NEW r \in S
    PROVE  /\ Append(s, r) \in Seq(S) /\ Len(Append(s, r)) = Len(s) + 1 /\ Len(s) \in Nat
           /\ Append(s, r)[Len(s) + 1] = r
           /\ \A i \in 1..Len(s) : Append(s, r)[i] = s[i]
  BY AppendProperties, LenProperties

\* What a new request asks for.
IsNew(r, kind, u, first, how, c) ==
    /\ r \in Req /\ r.kind = kind /\ r.page = first /\ r.got = <<>> /\ ~r.done
    /\ r.current /\ ~r.late /\ r.how = how /\ r.change = c
    /\ u.q.window = u.applied.window => r.q = u.q

LEMMA RequestFacts ==
    ASSUME PagesAssumption, NEW u \in UI, NEW kind \in {"load", "more", "change"},
           NEW first \in 1..MaxPages, NEW how \in {"none", "refetch", "patch", "answer"},
           NEW c \in SUBSET Changes
    PROVE  IsNew(Request(kind, u, first, how, c), kind, u, first, how, c)
  <1> DEFINE v == [u.q EXCEPT !.window = u.applied.window]
             r == Request(kind, u, first, how, c)
  <1>1. u.q \in Query /\ u.applied \in Query
    BY DEF UI
  <1>2. v \in Query
    BY <1>1 DEF Query
  <1>3. u.q.window = u.applied.window => v = u.q
    BY <1>1 DEF Query
  <1>4. <<>> \in Seq(Chunk)
    BY EmptySeq
  <1>5. r = [kind |-> kind, q |-> v, page |-> first, got |-> <<>>,
             done |-> FALSE, current |-> TRUE, late |-> FALSE, how |-> how, change |-> c]
    BY DEF Request
  <1> HIDE DEF v
  <1>6. /\ r.kind = kind /\ r.page = first /\ r.got = <<>> /\ ~r.done
        /\ r.current /\ ~r.late /\ r.how = how /\ r.change = c /\ r.q = v
    BY <1>5
  <1>7. r \in Req
    BY <1>2, <1>4, <1>5 DEF Req
  <1> HIDE DEF r
  <1>8. u.q.window = u.applied.window => r.q = u.q
    BY <1>3, <1>6 DEF v
  <1>9. IsNew(r, kind, u, first, how, c)
    BY <1>6, <1>7, <1>8 DEF IsNew
  <1> QED
    BY <1>9 DEF r

-----------------------------------------------------------------------------
(* The component *)

LEMMA LoadingFacts ==
    ASSUME PagesAssumption, PolicyOK(policy), NEW u \in UI, NEW resets
    PROVE  LET l == Loading(u, resets)
           IN  /\ l \in UI /\ l.q = u.q /\ l.applied = u.q
               /\ l.loading = (u.loading \/ "spinner" \in resets)
               /\ l.more = (u.more /\ "stopMore" \notin resets)
               /\ l.cursor = (IF "dropCursor" \in resets THEN 0 ELSE u.cursor)
               /\ l.shown = (IF "dropData" \in resets THEN <<>> ELSE u.shown)
  <1> DEFINE l == Loading(u, resets)
             a == u.loading \/ "spinner" \in resets
             b == u.error /\ "clearError" \notin resets
             c == u.more /\ "stopMore" \notin resets
             d == IF "dropCursor" \in resets THEN 0 ELSE u.cursor
             e == IF "dropData" \in resets THEN <<>> ELSE u.shown
             f == u.armed /\ policy.poll # "chain"
  <1>1. /\ u.q \in Query /\ u.shown \in Seq(Chunk) /\ u.cursor \in 0..MaxPages
        /\ u.error \in BOOLEAN /\ u.loading \in BOOLEAN /\ u.more \in BOOLEAN /\ u.armed \in BOOLEAN
    BY DEF UI
  <1>2. a \in BOOLEAN /\ b \in BOOLEAN /\ c \in BOOLEAN /\ f \in BOOLEAN
    BY <1>1
  <1>3. d \in 0..MaxPages
    BY <1>1 DEF PagesAssumption
  <1>4. e \in Seq(Chunk)
    BY <1>1, EmptySeq
  <1>5. l = [u EXCEPT !.applied = u.q, !.loading = a, !.error = b, !.more = c, !.cursor = d,
                      !.shown = e, !.armed = f]
    BY DEF Loading
  <1> HIDE DEF a, b, c, d, e, f
  <1>6. l \in UI
    BY <1>1, <1>2, <1>3, <1>4, <1>5 DEF UI
  <1>7. l.q = u.q /\ l.applied = u.q /\ l.loading = a /\ l.more = c /\ l.cursor = d /\ l.shown = e
    BY <1>5 DEF UI
  <1> QED
    BY <1>6, <1>7 DEF a, c, d, e

\* A load is sent: the newest request is current and asks for the query.
Sends(u, s, resets) ==
    /\ ui' \in UI /\ ui'.q = u.q /\ ui'.applied = u.q
    /\ ui'.loading = (u.loading \/ "spinner" \in resets)
    /\ ui'.more = (u.more /\ "stopMore" \notin resets)
    /\ ui'.cursor = (IF "dropCursor" \in resets THEN 0 ELSE u.cursor)
    /\ ui'.shown = (IF "dropData" \in resets THEN <<>> ELSE u.shown)
    /\ pending' \in Seq(Req) /\ Len(pending') = Len(s) + 1 /\ Len(s) \in Nat
    /\ \A i \in 1..Len(s) : /\ Same(pending'[i], s[i]) /\ pending'[i].late = s[i].late
                            /\ ~pending'[i].current
    /\ LET r == pending'[Len(s) + 1]
       IN  /\ r.kind = "load" /\ r.page = 1 /\ r.got = <<>> /\ ~r.done /\ r.current /\ ~r.late
           /\ r.change = {} /\ r.q = u.q

LEMMA SendFacts ==
    ASSUME PagesAssumption, PolicyOK(policy), NEW u \in UI, NEW s \in Seq(Req), NEW resets,
           SendLoad(u, s, resets)
    PROVE  Sends(u, s, resets)
  <1> DEFINE l == Loading(u, resets)
             r == Request("load", l, 1, "none", {})
             t == Superseded(s)
  <1>1. ui' = l /\ pending' = Append(t, r)
    BY DEF SendLoad
  <1>2. /\ l \in UI /\ l.q = u.q /\ l.applied = u.q
        /\ l.loading = (u.loading \/ "spinner" \in resets)
        /\ l.more = (u.more /\ "stopMore" \notin resets)
        /\ l.cursor = (IF "dropCursor" \in resets THEN 0 ELSE u.cursor)
        /\ l.shown = (IF "dropData" \in resets THEN <<>> ELSE u.shown)
    BY LoadingFacts
  <1>3. 1 \in 1..MaxPages /\ {} \in SUBSET Changes
    BY DEF PagesAssumption
  <1> HIDE DEF l
  <1>4. /\ r \in Req /\ r.kind = "load" /\ r.page = 1 /\ r.got = <<>> /\ ~r.done
        /\ r.current /\ ~r.late /\ r.change = {} /\ r.q = u.q
    <2>1. l.q.window = l.applied.window
      BY <1>2
    <2>2. IsNew(r, "load", l, 1, "none", {})
      BY <1>2, <1>3, RequestFacts
    <2> HIDE DEF r
    <2> QED
      BY <1>2, <2>1, <2>2 DEF IsNew
  <1>5. /\ t \in Seq(Req) /\ Len(t) = Len(s)
        /\ \A i \in 1..Len(s) : Same(t[i], s[i]) /\ t[i].late = s[i].late /\ ~t[i].current
    BY SupersededFacts
  <1> HIDE DEF r, t
  <1>6. /\ pending' \in Seq(Req) /\ Len(pending') = Len(s) + 1 /\ Len(s) \in Nat
        /\ pending'[Len(s) + 1] = r
        /\ \A i \in 1..Len(s) : pending'[i] = t[i]
    BY <1>1, <1>4, <1>5, AppendFacts
  <1> QED
    BY <1>1, <1>2, <1>4, <1>5, <1>6 DEF Sends

-----------------------------------------------------------------------------
(* What the steps do, field by field *)

Still == UNCHANGED <<page, server, acked, excuse>>

\* What an answer says of itself.
LEMMA AfterFacts ==
    ASSUME NEW r
    PROVE  /\ After(r) \in {"none", "late", "partial", "moved"}
           /\ Lost(r.got) => After(r) = "partial"
           /\ After(r) = "late" => r.late
           /\ After(r) = "none" => ~r.late /\ (policy.eager \/ r.q = ui.q)
  BY DEF After

\* A component with another query, and otherwise the same.
Shell(u) ==
    /\ u \in UI /\ u.applied = ui.applied /\ u.cursor = ui.cursor
    /\ u.loading = ui.loading /\ u.more = ui.more
SameBut(u) == Shell(u) /\ u.shown = ui.shown

\* The filters, the refresh button or the timer send a load.
AsksLoad ==
    /\ Still
    /\ \E u \in UI, resets \in {policy.starts, policy.starts \cup policy.reset} :
        /\ SameBut(u) /\ Sends(u, pending, resets)
        /\ u.q.window # "bad" /\ (policy.windows \/ u.q.window = "ok")
        /\ ~policy.filters /\ ~policy.windows => u.q = ui.q

\* A query that is not asked for yet.
AsksNothing ==
    /\ Still /\ pending' = pending
    /\ Shell(ui')
    /\ ui'.shown = (IF "dropData" \in policy.starts THEN <<>> ELSE ui.shown)
    /\ policy.eager => ui'.q.window # "ok"
    /\ policy.windows \/ ui'.q.window = "ok"
    /\ ~policy.filters /\ ~policy.windows => ui'.q = ui.q

\* Load more.
AsksMore ==
    /\ Still /\ policy.more # "none" /\ ui.cursor # 0
    /\ IF policy.shared THEN ~ui.loading ELSE ~ui.more
    /\ ui' \in UI /\ ui'.q = ui.q /\ ui'.applied = ui.applied /\ ui'.shown = ui.shown
    /\ ui'.cursor = ui.cursor
    /\ ui'.loading = (ui.loading \/ policy.shared) /\ ui'.more = (ui.more \/ ~policy.shared)
    /\ pending' \in Seq(Req) /\ Len(pending') = Len(pending) + 1
    /\ \A i \in 1..Len(pending) :
        /\ Same(pending'[i], pending[i]) /\ pending'[i].late = pending[i].late
        /\ IF policy.more = "guarded" THEN ~pending'[i].current
                                      ELSE pending'[i].current = pending[i].current
    /\ IsNew(pending'[Len(pending) + 1], "more", ui, ui.cursor, "none", {})

\* A button that changes the data.
AsksChange ==
    /\ Still
    /\ SameBut(ui') /\ ui'.q = ui.q
    /\ pending' \in Seq(Req) /\ Len(pending') = Len(pending) + 1
    /\ \A i \in 1..Len(pending) : pending'[i] = pending[i]
    /\ \E how \in policy.change, c \in SUBSET Changes :
        IsNew(pending'[Len(pending) + 1], "change", ui, 1, how, c)

\* The server carries out request i.
ServesOne(i) ==
    /\ UNCHANGED <<page, ui, acked, excuse>>
    /\ ~pending[i].done /\ server' = server \cup pending[i].change /\ server' \in SUBSET Changes
    /\ pending' \in Seq(Req) /\ Len(pending') = Len(pending)
    /\ \A k \in 1..Len(pending) : k # i => pending'[k] = pending[k]
    /\ LET r == pending[i]
           t == pending'[i]
       IN  /\ t.kind = r.kind /\ t.q = r.q /\ t.current = r.current /\ t.late = r.late
           /\ t.how = r.how /\ t.change = r.change
           /\ t.page = (IF r.page < MaxPages THEN r.page + 1 ELSE r.page)
           /\ t.done = (~policy.whole \/ r.kind = "change" \/ r.page = MaxPages)
           /\ Len(t.got) = Len(r.got) + 1 /\ t.got # <<>>
           /\ \A j \in 1..Len(r.got) : t.got[j] = r.got[j]
           /\ \E lost \in BOOLEAN :
                /\ t.got[Len(r.got) + 1] = [q |-> r.q, page |-> r.page, content |-> server', lost |-> lost]
                /\ lost => r.kind = "load" /\ policy.swallows

\* The answer of load i is applied.
AppliesLoad(i) ==
    /\ UNCHANGED <<page, server, acked>>
    /\ pending[i].kind = "load" /\ pending[i].done /\ Accepted(pending[i])
    /\ ui' \in UI /\ ui'.q = ui.q /\ ui'.applied = ui.applied /\ ui'.more = ui.more
    /\ ui'.shown = pending[i].got /\ ui'.cursor = NextCursor(pending[i].got) /\ ~ui'.loading
    /\ Leaves(pending', i) /\ Overtakes(pending', i)
    /\ excuse' = After(pending[i])

\* The rows of load more i are appended.
AppliesMore(i) ==
    /\ UNCHANGED <<page, server, acked>>
    /\ pending[i].kind = "more" /\ pending[i].done /\ Accepted(pending[i])
    /\ ui' \in UI /\ ui'.q = ui.q /\ ui'.applied = ui.applied
    /\ ui'.shown = ui.shown \o pending[i].got /\ ui'.cursor = NextCursor(pending[i].got)
    /\ ui'.loading = (ui.loading /\ ~policy.shared) /\ ui'.more = (ui.more /\ policy.shared)
    /\ Leaves(pending', i) /\ Overtakes(pending', i)
    /\ IF pending[i].late THEN excuse' = "late"
       ELSE IF pending[i].q # ui.applied THEN excuse' = "mixed" ELSE excuse' = excuse

\* An answer or a failure that nobody waits for.
Ignores(i) ==
    /\ Still /\ pending[i].kind # "change" /\ ~Accepted(pending[i])
    /\ ui' = ui /\ Leaves(pending', i)
    /\ \A j \in 1..Len(pending') : pending'[j].late = pending[Old(i, j)].late

\* A change is acknowledged, and shown by another load, an edit or its answer.
Acknowledges(i) ==
    /\ UNCHANGED <<page, server>>
    /\ pending[i].kind = "change" /\ pending[i].done
    /\ acked' = acked \cup pending[i].change /\ acked' \in SUBSET Changes
    /\ \/ /\ excuse' = excuse
          /\ Sends(ui, Overtaken(i), policy.starts)
       \/ /\ excuse' = excuse
          /\ Shell(ui') /\ ui'.q = ui.q
          /\ Len(ui'.shown) = Len(ui.shown)
          /\ \A j \in 1..Len(ui.shown) :
                /\ ui'.shown[j].q = ui.shown[j].q /\ ui'.shown[j].page = ui.shown[j].page
                /\ ui'.shown[j].content = ui.shown[j].content \cup pending[i].change
                /\ ui'.shown[j].lost = ui.shown[j].lost
          /\ pending' = Overtaken(i)
       \/ /\ pending[i].how = "answer"
          /\ excuse' = IF pending[i].late THEN "late" ELSE "none"
          /\ Shell(ui') /\ ui'.q = ui.q
          /\ ui'.shown = pending[i].got
          /\ pending' = Overtaken(i)

\* A request that somebody waits for fails.
Breaks(i) ==
    /\ UNCHANGED <<page, server, acked>>
    /\ pending[i].kind = "change" \/ Accepted(pending[i])
    /\ ui' \in UI /\ ui'.q = ui.q /\ ui'.applied = ui.applied
    /\ ui'.loading = (ui.loading /\ pending[i].kind # "load" /\ ~(pending[i].kind = "more" /\ policy.shared))
    /\ ui'.more = (ui.more /\ pending[i].kind # "more")
    /\ pending[i].kind # "load" => ui'.cursor = ui.cursor /\ ui'.shown = ui.shown
    /\ ui'.cursor \in {0, ui.cursor} /\ (ui'.shown = ui.shown \/ ui'.shown = <<>>)
    /\ Leaves(pending', i)
    /\ IF pending[i].kind = "load"
       THEN excuse' = "failed" /\ Overtakes(pending', i)
       ELSE /\ excuse' = excuse
            /\ \A j \in 1..Len(pending') : pending'[j].late = pending[Old(i, j)].late

\* Somebody else changes the data.
Moves == /\ UNCHANGED <<page, ui, pending, acked, excuse>>
         /\ server \subseteq server' /\ server' \in SUBSET Changes

Stutters == UNCHANGED <<page, ui, pending, server, acked, excuse>>

StepForms ==
    \/ AsksLoad \/ AsksNothing \/ AsksMore \/ AsksChange \/ Moves \/ Stutters
    \/ \E i \in 1..Len(pending) :
        \/ ServesOne(i) \/ AppliesLoad(i) \/ AppliesMore(i) \/ Ignores(i) \/ Acknowledges(i) \/ Breaks(i)

LEMMA BaseFacts ==
    ASSUME PagesAssumption, Base
    PROVE  /\ PolicyOK(policy) /\ ui \in UI /\ pending \in Seq(Req)
           /\ Len(pending) \in Nat /\ DOMAIN pending = 1..Len(pending)
           /\ \A i \in 1..Len(pending) : pending[i] \in Req /\ RequestOK(pending[i])
           /\ MaxPages \in Nat \ {0}
           /\ ui.q \in Query /\ ui.applied \in Query /\ ui.shown \in Seq(Chunk)
           /\ ui.cursor \in 0..MaxPages /\ ui.loading \in BOOLEAN /\ ui.more \in BOOLEAN
           /\ ui.error \in BOOLEAN /\ ui.armed \in BOOLEAN
           /\ server \in SUBSET Changes /\ acked \in SUBSET Changes
           /\ excuse \in Excuses /\ failures \in Nat
           /\ ~policy.windows => ui.q.window = "ok"
           /\ LostInv
  <1>1. PolicyOK(policy)
    BY PolicyFacts DEF Base, TypeInv
  <1>2. pending \in Seq(Req)
    BY DEF Base, TypeInv
  <1>3. /\ Len(pending) \in Nat /\ DOMAIN pending = 1..Len(pending)
        /\ \A i \in 1..Len(pending) : pending[i] \in Req
    BY <1>2, SeqFacts
  <1> QED
    BY <1>1, <1>3 DEF Base, TypeInv, KindInv, WindowInv, PagesAssumption, UI

\* The query is changed.
LEMMA SetQueryForm ==
    ASSUME PagesAssumption, Base, NEW new \in Query, SetQuery(new)
    PROVE  AsksLoad \/ AsksNothing
  <1>1. /\ PolicyOK(policy) /\ ui \in UI /\ pending \in Seq(Req) /\ ui.q \in Query
        /\ ui.shown \in Seq(Chunk) /\ (~policy.windows => ui.q.window = "ok")
    BY BaseFacts
  <1>2. /\ policy.filters \/ new.filter = ui.q.filter
        /\ policy.windows \/ new.window = "ok"
        /\ new # ui.q /\ Still
    BY DEF SetQuery, Still
  <1>3. policy.filters \in BOOLEAN /\ policy.windows \in BOOLEAN /\ policy.eager \in BOOLEAN
    BY <1>1 DEF PolicyOK
  <1>4. policy.filters \/ policy.windows
    <2> SUFFICES ASSUME ~policy.filters, ~policy.windows PROVE FALSE
      BY <1>3
    <2>1. new.filter = ui.q.filter /\ new.window = ui.q.window
      BY <1>1, <1>2
    <2>2. new = ui.q
      BY <1>1, <2>1 DEF Query
    <2> QED
      BY <1>2, <2>2
  <1> DEFINE sends == policy.eager /\ new.window # "bad" /\ ~Typing(new)
  <1>5. CASE sends
    <2> DEFINE u == [ui EXCEPT !.q = new]
    <2>1. SendLoad(u, pending, policy.starts)
      BY <1>5 DEF SetQuery
    <2>2. /\ u \in UI /\ u.q = new /\ u.applied = ui.applied /\ u.shown = ui.shown
          /\ u.cursor = ui.cursor /\ u.loading = ui.loading /\ u.more = ui.more
      BY <1>1 DEF UI
    <2> HIDE DEF u
    <2>3. Sends(u, pending, policy.starts)
      BY <1>1, <2>1, <2>2, SendFacts
    <2>4. SameBut(u)
      BY <2>2 DEF SameBut, Shell
    <2> QED
      BY <1>2, <1>4, <1>5, <2>2, <2>3, <2>4 DEF AsksLoad
  <1>6. CASE ~sends
    <2> DEFINE sh == IF "dropData" \in policy.starts THEN <<>> ELSE ui.shown
               arm == ui.armed \/ policy.poll = "ends"
               u == [ui EXCEPT !.q = new, !.armed = arm, !.shown = sh]
    <2>1. ui' = u /\ pending' = pending
      BY <1>6 DEF SetQuery
    <2>2. sh \in Seq(Chunk) /\ arm \in BOOLEAN
      BY <1>1, EmptySeq DEF UI
    <2> HIDE DEF sh, arm
    <2>3. /\ u \in UI /\ u.q = new /\ u.applied = ui.applied /\ u.shown = sh
          /\ u.cursor = ui.cursor /\ u.loading = ui.loading /\ u.more = ui.more
      BY <1>1, <2>2 DEF UI
    <2> HIDE DEF u
    <2>4. Shell(ui') /\ ui'.q = new /\ ui'.shown = sh
      BY <2>1, <2>3 DEF Shell
    <2>5. policy.eager => new.window # "ok"
      BY <1>6 DEF Typing
    <2> QED
      BY <1>2, <1>4, <2>1, <2>4, <2>5 DEF AsksNothing, sh
  <1> QED
    BY <1>5, <1>6

\* The user or the timer asks for the same query again.
LEMMA ReloadForm ==
    ASSUME PagesAssumption, Base, Refresh \/ Poll
    PROVE  AsksLoad
  <1>1. /\ PolicyOK(policy) /\ ui \in UI /\ pending \in Seq(Req)
        /\ (~policy.windows => ui.q.window = "ok")
    BY BaseFacts
  <1>2. SameBut(ui)
    BY <1>1 DEF SameBut, Shell
  <1>3. CASE Refresh
    <2>1. ui.q.window # "bad" /\ SendLoad(ui, pending, policy.starts \cup policy.reset) /\ Still
      BY <1>3 DEF Refresh, Still
    <2>2. Sends(ui, pending, policy.starts \cup policy.reset)
      BY <1>1, <2>1, SendFacts
    <2> QED
      BY <1>1, <1>2, <2>1, <2>2 DEF AsksLoad
  <1>4. CASE Poll
    <2>1. policy.poll # "none" /\ SendLoad(ui, pending, policy.starts) /\ Still
      BY <1>4 DEF Poll, Still
    <2>2. Sends(ui, pending, policy.starts)
      BY <1>1, <2>1, SendFacts
    <2>3. ui.q.window = "ok"
      BY <1>1, <2>1 DEF PolicyOK
    <2> QED
      BY <1>1, <1>2, <2>1, <2>2, <2>3 DEF AsksLoad
  <1> QED
    BY <1>3, <1>4

\* The next page is asked for.
LEMMA LoadMoreForm ==
    ASSUME PagesAssumption, Base, LoadMore
    PROVE  AsksMore
  <1> DEFINE old == IF policy.more = "guarded" THEN Superseded(pending) ELSE pending
             r == Request("more", ui, ui.cursor, "none", {})
             u == IF policy.shared THEN [ui EXCEPT !.loading = TRUE] ELSE [ui EXCEPT !.more = TRUE]
  <1>1. /\ PolicyOK(policy) /\ ui \in UI /\ pending \in Seq(Req) /\ ui.cursor \in 0..MaxPages
        /\ Len(pending) \in Nat /\ MaxPages \in Nat \ {0}
        /\ ui.loading \in BOOLEAN /\ ui.more \in BOOLEAN
    BY BaseFacts
  <1>2. /\ policy.more # "none" /\ ui.cursor # 0 /\ Still
        /\ (IF policy.shared THEN ~ui.loading ELSE ~ui.more)
        /\ ui' = u /\ pending' = Append(old, r)
    BY DEF LoadMore, Still
  <1>3. policy.shared \in BOOLEAN
    BY <1>1 DEF PolicyOK
  <1>4. IsNew(r, "more", ui, ui.cursor, "none", {})
    <2>1. ui.cursor \in 1..MaxPages /\ {} \in SUBSET Changes
      BY <1>1, <1>2
    <2> QED
      BY <1>1, <2>1, RequestFacts
  <1>5. /\ old \in Seq(Req) /\ Len(old) = Len(pending)
        /\ \A i \in 1..Len(pending) :
            /\ Same(old[i], pending[i]) /\ old[i].late = pending[i].late
            /\ IF policy.more = "guarded" THEN ~old[i].current ELSE old[i].current = pending[i].current
    <2>1. CASE policy.more = "guarded"
      BY <1>1, <2>1, SupersededFacts
    <2>2. CASE policy.more # "guarded"
      BY <1>1, <2>2 DEF Same
    <2> QED
      BY <2>1, <2>2
  <1>6. /\ u \in UI /\ u.q = ui.q /\ u.applied = ui.applied /\ u.shown = ui.shown
        /\ u.cursor = ui.cursor
        /\ u.loading = (ui.loading \/ policy.shared) /\ u.more = (ui.more \/ ~policy.shared)
    <2>1. CASE policy.shared
      BY <1>1, <2>1 DEF UI
    <2>2. CASE ~policy.shared
      BY <1>1, <2>2 DEF UI
    <2> QED
      BY <1>3, <2>1, <2>2
  <1> HIDE DEF old, r, u
  <1>7. r \in Req
    BY <1>4 DEF IsNew
  <1>8. /\ pending' \in Seq(Req) /\ Len(pending') = Len(pending) + 1
        /\ pending'[Len(pending) + 1] = r
        /\ \A i \in 1..Len(pending) : pending'[i] = old[i]
    BY <1>2, <1>5, <1>7, AppendFacts
  <1> QED
    BY <1>2, <1>4, <1>5, <1>6, <1>8 DEF AsksMore

\* A change is asked for.
LEMMA ChangeForm ==
    ASSUME PagesAssumption, Base, NEW c \in Changes, NEW how \in policy.change, Change(c, how)
    PROVE  AsksChange
  <1> DEFINE r == Request("change", ui, 1, how, {c})
             u == IF policy.tells /\ how = "refetch" THEN [ui EXCEPT !.error = FALSE] ELSE ui
  <1>1. /\ PolicyOK(policy) /\ ui \in UI /\ pending \in Seq(Req) /\ MaxPages \in Nat \ {0}
    BY BaseFacts
  <1>2. Still /\ ui' = u /\ pending' = Append(pending, r)
    BY DEF Change, Still
  <1>3. how \in {"none", "refetch", "patch", "answer"} /\ {c} \in SUBSET Changes /\ 1 \in 1..MaxPages
    BY <1>1 DEF PolicyOK
  <1>4. IsNew(r, "change", ui, 1, how, {c})
    BY <1>1, <1>3, RequestFacts
  <1>5. u = ui \/ u = [ui EXCEPT !.error = FALSE]
    OBVIOUS
  <1>6. /\ [ui EXCEPT !.error = FALSE] \in UI
        /\ SameBut([ui EXCEPT !.error = FALSE]) /\ [ui EXCEPT !.error = FALSE].q = ui.q
    BY <1>1 DEF UI, SameBut, Shell
  <1>7. SameBut(ui)
    BY <1>1 DEF SameBut, Shell
  <1> HIDE DEF r, u
  <1>8. SameBut(ui') /\ ui'.q = ui.q
    BY <1>2, <1>5, <1>6, <1>7
  <1>9. r \in Req
    BY <1>4 DEF IsNew
  <1>10. /\ pending' \in Seq(Req) /\ Len(pending') = Len(pending) + 1
         /\ pending'[Len(pending) + 1] = r
         /\ \A i \in 1..Len(pending) : pending'[i] = pending[i]
    BY <1>1, <1>2, <1>9, AppendFacts
  <1> QED
    BY <1>2, <1>3, <1>4, <1>8, <1>10 DEF AsksChange

\* A page of rows is added to a request.
LEMMA ServedFacts ==
    ASSUME PagesAssumption, NEW r \in Req, NEW content \in SUBSET Changes, NEW lost \in BOOLEAN,
           policy.whole \in BOOLEAN
    PROVE  LET t == Served(r, content, lost)
           IN  /\ t \in Req
               /\ t.kind = r.kind /\ t.q = r.q /\ t.current = r.current /\ t.late = r.late
               /\ t.how = r.how /\ t.change = r.change
               /\ t.page = (IF r.page < MaxPages THEN r.page + 1 ELSE r.page)
               /\ t.done = (~policy.whole \/ r.kind = "change" \/ r.page = MaxPages)
               /\ Len(t.got) = Len(r.got) + 1 /\ t.got # <<>>
               /\ \A j \in 1..Len(r.got) : t.got[j] = r.got[j]
               /\ t.got[Len(r.got) + 1] = [q |-> r.q, page |-> r.page, content |-> content, lost |-> lost]
  <1> DEFINE c == [q |-> r.q, page |-> r.page, content |-> content, lost |-> lost]
             g == Append(r.got, c)
             p == IF r.page < MaxPages THEN r.page + 1 ELSE r.page
             d == ~policy.whole \/ r.kind = "change" \/ r.page = MaxPages
             t == Served(r, content, lost)
  <1>1. r.q \in Query /\ r.page \in 1..MaxPages /\ r.got \in Seq(Chunk)
    BY DEF Req
  <1>2. c \in Chunk
    BY <1>1 DEF Chunk
  <1>3. p \in 1..MaxPages
    BY <1>1 DEF PagesAssumption
  <1>4. d \in BOOLEAN
    OBVIOUS
  <1>5. t = [r EXCEPT !.got = g, !.page = p, !.done = d]
    BY DEF Served
  <1> HIDE DEF c
  <1>6. /\ g \in Seq(Chunk) /\ Len(g) = Len(r.got) + 1 /\ Len(r.got) \in Nat
        /\ g[Len(r.got) + 1] = c /\ \A j \in 1..Len(r.got) : g[j] = r.got[j]
    BY <1>1, <1>2, AppendFacts
  <1> HIDE DEF g
  <1>7. g # <<>>
    BY <1>6
  <1> HIDE DEF p, d
  <1>8. t \in Req
    BY <1>3, <1>4, <1>5, <1>6 DEF Req
  <1>9. /\ t.kind = r.kind /\ t.q = r.q /\ t.current = r.current /\ t.late = r.late
        /\ t.how = r.how /\ t.change = r.change /\ t.page = p /\ t.done = d /\ t.got = g
    BY <1>5 DEF Req
  <1> HIDE DEF t
  <1>10. /\ t \in Req
         /\ t.kind = r.kind /\ t.q = r.q /\ t.current = r.current /\ t.late = r.late
         /\ t.how = r.how /\ t.change = r.change
         /\ t.page = (IF r.page < MaxPages THEN r.page + 1 ELSE r.page)
         /\ t.done = (~policy.whole \/ r.kind = "change" \/ r.page = MaxPages)
    BY <1>8, <1>9 DEF p, d
  <1>11. /\ Len(t.got) = Len(r.got) + 1 /\ t.got # <<>>
         /\ \A j \in 1..Len(r.got) : t.got[j] = r.got[j]
         /\ t.got[Len(r.got) + 1] = c
    BY <1>6, <1>7, <1>9
  <1> QED
    BY <1>10, <1>11 DEF t, c

LEMMA ServeForm ==
    ASSUME PagesAssumption, Base, NEW i \in 1..Len(pending), Serve(i) \/ LosePart(i)
    PROVE  ServesOne(i)
  <1>1. /\ pending \in Seq(Req) /\ pending[i] \in Req /\ server \in SUBSET Changes
        /\ PolicyOK(policy) /\ RequestOK(pending[i])
    BY BaseFacts
  <1>2. PICK lost \in BOOLEAN :
        /\ UNCHANGED <<page, ui, acked, excuse>> /\ ~pending[i].done
        /\ server' = server \cup pending[i].change
        /\ pending' = [pending EXCEPT ![i] = Served(pending[i], server', lost)]
        /\ lost => pending[i].kind = "load" /\ policy.swallows
    <2>1. CASE Serve(i)
      BY <2>1 DEF Serve
    <2>2. CASE LosePart(i)
      <3>1. pending[i].kind = "load" /\ server' = server
        BY <2>2 DEF LosePart
      <3>2. server' = server \cup pending[i].change
        BY <1>1, <3>1 DEF RequestOK
      <3>3. pending' = [pending EXCEPT ![i] = Served(pending[i], server', TRUE)]
        BY <2>2, <3>1 DEF LosePart
      <3> QED
        BY <2>2, <3>2, <3>3 DEF LosePart
    <2> QED
      BY <2>1, <2>2
  <1> DEFINE t == Served(pending[i], server', lost)
  <1>3. server' \in SUBSET Changes
    BY <1>1, <1>2 DEF Req
  <1>4. policy.whole \in BOOLEAN
    BY <1>1 DEF PolicyOK
  <1>5. /\ t \in Req
        /\ t.kind = pending[i].kind /\ t.q = pending[i].q /\ t.current = pending[i].current
        /\ t.late = pending[i].late /\ t.how = pending[i].how /\ t.change = pending[i].change
        /\ t.page = (IF pending[i].page < MaxPages THEN pending[i].page + 1 ELSE pending[i].page)
        /\ t.done = (~policy.whole \/ pending[i].kind = "change" \/ pending[i].page = MaxPages)
        /\ Len(t.got) = Len(pending[i].got) + 1 /\ t.got # <<>>
        /\ \A j \in 1..Len(pending[i].got) : t.got[j] = pending[i].got[j]
        /\ t.got[Len(pending[i].got) + 1] =
                [q |-> pending[i].q, page |-> pending[i].page, content |-> server', lost |-> lost]
    BY <1>1, <1>3, <1>4, ServedFacts
  <1>6. pending' = [pending EXCEPT ![i] = t]
    BY <1>2
  <1> HIDE DEF t
  <1>7. /\ pending' \in Seq(Req) /\ Len(pending') = Len(pending) /\ pending'[i] = t
        /\ \A k \in 1..Len(pending) : k # i => pending'[k] = pending[k]
    BY <1>1, <1>5, <1>6, ExceptSeq
  <1> QED
    BY <1>2, <1>3, <1>5, <1>7 DEF ServesOne

\* The cursor after an answer.
LEMMA CursorFacts ==
    ASSUME PagesAssumption, NEW got \in Seq(Chunk), got # <<>>
    PROVE  NextCursor(got) \in 0..MaxPages
  <1>1. Len(got) \in Nat /\ 1 \in 1..Len(got) /\ \A j \in 1..Len(got) : got[j] \in Chunk
    BY SeqFacts
  <1>2. Len(got) \in 1..Len(got)
    BY <1>1
  <1>3. got[Len(got)].page \in 1..MaxPages
    BY <1>1, <1>2 DEF Chunk
  <1> QED
    BY <1>3 DEF NextCursor, PagesAssumption

\* The answer of a load.
LEMMA LoadAnsweredForm ==
    ASSUME PagesAssumption, Base, NEW i \in 1..Len(pending), LoadAnswered(i)
    PROVE  AppliesLoad(i) \/ Ignores(i)
  <1>1. /\ pending \in Seq(Req) /\ pending[i] \in Req /\ RequestOK(pending[i]) /\ ui \in UI
        /\ ui.armed \in BOOLEAN
    BY BaseFacts
  <1>2. pending[i].kind = "load" /\ pending[i].done /\ UNCHANGED <<page, server, acked, failures>>
    BY DEF LoadAnswered
  <1>3. CASE Accepted(pending[i])
    <2> DEFINE got == pending[i].got
               cur == NextCursor(got)
               arm == Rearmed(pending[i])
               u == [ui EXCEPT !.shown = got, !.cursor = cur, !.loading = FALSE, !.armed = arm]
    <2>1. /\ ui' = u /\ pending' = Overtaken(i)
          /\ excuse' = After(pending[i])
      BY <1>3 DEF LoadAnswered
    <2>2. got \in Seq(Chunk) /\ got # <<>>
      BY <1>1, <1>2 DEF Req, RequestOK
    <2>3. cur \in 0..MaxPages
      BY <2>2, CursorFacts
    <2>4. arm \in BOOLEAN
      BY <1>1 DEF Rearmed
    <2> HIDE DEF got, cur, arm
    <2>5. /\ u \in UI /\ u.q = ui.q /\ u.applied = ui.applied /\ u.more = ui.more
          /\ u.shown = got /\ u.cursor = cur /\ ~u.loading
      BY <1>1, <2>2, <2>3, <2>4 DEF UI
    <2> HIDE DEF u
    <2>6. Leaves(pending', i) /\ Overtakes(pending', i)
      BY <1>1, <2>1, OvertakenFacts
    <2>7. AppliesLoad(i)
      BY <1>2, <1>3, <2>1, <2>5, <2>6 DEF AppliesLoad, got, cur
    <2> QED
      BY <2>7
  <1>4. CASE ~Accepted(pending[i])
    <2>1. pending' = Without(i) /\ UNCHANGED <<ui, excuse>>
      BY <1>4 DEF LoadAnswered
    <2>2. /\ Leaves(pending', i)
          /\ \A j \in 1..Len(pending') : pending'[j].late = pending[Old(i, j)].late
      BY <1>1, <2>1, WithoutFacts
    <2> QED
      BY <1>2, <1>4, <2>1, <2>2 DEF Ignores, Still
  <1> QED
    BY <1>3, <1>4

\* The answer of load more.
LEMMA MoreAnsweredForm ==
    ASSUME PagesAssumption, Base, NEW i \in 1..Len(pending), MoreAnswered(i)
    PROVE  AppliesMore(i) \/ Ignores(i)
  <1>1. /\ pending \in Seq(Req) /\ pending[i] \in Req /\ RequestOK(pending[i]) /\ ui \in UI
        /\ ui.loading \in BOOLEAN /\ ui.more \in BOOLEAN /\ ui.shown \in Seq(Chunk) /\ PolicyOK(policy)
    BY BaseFacts
  <1>2. pending[i].kind = "more" /\ pending[i].done /\ UNCHANGED <<page, server, acked, failures>>
    BY DEF MoreAnswered
  <1>3. CASE Accepted(pending[i])
    <2> DEFINE got == pending[i].got
               all == ui.shown \o got
               cur == NextCursor(got)
               a == ui.loading /\ ~policy.shared
               b == ui.more /\ policy.shared
               u == [ui EXCEPT !.shown = all, !.cursor = cur, !.loading = a, !.more = b]
    <2>1. /\ ui' = u /\ pending' = Overtaken(i)
          /\ IF pending[i].late THEN excuse' = "late"
             ELSE IF pending[i].q # ui.applied THEN excuse' = "mixed" ELSE excuse' = excuse
      BY <1>3 DEF MoreAnswered
    <2>2. got \in Seq(Chunk) /\ got # <<>>
      BY <1>1, <1>2 DEF Req, RequestOK
    <2>3. cur \in 0..MaxPages
      BY <2>2, CursorFacts
    <2>4. all \in Seq(Chunk)
      BY <1>1, <2>2, ConcatProperties
    <2>5. policy.shared \in BOOLEAN
      BY <1>1 DEF PolicyOK
    <2>6. a \in BOOLEAN /\ b \in BOOLEAN
      BY <1>1, <2>5
    <2> HIDE DEF got, cur, all, a, b
    <2>7. /\ u \in UI /\ u.q = ui.q /\ u.applied = ui.applied
          /\ u.shown = all /\ u.cursor = cur /\ u.loading = a /\ u.more = b
      BY <1>1, <2>3, <2>4, <2>6 DEF UI
    <2> HIDE DEF u
    <2>8. Leaves(pending', i) /\ Overtakes(pending', i)
      BY <1>1, <2>1, OvertakenFacts
    <2>9. AppliesMore(i)
      BY <1>2, <1>3, <2>1, <2>7, <2>8 DEF AppliesMore, got, cur, all, a, b
    <2> QED
      BY <2>9
  <1>4. CASE ~Accepted(pending[i])
    <2>1. pending' = Without(i) /\ UNCHANGED <<ui, excuse>>
      BY <1>4 DEF MoreAnswered
    <2>2. /\ Leaves(pending', i)
          /\ \A j \in 1..Len(pending') : pending'[j].late = pending[Old(i, j)].late
      BY <1>1, <2>1, WithoutFacts
    <2> QED
      BY <1>2, <1>4, <2>1, <2>2 DEF Ignores, Still
  <1> QED
    BY <1>3, <1>4

\* The rows on the screen with a change made to them.
LEMMA PatchedFacts ==
    ASSUME NEW shown \in Seq(Chunk), NEW c \in SUBSET Changes
    PROVE  /\ Patched(shown, c) \in Seq(Chunk) /\ Len(Patched(shown, c)) = Len(shown)
           /\ \A j \in 1..Len(shown) :
                /\ Patched(shown, c)[j].q = shown[j].q /\ Patched(shown, c)[j].page = shown[j].page
                /\ Patched(shown, c)[j].content = shown[j].content \cup c
                /\ Patched(shown, c)[j].lost = shown[j].lost
  <1> DEFINE F(r) == [r EXCEPT !.content = r.content \cup c]
  <1>1. Len(shown) \in Nat /\ DOMAIN shown = 1..Len(shown) /\ \A j \in 1..Len(shown) : shown[j] \in Chunk
    BY SeqFacts
  <1>2. Patched(shown, c) = [j \in 1..Len(shown) |-> F(shown[j])]
    BY <1>1 DEF Patched
  <1>3. ASSUME NEW r \in Chunk
        PROVE  /\ F(r) \in Chunk /\ F(r).q = r.q /\ F(r).page = r.page
               /\ F(r).content = r.content \cup c /\ F(r).lost = r.lost
    BY DEF Chunk
  <1> HIDE DEF F
  <1>4. Patched(shown, c) \in [1..Len(shown) -> Chunk]
    BY <1>1, <1>2, <1>3
  <1>5. Patched(shown, c) \in Seq(Chunk) /\ Len(Patched(shown, c)) = Len(shown)
    BY <1>1, <1>4, FunctionIsSeq
  <1>6. \A j \in 1..Len(shown) : Patched(shown, c)[j] = F(shown[j])
    BY <1>2
  <1> QED
    BY <1>1, <1>3, <1>5, <1>6

\* A change is acknowledged.
LEMMA ChangeAnsweredForm ==
    ASSUME PagesAssumption, Base, NEW i \in 1..Len(pending), ChangeAnswered(i)
    PROVE  Acknowledges(i)
  <1>1. /\ pending \in Seq(Req) /\ pending[i] \in Req /\ RequestOK(pending[i]) /\ ui \in UI
        /\ ui.shown \in Seq(Chunk) /\ PolicyOK(policy) /\ acked \in SUBSET Changes
    BY BaseFacts
  <1>2. /\ pending[i].kind = "change" /\ pending[i].done /\ UNCHANGED <<page, server>>
        /\ acked' = acked \cup pending[i].change /\ Show(i)
    BY DEF ChangeAnswered
  <1>3. pending[i].change \in SUBSET Changes /\ pending[i].got \in Seq(Chunk)
    BY <1>1 DEF Req
  <1>4. acked' \in SUBSET Changes
    BY <1>1, <1>2, <1>3
  <1>5. pending[i].how \in {"refetch", "patch", "answer"}
    BY <1>1, <1>2 DEF RequestOK, PolicyOK
  <1>6. CASE pending[i].how = "refetch"
    <2>1. SendLoad(ui, Overtaken(i), policy.starts) /\ UNCHANGED excuse
      BY <1>2, <1>6 DEF Show
    <2>2. Overtaken(i) \in Seq(Req)
      BY <1>1, OvertakenFacts DEF Leaves
    <2>3. Sends(ui, Overtaken(i), policy.starts)
      BY <1>1, <2>1, <2>2, SendFacts
    <2> QED
      BY <1>2, <1>4, <2>1, <2>3 DEF Acknowledges
  <1>7. CASE pending[i].how = "patch"
    <2> DEFINE sh == Patched(ui.shown, pending[i].change)
               u == [ui EXCEPT !.shown = sh]
    <2>1. ui' = u /\ pending' = Overtaken(i) /\ UNCHANGED excuse
      BY <1>2, <1>7 DEF Show
    <2>2. /\ sh \in Seq(Chunk) /\ Len(sh) = Len(ui.shown)
          /\ \A j \in 1..Len(ui.shown) :
                /\ sh[j].q = ui.shown[j].q /\ sh[j].page = ui.shown[j].page
                /\ sh[j].content = ui.shown[j].content \cup pending[i].change
                /\ sh[j].lost = ui.shown[j].lost
      BY <1>1, <1>3, PatchedFacts
    <2> HIDE DEF sh
    <2>3. /\ u \in UI /\ u.q = ui.q /\ u.applied = ui.applied /\ u.shown = sh
          /\ u.cursor = ui.cursor /\ u.loading = ui.loading /\ u.more = ui.more
      BY <1>1, <2>2 DEF UI
    <2> HIDE DEF u
    <2>4. Shell(ui') /\ ui'.q = ui.q /\ ui'.shown = sh
      BY <2>1, <2>3 DEF Shell
    <2> QED
      BY <1>2, <1>4, <2>1, <2>2, <2>4 DEF Acknowledges
  <1>8. CASE pending[i].how = "answer"
    <2> DEFINE u == [ui EXCEPT !.shown = pending[i].got]
    <2>1. ui' = u /\ pending' = Overtaken(i) /\ excuse' = IF pending[i].late THEN "late" ELSE "none"
      BY <1>2, <1>8 DEF Show
    <2>2. /\ u \in UI /\ u.q = ui.q /\ u.applied = ui.applied /\ u.shown = pending[i].got
          /\ u.cursor = ui.cursor /\ u.loading = ui.loading /\ u.more = ui.more
      BY <1>1, <1>3 DEF UI
    <2> HIDE DEF u
    <2>3. Shell(ui') /\ ui'.q = ui.q /\ ui'.shown = pending[i].got
      BY <2>1, <2>2 DEF Shell
    <2> QED
      BY <1>2, <1>4, <1>8, <2>1, <2>3 DEF Acknowledges
  <1> QED
    BY <1>5, <1>6, <1>7, <1>8

\* A request fails.
LEMMA FailForm ==
    ASSUME PagesAssumption, Base, NEW i \in 1..Len(pending), Fail(i)
    PROVE  Breaks(i) \/ Ignores(i)
  <1> DEFINE r == pending[i]
             heard == r.kind = "change" \/ Accepted(r)
             a == ui.error \/ (IF r.kind = "change" THEN policy.tells ELSE "report" \in policy.fails)
             b == ui.loading /\ r.kind # "load" /\ ~(r.kind = "more" /\ policy.shared)
             c == ui.more /\ r.kind # "more"
             d == IF r.kind = "load" /\ "dropCursor" \in policy.fails THEN 0 ELSE ui.cursor
             e == IF r.kind = "load" /\ "dropData" \in policy.fails THEN <<>> ELSE ui.shown
             u == [ui EXCEPT !.error = a, !.loading = b, !.more = c, !.cursor = d, !.shown = e]
  <1>1. /\ pending \in Seq(Req) /\ r \in Req /\ ui \in UI
        /\ ui.shown \in Seq(Chunk) /\ PolicyOK(policy) /\ ui.cursor \in 0..MaxPages
        /\ ui.error \in BOOLEAN /\ ui.loading \in BOOLEAN /\ ui.more \in BOOLEAN
        /\ MaxPages \in Nat \ {0}
    BY BaseFacts
  <1>2. /\ UNCHANGED <<page, server, acked>>
        /\ pending' = IF heard /\ r.kind = "load" THEN Overtaken(i) ELSE Without(i)
        /\ ui' = IF ~heard THEN ui ELSE u
        /\ excuse' = IF heard /\ r.kind = "load" THEN "failed" ELSE excuse
    BY DEF Fail
  <1>3. policy.shared \in BOOLEAN /\ policy.tells \in BOOLEAN
    BY <1>1 DEF PolicyOK
  <1>4. a \in BOOLEAN /\ b \in BOOLEAN /\ c \in BOOLEAN
    BY <1>1, <1>3
  <1>5. d \in 0..MaxPages /\ d \in {0, ui.cursor} /\ (r.kind # "load" => d = ui.cursor)
    BY <1>1
  <1>6. e \in Seq(Chunk) /\ (e = ui.shown \/ e = <<>>) /\ (r.kind # "load" => e = ui.shown)
    BY <1>1, EmptySeq
  <1> HIDE DEF a, b, c, d, e
  <1>7. /\ u \in UI /\ u.q = ui.q /\ u.applied = ui.applied
        /\ u.loading = b /\ u.more = c /\ u.cursor = d /\ u.shown = e
    BY <1>1, <1>4, <1>5, <1>6 DEF UI
  <1> HIDE DEF u, r
  <1>8. /\ Leaves(Without(i), i)
        /\ \A j \in 1..Len(Without(i)) : Without(i)[j].late = pending[Old(i, j)].late
        /\ Leaves(Overtaken(i), i) /\ Overtakes(Overtaken(i), i)
    BY <1>1, WithoutFacts, OvertakenFacts
  <1>9. CASE ~heard
    <2>1. pending' = Without(i) /\ ui' = ui /\ excuse' = excuse
      BY <1>2, <1>9
    <2> QED
      BY <1>2, <1>8, <1>9, <2>1 DEF Ignores, Still, r
  <1>10. CASE heard /\ r.kind = "load"
    <2>1. pending' = Overtaken(i) /\ ui' = u /\ excuse' = "failed"
      BY <1>2, <1>10
    <2>2. Breaks(i)
      BY <1>2, <1>5, <1>6, <1>7, <1>8, <1>10, <2>1 DEF Breaks, b, c, r
    <2> QED
      BY <2>2
  <1>11. CASE heard /\ r.kind # "load"
    <2>1. pending' = Without(i) /\ ui' = u /\ excuse' = excuse
      BY <1>2, <1>11
    <2>2. Breaks(i)
      BY <1>2, <1>5, <1>6, <1>7, <1>8, <1>11, <2>1 DEF Breaks, b, c, r
    <2> QED
      BY <2>2
  <1> QED
    BY <1>9, <1>10, <1>11

\* Every step has one of these forms.
LEMMA StepCases ==
    ASSUME PagesAssumption, Base, [Next]_vars
    PROVE  StepForms /\ failures' \in Nat
  <1>1. DOMAIN pending = 1..Len(pending) /\ server \in SUBSET Changes /\ failures \in Nat
    BY BaseFacts
  <1>2. CASE Refresh \/ Poll
    <2>1. AsksLoad
      BY <1>2, ReloadForm
    <2>2. failures' = failures
      BY <1>2 DEF Refresh, Poll
    <2> QED
      BY <1>1, <2>1, <2>2 DEF StepForms
  <1>3. ASSUME NEW new \in Query, SetQuery(new)
        PROVE  StepForms /\ failures' \in Nat
    <2>1. AsksLoad \/ AsksNothing
      BY <1>3, SetQueryForm
    <2>2. failures' = failures
      BY <1>3 DEF SetQuery
    <2> QED
      BY <1>1, <2>1, <2>2 DEF StepForms
  <1>4. CASE LoadMore
    <2>1. AsksMore
      BY <1>4, LoadMoreForm
    <2>2. failures' = failures
      BY <1>4 DEF LoadMore
    <2> QED
      BY <1>1, <2>1, <2>2 DEF StepForms
  <1>5. ASSUME NEW c \in Changes, ServerMoves(c)
        PROVE  StepForms /\ failures' \in Nat
    <2>1. Moves /\ failures' = failures
      BY <1>1, <1>5 DEF ServerMoves, Moves
    <2> QED
      BY <1>1, <2>1 DEF StepForms
  <1>6. ASSUME NEW c \in Changes, NEW how \in policy.change, Change(c, how)
        PROVE  StepForms /\ failures' \in Nat
    <2>1. AsksChange
      BY <1>6, ChangeForm
    <2>2. failures' = failures
      BY <1>6 DEF Change
    <2> QED
      BY <1>1, <2>1, <2>2 DEF StepForms
  <1>7. ASSUME NEW i \in 1..Len(pending), Serve(i)
        PROVE  StepForms /\ failures' \in Nat
    <2>1. ServesOne(i)
      BY <1>7, ServeForm
    <2>2. failures' = failures
      BY <1>7 DEF Serve
    <2> QED
      BY <1>1, <2>1, <2>2 DEF StepForms
  <1>8. ASSUME NEW i \in 1..Len(pending), Answer(i)
        PROVE  StepForms /\ failures' \in Nat
    <2>1. LoadAnswered(i) \/ MoreAnswered(i) \/ ChangeAnswered(i)
      BY <1>8 DEF Answer
    <2>2. AppliesLoad(i) \/ AppliesMore(i) \/ Ignores(i) \/ Acknowledges(i)
      BY <2>1, LoadAnsweredForm, MoreAnsweredForm, ChangeAnsweredForm
    <2>3. failures' = failures
      BY <2>1 DEF LoadAnswered, MoreAnswered, ChangeAnswered
    <2> QED
      BY <1>1, <2>2, <2>3 DEF StepForms
  <1>9. ASSUME NEW i \in 1..Len(pending), Fail(i)
        PROVE  StepForms /\ failures' \in Nat
    <2>1. Breaks(i) \/ Ignores(i)
      BY <1>9, FailForm
    <2>2. failures' = failures + 1
      BY <1>9 DEF Fail
    <2>3. failures' \in Nat
      BY <1>1, <2>2
    <2> QED
      BY <2>1, <2>3 DEF StepForms
  <1>11. ASSUME NEW i \in 1..Len(pending), LosePart(i)
         PROVE  StepForms /\ failures' \in Nat
    <2>1. ServesOne(i)
      BY <1>11, ServeForm
    <2>2. failures' = failures + 1
      BY <1>11 DEF LosePart
    <2>3. failures' \in Nat
      BY <1>1, <2>2
    <2> QED
      BY <2>1, <2>3 DEF StepForms
  <1>10. CASE UNCHANGED vars
    <2>1. Stutters /\ failures' = failures
      BY <1>10 DEF vars, Stutters
    <2> QED
      BY <1>1, <2>1 DEF StepForms
  <1> QED
    BY <1>1, <1>2, <1>3, <1>4, <1>5, <1>6, <1>7, <1>8, <1>9, <1>10, <1>11 DEF Next, Ask

-----------------------------------------------------------------------------
(* Types, and what was asked for *)

LEMMA SameOK ==
    ASSUME NEW r \in Req, NEW t \in Req, Same(r, t), RequestOK(t)
    PROVE  RequestOK(r)
  BY DEF Same, RequestOK

\* A request other than the one that ended is still there.
LEMMA LeftFacts ==
    ASSUME pending \in Seq(Req), NEW i \in 1..Len(pending), NEW p, Leaves(p, i)
    PROVE  /\ p \in Seq(Req) /\ Len(p) \in Nat /\ Len(p) = Len(pending) - 1
           /\ \A j \in 1..Len(p) : /\ p[j] \in Req /\ Old(i, j) \in 1..Len(pending) /\ Old(i, j) # i
                                   /\ Same(p[j], pending[Old(i, j)])
                                   /\ p[j].current = pending[Old(i, j)].current
                                   /\ pending[Old(i, j)].late => p[j].late
           /\ \A k \in 1..Len(pending) : k # i => \E j \in 1..Len(p) : Old(i, j) = k
           /\ \A j, k \in 1..Len(p) : j < k <=> Old(i, j) < Old(i, k)
           /\ \A j \in 1..Len(p) : j < i <=> Old(i, j) < i
  <1>1. Len(pending) \in Nat
    BY SeqFacts
  <1>2. p \in Seq(Req) /\ Len(p) = Len(pending) - 1
    BY DEF Leaves
  <1>3. Len(p) \in Nat /\ \A j \in 1..Len(p) : p[j] \in Req
    BY <1>2, SeqFacts
  <1>4. /\ \A j \in 1..Len(p) : Old(i, j) \in 1..Len(pending) /\ Old(i, j) # i
        /\ \A k \in 1..Len(pending) : k # i => \E j \in 1..Len(p) : Old(i, j) = k
        /\ \A j, k \in 1..Len(p) : j < k <=> Old(i, j) < Old(i, k)
        /\ \A j \in 1..Len(p) : j < i <=> Old(i, j) < i
    <2>1. /\ \A j \in 1..(Len(pending) - 1) : Old(i, j) \in 1..Len(pending) /\ Old(i, j) # i
          /\ \A k \in 1..Len(pending) : k # i => \E j \in 1..(Len(pending) - 1) : Old(i, j) = k
          /\ \A j, k \in 1..(Len(pending) - 1) : j < k <=> Old(i, j) < Old(i, k)
          /\ \A j \in 1..(Len(pending) - 1) : j < i <=> Old(i, j) < i
      BY <1>1, OldFacts
    <2> QED
      BY <1>2, <2>1, Zenon
  <1>5. \A j \in 1..Len(p) : /\ Same(p[j], pending[Old(i, j)])
                             /\ p[j].current = pending[Old(i, j)].current
                             /\ pending[Old(i, j)].late => p[j].late
    BY DEF Leaves
  <1> QED
    BY <1>2, <1>3, <1>4, <1>5

\* Where every request of the next state comes from.
LEMMA Origins ==
    ASSUME PagesAssumption, Base, StepForms
    PROVE  /\ page' = page /\ policy' = policy /\ ui' \in UI /\ pending' \in Seq(Req)
           /\ Len(pending') \in Nat
           /\ server' \in SUBSET Changes /\ acked' \in SUBSET Changes
           /\ excuse' \in Excuses
           /\ ~policy.windows => ui'.q.window = "ok"
           /\ \A j \in 1..Len(pending') : RequestOK(pending'[j])
  <1>1. /\ PolicyOK(policy) /\ ui \in UI /\ pending \in Seq(Req) /\ Len(pending) \in Nat
        /\ \A i \in 1..Len(pending) : pending[i] \in Req /\ RequestOK(pending[i])
        /\ server \in SUBSET Changes /\ acked \in SUBSET Changes
        /\ excuse \in Excuses
        /\ ~policy.windows => ui.q.window = "ok"
    BY BaseFacts
  <1> DEFINE All == \A j \in 1..Len(pending') : RequestOK(pending'[j])
  <1>2. ASSUME NEW u \in UI, NEW s \in Seq(Req), NEW resets, Sends(u, s, resets),
               \A k \in 1..Len(s) : RequestOK(s[k])
        PROVE  ui' \in UI /\ ui'.q = u.q /\ pending' \in Seq(Req) /\ All
    <2>1. ui' \in UI /\ ui'.q = u.q /\ pending' \in Seq(Req) /\ Len(s) \in Nat
      BY <1>2 DEF Sends
    <2>2. ASSUME NEW j \in 1..Len(pending') PROVE RequestOK(pending'[j])
      <3>1. CASE j \in 1..Len(s)
        BY <1>2, <2>1, <3>1, SameOK, SeqFacts DEF Sends
      <3>2. CASE j = Len(s) + 1
        BY <1>2, <3>2 DEF Sends, RequestOK
      <3> QED
        BY <1>2, <2>1, <3>1, <3>2 DEF Sends
    <2> QED
      BY <2>1, <2>2
  <1>3. ASSUME NEW i \in 1..Len(pending), NEW p, Leaves(p, i)
        PROVE  p \in Seq(Req) /\ \A j \in 1..Len(p) : RequestOK(p[j])
    <2>1. /\ p \in Seq(Req)
          /\ \A j \in 1..Len(p) : p[j] \in Req /\ Old(i, j) \in 1..Len(pending)
                                  /\ Same(p[j], pending[Old(i, j)])
      BY <1>1, <1>3, LeftFacts
    <2> QED
      BY <1>1, <2>1, SameOK
  <1> DEFINE Goal == /\ page' = page /\ ui' \in UI /\ pending' \in Seq(Req)
                     /\ server' \in SUBSET Changes /\ acked' \in SUBSET Changes
                     /\ excuse' \in Excuses
                     /\ ~policy.windows => ui'.q.window = "ok"
                     /\ All
  <1>4. ASSUME AsksLoad PROVE Goal
    <2>1. PICK u \in UI, resets \in {policy.starts, policy.starts \cup policy.reset} :
            /\ SameBut(u) /\ Sends(u, pending, resets)
            /\ policy.windows \/ u.q.window = "ok"
      BY <1>4 DEF AsksLoad
    <2> QED
      BY <1>1, <1>2, <1>4, <2>1 DEF AsksLoad, Still
  <1>5. ASSUME AsksNothing \/ Moves \/ Stutters PROVE Goal
    BY <1>1, <1>5 DEF AsksNothing, Moves, Stutters, Still, Shell, PolicyOK
  <1>6. ASSUME AsksMore PROVE Goal
    <2>1. All
      <3>1. /\ pending' \in Seq(Req) /\ Len(pending') = Len(pending) + 1
            /\ \A k \in 1..Len(pending) : Same(pending'[k], pending[k])
            /\ IsNew(pending'[Len(pending) + 1], "more", ui, ui.cursor, "none", {})
            /\ policy.more # "none"
        BY <1>6 DEF AsksMore
      <3>2. RequestOK(pending'[Len(pending) + 1])
        BY <3>1 DEF IsNew, RequestOK
      <3>3. \A k \in 1..Len(pending) : RequestOK(pending'[k])
        BY <1>1, <3>1, SameOK, SeqFacts
      <3> QED
        BY <1>1, <3>1, <3>2, <3>3
    <2> QED
      BY <1>1, <1>6, <2>1 DEF AsksMore, Still
  <1>7. ASSUME AsksChange PROVE Goal
    <2>1. All
      <3>1. /\ pending' \in Seq(Req) /\ Len(pending') = Len(pending) + 1
            /\ \A k \in 1..Len(pending) : pending'[k] = pending[k]
        BY <1>7 DEF AsksChange
      <3>2. RequestOK(pending'[Len(pending) + 1])
        BY <1>7 DEF AsksChange, IsNew, RequestOK
      <3> QED
        BY <1>1, <3>1, <3>2
    <2> QED
      BY <1>1, <1>7, <2>1 DEF AsksChange, Still, SameBut, Shell
  <1>8. ASSUME NEW i \in 1..Len(pending), ServesOne(i) PROVE Goal
    <2> DEFINE r == pending[i]
               t == pending'[i]
    <2>1. PICK lost \in BOOLEAN :
            /\ t.got[Len(r.got) + 1] = [q |-> r.q, page |-> r.page, content |-> server', lost |-> lost]
            /\ lost => r.kind = "load" /\ policy.swallows
      BY <1>8 DEF ServesOne
    <2>2. /\ t.kind = r.kind /\ t.how = r.how /\ t.change = r.change /\ t.got # <<>>
          /\ Len(t.got) = Len(r.got) + 1 /\ \A j \in 1..Len(r.got) : t.got[j] = r.got[j]
      BY <1>8 DEF ServesOne
    <2>3. RequestOK(r) /\ Len(r.got) \in Nat
      BY <1>1, SeqFacts DEF Req
    <2>4. t.got[Len(r.got) + 1].lost => r.kind = "load" /\ policy.swallows
      BY <2>1
    <2> HIDE DEF r, t
    <2>5. \A j \in 1..Len(t.got) : j \in 1..Len(r.got) \/ j = Len(r.got) + 1
      BY <2>2, <2>3
    <2>6. \A j \in 1..Len(t.got) : t.got[j].lost => t.kind = "load" /\ policy.swallows
      BY <2>2, <2>3, <2>4, <2>5 DEF RequestOK
    <2>7. RequestOK(t)
      BY <2>2, <2>3, <2>6 DEF RequestOK
    <2>8. RequestOK(pending'[i])
      BY <2>7 DEF t
    <2> QED
      BY <1>1, <1>8, <2>8 DEF ServesOne
  <1>9. ASSUME NEW i \in 1..Len(pending), AppliesLoad(i) \/ AppliesMore(i) \/ Ignores(i) \/ Breaks(i)
        PROVE  Goal
    <2>1. Leaves(pending', i)
      BY <1>9 DEF AppliesLoad, AppliesMore, Ignores, Breaks
    <2>2. pending' \in Seq(Req) /\ All
      BY <1>3, <2>1
    <2>3. page' = page /\ server' = server /\ acked' = acked /\ ui' \in UI /\ ui'.q = ui.q
      BY <1>1, <1>9 DEF AppliesLoad, AppliesMore, Ignores, Breaks, Still
    <2>4. excuse' \in Excuses
      BY <1>1, <1>9, AfterFacts DEF AppliesLoad, AppliesMore, Ignores, Breaks, Still, Excuses
    <2> QED
      BY <1>1, <2>2, <2>3, <2>4
  <1>10. ASSUME NEW i \in 1..Len(pending), Acknowledges(i) PROVE Goal
    <2>1. Overtaken(i) \in Seq(Req) /\ \A j \in 1..Len(Overtaken(i)) : RequestOK(Overtaken(i)[j])
      BY <1>1, <1>3, OvertakenFacts
    <2>2. CASE Sends(ui, Overtaken(i), policy.starts) /\ excuse' = excuse
      BY <1>1, <1>2, <1>10, <2>1, <2>2 DEF Acknowledges
    <2>3. CASE Shell(ui') /\ ui'.q = ui.q /\ pending' = Overtaken(i) /\ excuse' \in Excuses
      BY <1>1, <1>10, <2>1, <2>3 DEF Acknowledges, Shell
    <2> QED
      BY <1>1, <1>10, <2>2, <2>3 DEF Acknowledges, Excuses
  <1>11. Goal
    BY <1>4, <1>5, <1>6, <1>7, <1>8, <1>9, <1>10 DEF StepForms
  <1> QED
    BY <1>11, PolicyKept, SeqFacts

\* A part that was lost is missing until the next load.
LEMMA LostStep ==
    ASSUME PagesAssumption, Base, StepForms
    PROVE  LostInv'
  <1>1. /\ PolicyOK(policy) /\ pending \in Seq(Req) /\ ui.shown \in Seq(Chunk) /\ LostInv
        /\ \A i \in 1..Len(pending) : pending[i] \in Req /\ RequestOK(pending[i])
    BY BaseFacts
  <1>2. policy' = policy
    BY Origins
  <1>3. ASSUME ui'.shown = ui.shown \/ ui'.shown = <<>>, excuse' \in {excuse, "failed"}
        PROVE  LostInv'
    BY <1>1, <1>2, <1>3 DEF LostInv
  <1>4. ASSUME NEW u \in UI, NEW s \in Seq(Req), NEW resets, Sends(u, s, resets), u.shown = ui.shown,
               excuse' = excuse
        PROVE  LostInv'
    BY <1>3, <1>4 DEF Sends
  <1>5. CASE AsksLoad
    BY <1>1, <1>4, <1>5 DEF AsksLoad, SameBut, Still
  <1>6. CASE AsksNothing \/ AsksMore \/ AsksChange \/ Moves \/ Stutters
    BY <1>3, <1>6 DEF AsksNothing, AsksMore, AsksChange, SameBut, Moves, Stutters, Still
  <1>7. ASSUME NEW i \in 1..Len(pending), ServesOne(i) \/ Ignores(i) PROVE LostInv'
    BY <1>3, <1>7 DEF ServesOne, Ignores, Still
  <1>8. ASSUME NEW i \in 1..Len(pending), AppliesLoad(i) PROVE LostInv'
    <2>1. ui'.shown = pending[i].got /\ excuse' = After(pending[i]) /\ RequestOK(pending[i])
      BY <1>1, <1>8 DEF AppliesLoad
    <2>2. DOMAIN pending[i].got = 1..Len(pending[i].got)
      BY <1>1, SeqFacts DEF Req
    <2>3. \A j \in 1..Len(pending[i].got) : pending[i].got[j].lost => Lost(pending[i].got)
      BY <2>2 DEF Lost
    <2>4. \A j \in 1..Len(pending[i].got) : pending[i].got[j].lost => policy.swallows
      BY <2>1 DEF RequestOK
    <2> QED
      BY <1>2, <2>1, <2>3, <2>4, AfterFacts DEF LostInv
  <1>9. ASSUME NEW i \in 1..Len(pending), AppliesMore(i) PROVE LostInv'
    <2> DEFINE got == pending[i].got
    <2>1. ui'.shown = ui.shown \o got /\ pending[i].kind = "more" /\ RequestOK(pending[i])
      BY <1>1, <1>9 DEF AppliesMore
    <2>2. ~policy.swallows
      BY <1>1, <2>1 DEF RequestOK, PolicyOK
    <2>3. got \in Seq(Chunk)
      BY <1>1 DEF Req
    <2>4. /\ \A j \in 1..Len(got) : ~got[j].lost
          /\ \A j \in 1..Len(ui.shown) : ~ui.shown[j].lost
      BY <1>1, <2>1, <2>2 DEF RequestOK, LostInv
    <2> HIDE DEF got
    <2>5. Len(got) \in Nat /\ Len(ui.shown) \in Nat
      BY <1>1, <2>3, SeqFacts
    <2>6. /\ Len(ui'.shown) = Len(ui.shown) + Len(got)
          /\ \A j \in 1..(Len(ui.shown) + Len(got)) :
               ui'.shown[j] = IF j <= Len(ui.shown) THEN ui.shown[j] ELSE got[j - Len(ui.shown)]
      BY <1>1, <2>1, <2>3, ConcatProperties
    <2>7. ASSUME NEW j \in 1..Len(ui'.shown) PROVE ~ui'.shown[j].lost
      <3>1. CASE j <= Len(ui.shown)
        BY <2>4, <2>5, <2>6, <3>1
      <3>2. CASE ~(j <= Len(ui.shown))
        <4>1. j - Len(ui.shown) \in 1..Len(got) /\ ui'.shown[j] = got[j - Len(ui.shown)]
          BY <2>5, <2>6, <3>2
        <4> QED
          BY <2>4, <4>1
      <3> QED
        BY <3>1, <3>2
    <2> QED
      BY <2>7 DEF LostInv
  <1>10. ASSUME NEW i \in 1..Len(pending), Breaks(i) PROVE LostInv'
    BY <1>3, <1>10 DEF Breaks
  <1>11. ASSUME NEW i \in 1..Len(pending), Acknowledges(i) PROVE LostInv'
    <2>1. CASE excuse' = excuse /\ Sends(ui, Overtaken(i), policy.starts)
      <3>1. Overtaken(i) \in Seq(Req)
        BY <1>1, OvertakenFacts DEF Leaves
      <3> QED
        BY <1>4, <2>1, <3>1, BaseFacts
    <2>2. CASE /\ excuse' = excuse /\ Len(ui'.shown) = Len(ui.shown)
               /\ \A j \in 1..Len(ui.shown) : ui'.shown[j].lost = ui.shown[j].lost
      BY <1>1, <1>2, <2>2 DEF LostInv
    <2>3. CASE pending[i].how = "answer" /\ ui'.shown = pending[i].got
      <3>1. pending[i].kind = "change" /\ RequestOK(pending[i])
        BY <1>1, <1>11 DEF Acknowledges
      <3> QED
        BY <2>3, <3>1 DEF RequestOK, LostInv
    <2> QED
      BY <1>11, <2>1, <2>2, <2>3 DEF Acknowledges
  <1> QED
    BY <1>5, <1>6, <1>7, <1>8, <1>9, <1>10, <1>11 DEF StepForms

LEMMA BaseInit ==
    ASSUME PagesAssumption, Init
    PROVE  Base
  <1>1. page \in Components
    BY DEF Init, PagesAssumption
  <1>2. PolicyOK(policy)
    BY <1>1, PolicyFacts
  <1>3. First \in Query /\ First.window = "ok"
    BY DEF First, Query, PagesAssumption
  <1>4. policy.eager \in BOOLEAN
    BY <1>2 DEF PolicyOK
  <1> DEFINE a == policy.eager /\ "spinner" \in policy.starts
             b == policy.poll # "chain"
  <1>5. a \in BOOLEAN /\ b \in BOOLEAN
    BY <1>4
  <1>6. ui = [q |-> First, applied |-> First, shown |-> <<>>, cursor |-> 0, error |-> FALSE,
              loading |-> a, more |-> FALSE, armed |-> b]
    BY DEF Init
  <1> HIDE DEF a, b
  <1>7. ui \in UI /\ ui.q = First
    <2>1. <<>> \in Seq(Chunk) /\ 0 \in 0..MaxPages
      BY EmptySeq DEF PagesAssumption
    <2> QED
      BY <1>3, <1>5, <1>6, <2>1 DEF UI
  <1>8. pending \in Seq(Req) /\ \A i \in 1..Len(pending) : RequestOK(pending[i])
    <2> DEFINE r == Request("load", ui, 1, "none", {})
    <2>1. pending = IF policy.eager THEN <<r>> ELSE <<>>
      BY DEF Init
    <2>2. 1 \in 1..MaxPages
      BY DEF PagesAssumption
    <2>3. IsNew(r, "load", ui, 1, "none", {})
      BY <1>7, <2>2, RequestFacts
    <2> HIDE DEF r
    <2>4. r \in Req /\ RequestOK(r)
      BY <2>3 DEF IsNew, RequestOK
    <2>5. CASE policy.eager
      <3>1. pending = <<r>>
        BY <2>1, <2>5
      <3> QED
        BY <2>4, <3>1
    <2>6. CASE ~policy.eager
      BY <2>1, <2>6, EmptySeq
    <2> QED
      BY <2>5, <2>6
  <1>9. TypeInv
    BY <1>1, <1>7, <1>8 DEF TypeInv, Init, Excuses
  <1> QED
    BY <1>3, <1>6, <1>7, <1>8, <1>9 DEF Base, KindInv, WindowInv, LostInv

LEMMA BaseStep ==
    ASSUME PagesAssumption, Base, [Next]_vars
    PROVE  Base'
  <1>1. StepForms /\ failures' \in Nat
    BY StepCases
  <1>2. /\ page' = page /\ policy' = policy /\ ui' \in UI /\ pending' \in Seq(Req)
        /\ server' \in SUBSET Changes /\ acked' \in SUBSET Changes
        /\ excuse' \in Excuses
        /\ ~policy.windows => ui'.q.window = "ok"
        /\ \A j \in 1..Len(pending') : RequestOK(pending'[j])
    BY <1>1, Origins
  <1>3. TypeInv'
    BY <1>1, <1>2 DEF TypeInv, Base
  <1>4. KindInv'
    BY <1>2 DEF KindInv, RequestOK
  <1>5. WindowInv'
    BY <1>2 DEF WindowInv
  <1>6. LostInv'
    BY <1>1, LostStep
  <1> QED
    BY <1>3, <1>4, <1>5, <1>6 DEF Base

-----------------------------------------------------------------------------
(* Spinners *)

LEMMA SpinnerStep ==
    ASSUME PagesAssumption, Base, SpinnerInv, StepForms
    PROVE  SpinnerInv'
  <1>1. /\ PolicyOK(policy) /\ ui \in UI /\ pending \in Seq(Req) /\ Len(pending) \in Nat
        /\ \A i \in 1..Len(pending) : pending[i] \in Req /\ RequestOK(pending[i])
        /\ ui.loading \in BOOLEAN /\ ui.more \in BOOLEAN
    BY BaseFacts
  <1>2. policy' = policy
    BY Origins
  <1>3. /\ policy.guard \in BOOLEAN /\ policy.shared \in BOOLEAN
        /\ policy.shared => ~policy.guard /\ policy.more = "free"
        /\ policy.more = "guarded" =>
             policy.guard /\ {"spinner", "dropCursor", "stopMore"} \subseteq policy.starts
        /\ policy.more # "none" => policy.change = {}
    BY <1>1 DEF PolicyOK
  <1>4. LoadHasRequest /\ MoreHasRequest /\ LoadExcludesMore /\ SharedSpinner
    BY DEF SpinnerInv
  <1> DEFINE Turns(r) == /\ r.kind = "load" \/ (r.kind = "more" /\ policy.shared)
                         /\ policy.guard => r.current
             Extends(r) == r.kind = "more" /\ (policy.more = "guarded" => r.current)
  <1>5. SUFFICES /\ ui'.loading => \E i \in 1..Len(pending') : Turns(pending'[i])
                 /\ ui'.more => \E i \in 1..Len(pending') : Extends(pending'[i])
                 /\ policy.more = "guarded" /\ ui'.loading =>
                        /\ ui'.cursor = 0
                        /\ \A i \in 1..Len(pending') : pending'[i].kind = "more" => ~pending'[i].current
                 /\ policy.shared => ~ui'.more
    BY <1>2 DEF SpinnerInv, LoadHasRequest, MoreHasRequest, LoadExcludesMore, SharedSpinner
  <1> DEFINE L == ui'.loading => \E i \in 1..Len(pending') : Turns(pending'[i])
             M == ui'.more => \E i \in 1..Len(pending') : Extends(pending'[i])
             X == policy.more = "guarded" /\ ui'.loading =>
                        /\ ui'.cursor = 0
                        /\ \A i \in 1..Len(pending') : pending'[i].kind = "more" => ~pending'[i].current
             S == policy.shared => ~ui'.more
  <1>6. /\ ui.loading => \E i \in 1..Len(pending) : Turns(pending[i])
        /\ ui.more => \E i \in 1..Len(pending) : Extends(pending[i])
        /\ policy.more = "guarded" /\ ui.loading =>
               /\ ui.cursor = 0
               /\ \A i \in 1..Len(pending) : pending[i].kind = "more" => ~pending[i].current
        /\ policy.shared => ~ui.more
    BY <1>4 DEF LoadHasRequest, MoreHasRequest, LoadExcludesMore, SharedSpinner
  \* A load is sent: it is what the spinner waits for, and it stops the other.
  <1>7. ASSUME NEW u \in UI, NEW s \in Seq(Req), NEW resets, Sends(u, s, resets),
               policy.starts \subseteq resets, u.more = ui.more,
               ui.more => \E i \in 1..Len(s) : Extends(s[i])
        PROVE  L /\ M /\ X /\ S
    <2>1. /\ Len(s) \in Nat /\ Len(pending') = Len(s) + 1 /\ Len(s) + 1 \in 1..Len(pending')
          /\ \A i \in 1..Len(s) : i \in 1..Len(pending') /\ pending'[i].kind = s[i].kind /\ ~pending'[i].current
          /\ pending'[Len(s) + 1].kind = "load" /\ pending'[Len(s) + 1].current
          /\ ui'.more = (ui.more /\ "stopMore" \notin resets)
          /\ ui'.cursor = (IF "dropCursor" \in resets THEN 0 ELSE u.cursor)
      BY <1>7 DEF Sends, Same
    <2>2. L
      BY <2>1
    <2>3. M
      BY <1>3, <1>7, <2>1
    <2>4. X
      <3>1. policy.more = "guarded" => ui'.cursor = 0
        BY <1>3, <1>7, <2>1
      <3>2. \A i \in 1..Len(pending') : pending'[i].kind = "more" => ~pending'[i].current
        BY <2>1
      <3> QED
        BY <3>1, <3>2
    <2>5. S
      BY <1>6, <2>1
    <2> QED
      BY <2>2, <2>3, <2>4, <2>5
  <1>8. CASE AsksLoad
    <2>1. PICK u \in UI, resets \in {policy.starts, policy.starts \cup policy.reset} :
            SameBut(u) /\ Sends(u, pending, resets)
      BY <1>8 DEF AsksLoad
    <2>2. policy.starts \subseteq resets /\ u.more = ui.more
      BY <2>1 DEF SameBut, Shell
    <2> QED
      BY <1>1, <1>6, <1>7, <2>1, <2>2
  <1>9. CASE AsksNothing \/ Moves \/ Stutters
    <2>1. pending' = pending /\ ui'.loading = ui.loading /\ ui'.more = ui.more /\ ui'.cursor = ui.cursor
      BY <1>9 DEF AsksNothing, Shell, Moves, Stutters
    <2> QED
      BY <1>6, <2>1
  <1>10. CASE AsksMore
    <2> DEFINE n == Len(pending)
    <2>1. /\ Len(pending') = n + 1 /\ n + 1 \in 1..Len(pending') /\ ui.cursor # 0
          /\ \A i \in 1..n : i \in 1..Len(pending') /\ pending'[i].kind = pending[i].kind
          /\ policy.more # "guarded" => \A i \in 1..n : pending'[i].current = pending[i].current
          /\ pending'[n + 1].kind = "more" /\ pending'[n + 1].current
          /\ ui'.loading = (ui.loading \/ policy.shared) /\ ui'.more = (ui.more \/ ~policy.shared)
      BY <1>1, <1>10 DEF AsksMore, Same, IsNew
    <2> HIDE DEF n
    <2>2. policy.more = "guarded" => ~ui.loading /\ ~policy.shared
      BY <1>3, <1>6, <2>1
    <2>3. L
      BY <1>3, <1>6, <2>1, <2>2 DEF n
    <2>4. M
      BY <1>6, <2>1
    <2> QED
      BY <1>6, <2>1, <2>2, <2>3, <2>4
  <1>11. CASE AsksChange
    <2> DEFINE n == Len(pending)
    <2>1. /\ Len(pending') = n + 1
          /\ \A i \in 1..n : i \in 1..Len(pending') /\ pending'[i] = pending[i]
          /\ \A i \in 1..Len(pending') : i \in 1..n \/ pending'[i].kind = "change"
          /\ ui'.loading = ui.loading /\ ui'.more = ui.more /\ ui'.cursor = ui.cursor
      BY <1>1, <1>11 DEF AsksChange, IsNew, SameBut, Shell
    <2> HIDE DEF n
    <2>2. L /\ M
      BY <1>6, <2>1 DEF n
    <2>3. X /\ S
      BY <1>6, <2>1 DEF n
    <2> QED
      BY <2>2, <2>3
  <1>12. ASSUME NEW i \in 1..Len(pending), ServesOne(i) PROVE L /\ M /\ X /\ S
    <2>1. /\ Len(pending') = Len(pending) /\ ui' = ui
          /\ \A k \in 1..Len(pending) : pending'[k].kind = pending[k].kind /\ pending'[k].current = pending[k].current
      BY <1>12 DEF ServesOne
    <2> QED
      BY <1>6, <2>1
  \* Request i ends: what the others wait for is still under way.
  <1>13. ASSUME NEW i \in 1..Len(pending), NEW p, Leaves(p, i)
         PROVE  /\ \A k \in 1..Len(pending) : k # i /\ Turns(pending[k]) => \E j \in 1..Len(p) : Turns(p[j])
                /\ \A k \in 1..Len(pending) : k # i /\ Extends(pending[k]) => \E j \in 1..Len(p) : Extends(p[j])
                /\ (\A k \in 1..Len(pending) : pending[k].kind = "more" => ~pending[k].current)
                   => \A j \in 1..Len(p) : p[j].kind = "more" => ~p[j].current
    <2>1. \A j \in 1..Len(p) : /\ Old(i, j) \in 1..Len(pending) /\ p[j].kind = pending[Old(i, j)].kind
                               /\ p[j].current = pending[Old(i, j)].current
      BY <1>1, <1>13, LeftFacts DEF Same
    <2>2. \A k \in 1..Len(pending) : k # i => \E j \in 1..Len(p) : Old(i, j) = k
      BY <1>1, <1>13, LeftFacts
    <2>3. ASSUME NEW k \in 1..Len(pending), k # i
          PROVE  /\ Turns(pending[k]) => \E j \in 1..Len(p) : Turns(p[j])
                 /\ Extends(pending[k]) => \E j \in 1..Len(p) : Extends(p[j])
      <3>1. PICK j \in 1..Len(p) : Old(i, j) = k
        BY <2>2, <2>3
      <3>2. p[j].kind = pending[k].kind /\ p[j].current = pending[k].current
        BY <2>1, <3>1
      <3> QED
        BY <3>2
    <2>4. (\A k \in 1..Len(pending) : pending[k].kind = "more" => ~pending[k].current)
             => \A j \in 1..Len(p) : p[j].kind = "more" => ~p[j].current
      BY <2>1
    <2> HIDE DEF Turns, Extends
    <2> QED
      BY <2>3, <2>4
  <1>14. ASSUME NEW i \in 1..Len(pending), AppliesLoad(i) PROVE L /\ M /\ X /\ S
    <2>1. pending[i].kind = "load" /\ ~ui'.loading /\ ui'.more = ui.more /\ Leaves(pending', i)
      BY <1>14 DEF AppliesLoad
    <2> QED
      BY <1>6, <1>13, <2>1
  <1>15. ASSUME NEW i \in 1..Len(pending), AppliesMore(i) PROVE L /\ M /\ X /\ S
    <2>1. /\ pending[i].kind = "more" /\ Leaves(pending', i)
          /\ ui'.loading = (ui.loading /\ ~policy.shared) /\ ui'.more = (ui.more /\ policy.shared)
          /\ policy.more = "guarded" => pending[i].current
      BY <1>15 DEF AppliesMore, Accepted
    <2> QED
      BY <1>6, <1>13, <2>1
  <1>16. ASSUME NEW i \in 1..Len(pending), Ignores(i) PROVE L /\ M /\ X /\ S
    <2>1. ~Turns(pending[i]) /\ ~Extends(pending[i]) /\ Leaves(pending', i) /\ ui' = ui
      BY <1>3, <1>16 DEF Ignores, Accepted
    <2> QED
      BY <1>6, <1>13, <2>1
  <1>17. ASSUME NEW i \in 1..Len(pending), Acknowledges(i) PROVE L /\ M /\ X /\ S
    <2>1. pending[i].kind = "change" /\ policy.more = "none"
      BY <1>1, <1>3, <1>17 DEF Acknowledges, RequestOK
    <2>2. ~ui.more
      BY <1>1, <1>6, <2>1 DEF RequestOK
    <2>3. Leaves(Overtaken(i), i) /\ Overtaken(i) \in Seq(Req)
      BY <1>1, OvertakenFacts DEF Leaves
    <2>4. CASE Sends(ui, Overtaken(i), policy.starts)
      BY <1>1, <1>7, <2>2, <2>3, <2>4
    <2>5. CASE Shell(ui') /\ pending' = Overtaken(i)
      BY <1>3, <1>6, <1>13, <2>1, <2>2, <2>3, <2>5 DEF Shell
    <2> QED
      BY <1>17, <2>4, <2>5 DEF Acknowledges
  <1>18. ASSUME NEW i \in 1..Len(pending), Breaks(i) PROVE L /\ M /\ X /\ S
    <2>1. /\ Leaves(pending', i) /\ ui'.cursor \in {0, ui.cursor}
          /\ ui'.loading = (ui.loading /\ pending[i].kind # "load" /\ ~(pending[i].kind = "more" /\ policy.shared))
          /\ ui'.more = (ui.more /\ pending[i].kind # "more")
      BY <1>18 DEF Breaks
    <2>2. L
      BY <1>6, <1>13, <2>1
    <2>3. M
      BY <1>6, <1>13, <2>1
    <2>4. X
      BY <1>6, <1>13, <2>1
    <2> QED
      BY <1>6, <2>1, <2>2, <2>3, <2>4
  <1> QED
    BY <1>8, <1>9, <1>10, <1>11, <1>12, <1>14, <1>15, <1>16, <1>17, <1>18 DEF StepForms

LEMMA SpinnerInit ==
    ASSUME PagesAssumption, Init
    PROVE  SpinnerInv
  <1>1. Base
    BY BaseInit
  <1>2. policy.eager \in BOOLEAN
    BY <1>1, BaseFacts DEF PolicyOK
  <1> DEFINE a == policy.eager /\ "spinner" \in policy.starts
             b == policy.poll # "chain"
             r == Request("load", ui, 1, "none", {})
  <1>3. ui.loading = a /\ ~ui.more /\ ui.cursor = 0
    BY DEF Init
  <1>4. CASE policy.eager
    <2>1. pending = <<r>>
      BY <1>4 DEF Init
    <2>2. r.kind = "load" /\ r.current
      BY DEF Request
    <2> HIDE DEF r
    <2>3. Len(pending) = 1 /\ pending[1] = r
      BY <2>1
    <2>4. 1 \in 1..Len(pending) /\ \A i \in 1..Len(pending) : pending[i] = r
      BY <2>3
    <2> QED
      BY <1>3, <2>2, <2>4 DEF SpinnerInv, LoadHasRequest, MoreHasRequest, LoadExcludesMore, SharedSpinner
  <1>5. CASE ~policy.eager
    BY <1>3, <1>5 DEF SpinnerInv, LoadHasRequest, MoreHasRequest, LoadExcludesMore, SharedSpinner
  <1> QED
    BY <1>4, <1>5

LEMMA SpinnerImplies ==
    ASSUME PagesAssumption, Base, SpinnerInv
    PROVE  SpinnerHasRequest
  <1>1. DOMAIN pending = 1..Len(pending)
    BY BaseFacts
  <1> QED
    BY <1>1 DEF SpinnerInv, LoadHasRequest, MoreHasRequest, SpinnerHasRequest, Reads

\* A spinner is never left behind, whatever fails and whichever answers are
\* ignored: in every component a request is under way whose answer stops it.
THEOREM SpinnerAlwaysHasRequest == Spec => []SpinnerHasRequest
  <1>1. PagesAssumption
    BY PagesAssumption
  <1>2. Init => Base /\ SpinnerInv
    BY <1>1, BaseInit, SpinnerInit
  <1>3. Base /\ SpinnerInv /\ [Next]_vars => (Base /\ SpinnerInv)'
    BY <1>1, BaseStep, StepCases, SpinnerStep
  <1>4. Base /\ SpinnerInv => SpinnerHasRequest
    BY <1>1, SpinnerImplies
  <1> QED
    BY <1>2, <1>3, <1>4, PTL DEF Spec

-----------------------------------------------------------------------------
(* What the user changed *)

\* A request that ends takes no other load with it.
LEMMA ComingLeft ==
    ASSUME pending \in Seq(Req), NEW i \in 1..Len(pending), NEW p, Leaves(p, i),
           Coming, ~Eligible(pending[i])
    PROVE  \E j \in 1..Len(p) : Eligible(p[j])
  <1>1. PICK k \in 1..Len(pending) : Eligible(pending[k])
    BY DEF Coming
  <1>2. PICK j \in 1..Len(p) : Old(i, j) = k
    BY <1>1, LeftFacts
  <1>3. p[j].kind = pending[k].kind /\ p[j].current = pending[k].current
    BY <1>2, LeftFacts DEF Same
  <1> QED
    BY <1>1, <1>3 DEF Eligible

LEMMA ComingPrimed ==
    ASSUME policy' = policy
    PROVE  Coming' <=> \E j \in 1..Len(pending') : Eligible(pending'[j])
  BY DEF Coming, Eligible

\* A request knows of what the API had confirmed when it was carried out.
Informed(r, srv, ack) ==
    /\ r.got # <<>> => r.change \subseteq srv /\ Hold(r.got, r.change)
    /\ ~r.late => Hold(r.got, ack)

LEMMA NothingToHold ==
    ASSUME NEW r \in Req, r.got = <<>>, NEW srv, NEW ack
    PROVE  Informed(r, srv, ack)
  BY DEF Informed, Hold

LEMMA SameInformed ==
    ASSUME NEW r \in Req, NEW t \in Req, Same(r, t), t.late => r.late,
           NEW srv, NEW ack, Informed(t, srv, ack)
    PROVE  Informed(r, srv, ack)
  BY DEF Same, Informed

\* One more page of rows that holds the changes too.
LEMMA HoldGrows ==
    ASSUME NEW n \in Nat, NEW g, NEW h, Len(h) = n, Len(g) = n + 1, \A j \in 1..n : g[j] = h[j],
           NEW c, Hold(h, c), c \subseteq g[n + 1].content
    PROVE  Hold(g, c)
  <1> SUFFICES ASSUME NEW j \in 1..(n + 1) PROVE c \subseteq g[j].content
    BY DEF Hold
  <1>1. CASE j = n + 1
    BY <1>1
  <1>2. CASE j \in 1..n
    BY <1>2 DEF Hold
  <1> QED
    BY <1>1, <1>2

LEMMA OwnStep ==
    ASSUME PagesAssumption, Base, OwnInv, StepForms
    PROVE  OwnInv'
  <1>1. /\ PolicyOK(policy) /\ ui \in UI /\ pending \in Seq(Req) /\ Len(pending) \in Nat
        /\ \A i \in 1..Len(pending) : pending[i] \in Req /\ RequestOK(pending[i])
        /\ ui.shown \in Seq(Chunk)
    BY BaseFacts
  <1>2. policy' = policy /\ pending' \in Seq(Req) /\ Len(pending') \in Nat /\ ui' \in UI
    BY Origins
  <1>3. policy.more # "none" => policy.change = {}
    BY <1>1 DEF PolicyOK
  <1>4. /\ acked \subseteq server /\ (policy.more # "none" => acked = {})
        /\ \A i \in 1..Len(pending) : Informed(pending[i], server, acked)
        /\ excuse = "none" => Hold(ui.shown, acked) \/ Coming
    BY DEF OwnInv, AckedApplied, PagedUnchanged, ServedHolds, FreshHolds, ScreenHolds, Informed
  <1> DEFINE Loads == \E j \in 1..Len(pending') : Eligible(pending'[j])
             A == acked' \subseteq server' /\ (policy.more # "none" => acked' = {})
             R == \A j \in 1..Len(pending') : Informed(pending'[j], server', acked')
             C == excuse' = "none" => Hold(ui'.shown, acked') \/ Loads
  <1>5. SUFFICES A /\ R /\ C
    <2>1. Coming' <=> Loads
      BY <1>2, ComingPrimed
    <2>2. ServedHolds' /\ FreshHolds'
      BY DEF ServedHolds, FreshHolds, Informed, Hold
    <2>3. AckedApplied' /\ PagedUnchanged'
      BY <1>2 DEF AckedApplied, PagedUnchanged
    <2>4. ScreenHolds'
      BY <2>1 DEF ScreenHolds, Hold
    <2> QED
      BY <2>2, <2>3, <2>4 DEF OwnInv
  <1> HIDE DEF Loads
  \* A load is sent.
  <1>6. ASSUME NEW u \in UI, NEW s \in Seq(Req), NEW resets, Sends(u, s, resets),
               \A k \in 1..Len(s) : Informed(s[k], server', acked')
        PROVE  R /\ C
    <2>1. /\ Len(s) \in Nat /\ Len(pending') = Len(s) + 1 /\ Len(s) + 1 \in 1..Len(pending')
          /\ \A k \in 1..Len(s) : Same(pending'[k], s[k]) /\ pending'[k].late = s[k].late
          /\ pending'[Len(s) + 1].kind = "load" /\ pending'[Len(s) + 1].current
          /\ pending'[Len(s) + 1].got = <<>>
      BY <1>6 DEF Sends
    <2>2. \A k \in 1..Len(s) : s[k] \in Req
      BY SeqFacts
    <2>3. \A k \in 1..Len(pending') : pending'[k] \in Req
      BY <1>2, SeqFacts
    <2>4. Informed(pending'[Len(s) + 1], server', acked')
      BY <2>1, <2>3, NothingToHold
    <2>5. \A k \in 1..Len(s) : Informed(pending'[k], server', acked')
      <3> SUFFICES ASSUME NEW k \in 1..Len(s) PROVE Informed(pending'[k], server', acked')
        OBVIOUS
      <3>1. k \in 1..Len(pending')
        BY <2>1
      <3> QED
        BY <1>6, <2>1, <2>2, <2>3, <3>1, SameInformed
    <2>6. R
      BY <2>1, <2>4, <2>5
    <2>7. Loads
      BY <2>1 DEF Loads, Eligible
    <2> QED
      BY <2>6, <2>7
  <1>7. ASSUME NEW i \in 1..Len(pending), NEW p, Leaves(p, i), NEW srv, NEW ack,
               NEW j \in 1..Len(p), Informed(pending[Old(i, j)], srv, ack)
        PROVE  Informed(p[j], srv, ack)
    <2>1. /\ p[j] \in Req /\ Old(i, j) \in 1..Len(pending) /\ Same(p[j], pending[Old(i, j)])
          /\ pending[Old(i, j)].late => p[j].late
      BY <1>1, <1>7, LeftFacts
    <2> QED
      BY <1>1, <1>7, <2>1, SameInformed
  <1>8. CASE AsksLoad
    <2>1. PICK u \in UI, resets \in {policy.starts, policy.starts \cup policy.reset} :
            Sends(u, pending, resets)
      BY <1>8 DEF AsksLoad
    <2>2. server' = server /\ acked' = acked
      BY <1>8 DEF AsksLoad, Still
    <2>3. R /\ C
      BY <1>1, <1>4, <1>6, <2>1, <2>2
    <2> QED
      BY <1>4, <2>2, <2>3
  <1>9. CASE AsksNothing \/ Moves \/ Stutters
    <2>1. /\ pending' = pending /\ acked' = acked /\ server \subseteq server' /\ excuse' = excuse
          /\ ui'.shown = ui.shown \/ ui'.shown = <<>>
      BY <1>9 DEF AsksNothing, Moves, Stutters, Still
    <2>2. R
      BY <1>4, <2>1 DEF Informed
    <2>3. Coming => Loads
      BY <2>1 DEF Coming, Loads
    <2>4. Hold(ui.shown, acked) => Hold(ui'.shown, acked)
      BY <2>1 DEF Hold
    <2> QED
      BY <1>4, <2>1, <2>2, <2>3, <2>4
  <1>10. CASE AsksMore
    <2>1. /\ Len(pending') = Len(pending) + 1 /\ policy.more # "none"
          /\ \A i \in 1..Len(pending) : Same(pending'[i], pending[i]) /\ pending'[i].late = pending[i].late
          /\ pending'[Len(pending) + 1].got = <<>>
          /\ server' = server /\ acked' = acked
      BY <1>10 DEF AsksMore, IsNew, Still
    <2>2. \A k \in 1..Len(pending') : pending'[k] \in Req
      BY <1>2, SeqFacts
    <2>3. Informed(pending'[Len(pending) + 1], server, acked)
      <3>1. Len(pending) + 1 \in 1..Len(pending')
        BY <1>1, <2>1
      <3> QED
        BY <2>1, <2>2, <3>1, NothingToHold
    <2>4. \A k \in 1..Len(pending) : Informed(pending'[k], server, acked)
      <3> SUFFICES ASSUME NEW k \in 1..Len(pending) PROVE Informed(pending'[k], server, acked)
        OBVIOUS
      <3>1. k \in 1..Len(pending')
        BY <1>1, <2>1
      <3> QED
        BY <1>1, <1>4, <2>1, <2>2, <3>1, SameInformed
    <2>5. R
      BY <1>1, <2>1, <2>3, <2>4
    <2>6. Hold(ui'.shown, acked')
      BY <1>4, <2>1 DEF Hold
    <2> QED
      BY <1>4, <2>1, <2>5, <2>6
  <1>11. CASE AsksChange
    <2>1. /\ Len(pending') = Len(pending) + 1
          /\ \A i \in 1..Len(pending) : pending'[i] = pending[i]
          /\ pending'[Len(pending) + 1].got = <<>>
          /\ server' = server /\ acked' = acked /\ excuse' = excuse /\ ui'.shown = ui.shown
      BY <1>11 DEF AsksChange, IsNew, Still, SameBut
    <2>2. Informed(pending'[Len(pending) + 1], server, acked)
      <3>1. Len(pending) + 1 \in 1..Len(pending')
        BY <1>1, <2>1
      <3> QED
        BY <1>2, <2>1, <3>1, SeqFacts, NothingToHold
    <2>3. R
      BY <1>1, <1>4, <2>1, <2>2
    <2>4. Coming => Loads
      BY <1>1, <2>1 DEF Coming, Loads
    <2> QED
      BY <1>4, <2>1, <2>3, <2>4
  <1>12. ASSUME NEW i \in 1..Len(pending), ServesOne(i) PROVE A /\ R /\ C
    <2>1. /\ acked' = acked /\ excuse' = excuse /\ ui' = ui /\ server' = server \cup pending[i].change
          /\ Len(pending') = Len(pending)
          /\ \A k \in 1..Len(pending) : k # i => pending'[k] = pending[k]
          /\ pending'[i].kind = pending[i].kind /\ pending'[i].current = pending[i].current
          /\ pending'[i].change = pending[i].change /\ pending'[i].late = pending[i].late
      BY <1>12 DEF ServesOne
    <2>2. /\ Len(pending'[i].got) = Len(pending[i].got) + 1
          /\ \A j \in 1..Len(pending[i].got) : pending'[i].got[j] = pending[i].got[j]
          /\ pending'[i].got[Len(pending[i].got) + 1].content = server'
      BY <1>12 DEF ServesOne
    <2>3. pending[i].got \in Seq(Chunk) /\ Informed(pending[i], server, acked)
      BY <1>1, <1>4 DEF Req
    <2>4. Len(pending[i].got) \in Nat
      BY <2>3, SeqFacts
    <2>5. Hold(pending'[i].got, pending[i].change)
      <3>1. Hold(pending[i].got, pending[i].change)
        BY <2>3 DEF Informed, Hold
      <3>2. pending[i].change \subseteq pending'[i].got[Len(pending[i].got) + 1].content
        BY <2>1, <2>2
      <3> QED
        BY <2>2, <2>4, <3>1, <3>2, HoldGrows
    <2>6. ~pending[i].late => Hold(pending'[i].got, acked)
      <3> SUFFICES ASSUME ~pending[i].late PROVE Hold(pending'[i].got, acked)
        OBVIOUS
      <3>1. Hold(pending[i].got, acked)
        BY <2>3 DEF Informed
      <3>2. acked \subseteq pending'[i].got[Len(pending[i].got) + 1].content
        BY <1>4, <2>1, <2>2
      <3> QED
        BY <2>2, <2>4, <3>1, <3>2, HoldGrows
    <2>7. Informed(pending'[i], server', acked)
      BY <2>1, <2>5, <2>6 DEF Informed
    <2>8. \A k \in 1..Len(pending) : k # i => Informed(pending'[k], server', acked)
      BY <1>4, <2>1 DEF Informed
    <2>9. R
      BY <2>1, <2>7, <2>8
    <2>10. Coming => Loads
      BY <2>1 DEF Coming, Loads, Eligible
    <2> QED
      BY <1>4, <2>1, <2>9, <2>10
  <1>13. ASSUME NEW i \in 1..Len(pending), AppliesLoad(i) PROVE A /\ R /\ C
    <2>1. /\ acked' = acked /\ server' = server /\ Leaves(pending', i)
          /\ ui'.shown = pending[i].got /\ (excuse' = "none" => ~pending[i].late)
      BY <1>13, AfterFacts DEF AppliesLoad
    <2>2. R
      BY <1>1, <1>4, <1>7, <2>1, LeftFacts
    <2>3. C
      BY <1>4, <2>1 DEF Informed
    <2> QED
      BY <1>4, <2>1, <2>2, <2>3
  <1>14. ASSUME NEW i \in 1..Len(pending), AppliesMore(i) PROVE A /\ R /\ C
    <2>1. acked' = acked /\ server' = server /\ Leaves(pending', i) /\ policy.more # "none"
      BY <1>1, <1>14 DEF AppliesMore, RequestOK
    <2>2. R
      BY <1>1, <1>4, <1>7, <2>1, LeftFacts
    <2>3. Hold(ui'.shown, acked')
      BY <1>4, <2>1 DEF Hold
    <2> QED
      BY <1>4, <2>1, <2>2, <2>3
  <1>15. ASSUME NEW i \in 1..Len(pending), Ignores(i) PROVE A /\ R /\ C
    <2>1. /\ acked' = acked /\ server' = server /\ excuse' = excuse /\ ui' = ui
          /\ Leaves(pending', i)
      BY <1>15 DEF Ignores, Still
    <2>2. R
      BY <1>1, <1>4, <1>7, <2>1, LeftFacts
    <2>3. ~Eligible(pending[i])
      BY <1>1, <1>15 DEF Ignores, Accepted, Eligible, PolicyOK
    <2>4. Coming => Loads
      BY <1>1, <2>1, <2>3, ComingLeft DEF Loads
    <2> QED
      BY <1>4, <2>1, <2>2, <2>4
  <1>16. ASSUME NEW i \in 1..Len(pending), Acknowledges(i) PROVE A /\ R /\ C
    <2> DEFINE c == pending[i].change
    <2>1. /\ pending[i].kind = "change" /\ server' = server /\ acked' = acked \cup c
          /\ pending[i].got # <<>> /\ policy.more = "none"
      BY <1>1, <1>3, <1>16 DEF Acknowledges, RequestOK
    <2>2. c \subseteq server /\ Hold(pending[i].got, c)
      BY <1>4, <2>1 DEF Informed
    <2>3. A
      BY <1>4, <2>1, <2>2
    <2>4. /\ Leaves(Overtaken(i), i) /\ Overtaken(i) \in Seq(Req)
          /\ \A j \in 1..Len(Overtaken(i)) : Overtaken(i)[j].got # <<>> => Overtaken(i)[j].late
      BY <1>1, <2>1, OvertakenFacts DEF Leaves, Overtakes
    <2>5. \A j \in 1..Len(Overtaken(i)) : Informed(Overtaken(i)[j], server', acked')
      <3> SUFFICES ASSUME NEW j \in 1..Len(Overtaken(i)) PROVE Informed(Overtaken(i)[j], server', acked')
        OBVIOUS
      <3>1. Overtaken(i)[j] \in Req /\ Old(i, j) \in 1..Len(pending)
        BY <1>1, <2>4, LeftFacts
      <3>2. Informed(Overtaken(i)[j], server, acked)
        BY <1>4, <1>7, <2>4, <3>1
      <3>3. CASE Overtaken(i)[j].got = <<>>
        BY <3>1, <3>3, NothingToHold
      <3>4. CASE Overtaken(i)[j].got # <<>>
        BY <2>1, <2>4, <3>2, <3>4 DEF Informed
      <3> QED
        BY <3>3, <3>4
    <2>6. ~Eligible(pending[i])
      BY <2>1 DEF Eligible
    <2>7. CASE Sends(ui, Overtaken(i), policy.starts)
      BY <1>1, <1>6, <2>3, <2>4, <2>5, <2>7
    <2>8. CASE /\ excuse' = excuse /\ pending' = Overtaken(i)
               /\ Len(ui'.shown) = Len(ui.shown)
               /\ \A j \in 1..Len(ui.shown) : ui'.shown[j].content = ui.shown[j].content \cup c
      <3>1. Coming => Loads
        BY <1>1, <2>4, <2>6, <2>8, ComingLeft DEF Loads
      <3>2. Hold(ui.shown, acked) => Hold(ui'.shown, acked')
        BY <2>1, <2>8 DEF Hold
      <3> QED
        BY <1>4, <2>3, <2>5, <2>8, <3>1, <3>2
    <2>9. CASE /\ excuse' = (IF pending[i].late THEN "late" ELSE "none") /\ pending' = Overtaken(i)
               /\ ui'.shown = pending[i].got
      <3>1. ~pending[i].late => Hold(ui'.shown, acked')
        BY <1>4, <2>1, <2>2, <2>9 DEF Informed, Hold
      <3> QED
        BY <2>3, <2>5, <2>9, <3>1
    <2> QED
      BY <1>16, <2>7, <2>8, <2>9 DEF Acknowledges
  <1>17. ASSUME NEW i \in 1..Len(pending), Breaks(i) PROVE A /\ R /\ C
    <2>1. /\ acked' = acked /\ server' = server /\ Leaves(pending', i)
          /\ pending[i].kind = "load" => excuse' = "failed"
          /\ pending[i].kind # "load" => excuse' = excuse /\ ui'.shown = ui.shown
      BY <1>17 DEF Breaks
    <2>2. R
      BY <1>1, <1>4, <1>7, <2>1, LeftFacts
    <2>3. Coming /\ pending[i].kind # "load" => Loads
      BY <1>1, <2>1, ComingLeft DEF Loads, Eligible
    <2>4. C
      BY <1>4, <2>1, <2>3
    <2> QED
      BY <1>4, <2>1, <2>2, <2>4
  <1> QED
    BY <1>8, <1>9, <1>10, <1>11, <1>12, <1>13, <1>14, <1>15, <1>16, <1>17 DEF StepForms

LEMMA OwnInit ==
    ASSUME PagesAssumption, Init
    PROVE  OwnInv
  <1> DEFINE r == Request("load", ui, 1, "none", {})
  <1>1. acked = {} /\ server = {} /\ ui.shown = <<>>
    BY DEF Init
  <1>2. r.got = <<>>
    BY DEF Request
  <1> HIDE DEF r
  <1>3. pending = <<r>> \/ pending = <<>>
    BY DEF Init, r
  <1>4. \A i \in 1..Len(pending) : pending[i].got = <<>>
    BY <1>2, <1>3
  <1>5. ServedHolds /\ FreshHolds
    BY <1>4 DEF ServedHolds, FreshHolds, Hold
  <1> QED
    BY <1>1, <1>5 DEF OwnInv, AckedApplied, ScreenHolds, PagedUnchanged, Hold

LEMMA OwnImplies ==
    ASSUME PagesAssumption, Base, OwnInv
    PROVE  OwnChangeIsShown
  <1>1. DOMAIN pending = 1..Len(pending) /\ ui.shown \in Seq(Chunk)
    BY BaseFacts
  <1>2. DOMAIN ui.shown = 1..Len(ui.shown)
    BY <1>1, SeqFacts
  <1>3. Settled => ~Coming
    BY <1>1 DEF Settled, Coming, Eligible, Reads
  <1> QED
    BY <1>2, <1>3, BaseFacts DEF OwnInv, ScreenHolds, Hold, OwnChangeIsShown, LostInv

\* What the user changed and the API confirmed is on the screen of a settled
\* page, in every page of rows, unless an answer that had left the server
\* before or had lost that part replaced it: a refetch, an edit of the rows and the answer itself
\* all keep this, however the answers are reordered.
THEOREM OwnChangeIsAlwaysShown == Spec => []OwnChangeIsShown
  <1>1. PagesAssumption
    BY PagesAssumption
  <1>2. Init => Base /\ OwnInv
    BY <1>1, BaseInit, OwnInit
  <1>3. Base /\ OwnInv /\ [Next]_vars => (Base /\ OwnInv)'
    BY <1>1, BaseStep, StepCases, OwnStep
  <1>4. Base /\ OwnInv => OwnChangeIsShown
    BY <1>1, OwnImplies
  <1> QED
    BY <1>2, <1>3, <1>4, PTL DEF Spec

-----------------------------------------------------------------------------
(* What is selected, asked for and shown *)

LEMMA QueryStep ==
    ASSUME PagesAssumption, Base, QueryInv, StepForms
    PROVE  QueryInv' /\ (~policy.filters /\ ~policy.windows => ui'.applied = ui.applied)
  <1>1. /\ PolicyOK(policy) /\ ui \in UI
        /\ \A i \in 1..Len(pending) : RequestOK(pending[i])
        /\ ~policy.windows => ui.q.window = "ok"
    BY BaseFacts
  <1>2. policy' = policy
    BY Origins
  <1>3. /\ ui.applied.window # "bad"
        /\ policy.eager /\ ui.q.window = "ok" => ui.q = ui.applied
        /\ ~policy.filters /\ ~policy.windows => ui.q = ui.applied
    BY DEF QueryInv
  <1> DEFINE Q == /\ ui'.applied.window # "bad"
                  /\ policy.eager /\ ui'.q.window = "ok" => ui'.q = ui'.applied
                  /\ ~policy.filters /\ ~policy.windows => ui'.q = ui'.applied /\ ui'.applied = ui.applied
  <1>4. SUFFICES Q
    BY <1>2 DEF QueryInv
  <1>5. CASE AsksLoad
    BY <1>3, <1>5 DEF AsksLoad, Sends
  <1>6. CASE AsksNothing
    <2>1. ui'.applied = ui.applied /\ (policy.eager => ui'.q.window # "ok")
          /\ (~policy.filters /\ ~policy.windows => ui'.q = ui.q)
      BY <1>6 DEF AsksNothing, Shell
    <2> QED
      BY <1>3, <2>1
  <1>7. CASE ui'.q = ui.q /\ ui'.applied = ui.applied
    BY <1>3, <1>7
  <1>8. CASE AsksMore \/ AsksChange \/ Moves \/ Stutters
    BY <1>7, <1>8 DEF AsksMore, AsksChange, Moves, Stutters, SameBut, Shell
  <1>9. ASSUME NEW i \in 1..Len(pending),
               ServesOne(i) \/ AppliesLoad(i) \/ AppliesMore(i) \/ Ignores(i) \/ Breaks(i)
        PROVE  Q
    BY <1>7, <1>9 DEF ServesOne, AppliesLoad, AppliesMore, Ignores, Breaks
  <1>10. ASSUME NEW i \in 1..Len(pending), Acknowledges(i) PROVE Q
    <2>1. policy.change # {}
      BY <1>1, <1>10 DEF Acknowledges, RequestOK
    <2>2. ui.q.window = "ok"
      BY <1>1, <2>1 DEF PolicyOK
    <2>3. CASE Sends(ui, Overtaken(i), policy.starts)
      BY <1>3, <2>2, <2>3 DEF Sends
    <2>4. CASE Shell(ui') /\ ui'.q = ui.q
      BY <1>7, <2>4 DEF Shell
    <2> QED
      BY <1>10, <2>3, <2>4 DEF Acknowledges
  <1> QED
    BY <1>5, <1>6, <1>8, <1>9, <1>10 DEF StepForms

\* A request keeps its rows in order.
LEMMA SameRows ==
    ASSUME NEW r, NEW t, Same(r, t), RowsOK(t)
    PROVE  RowsOK(r)
  BY DEF Same, RowsOK

LEMMA RowsStep ==
    ASSUME PagesAssumption, Base, QueryInv, RowsInv, StepForms
    PROVE  RowsInv'
  <1>1. /\ PolicyOK(policy) /\ ui \in UI /\ pending \in Seq(Req) /\ Len(pending) \in Nat
        /\ \A i \in 1..Len(pending) : pending[i] \in Req /\ RequestOK(pending[i])
        /\ MaxPages \in Nat \ {0}
    BY BaseFacts
  <1>2. policy' = policy
    BY Origins
  <1>3. /\ QueryInv'
        /\ ~policy.filters /\ ~policy.windows => ui'.applied = ui.applied /\ ui.q = ui.applied
    BY QueryStep DEF QueryInv
  <1>4. \A i \in 1..Len(pending) : RowsOK(pending[i])
    BY DEF RowsInv
  <1> DEFINE R == \A j \in 1..Len(pending') : RowsOK(pending'[j])
  <1>5. SUFFICES R
    <2>1. ASSUME NEW r, RowsOK(r)
          PROVE  /\ \A j \in 1..Len(r.got) : r.got[j].q = r.q
                 /\ r.kind = "more" => Len(r.got) <= 1 /\ (~r.done => r.got = <<>>)
                 /\ r.kind # "more" => /\ \A j \in 1..Len(r.got) : r.got[j].page = j
                                       /\ ~r.done => r.page = Len(r.got) + 1
                 /\ ~policy.filters /\ ~policy.windows => r.q = ui'.applied
      BY <1>3, <2>1 DEF RowsOK
    <2> QED
      BY <1>2, <2>1 DEF RowsInv, RowsOK
  <1>6. ASSUME NEW r, NEW kind, NEW first, NEW how, NEW c, IsNew(r, kind, ui, first, how, c),
               kind # "more" => first = 1
        PROVE  RowsOK(r)
    <2>1. ~policy.filters /\ ~policy.windows => r.q = ui.applied
      BY <1>3, <1>6 DEF IsNew
    <2> QED
      BY <1>6, <2>1 DEF IsNew, RowsOK
  <1>7. ASSUME NEW u \in UI, NEW s \in Seq(Req), NEW resets, Sends(u, s, resets),
               ~policy.filters /\ ~policy.windows => u.q = ui.q,
               \A k \in 1..Len(s) : RowsOK(s[k])
        PROVE  R
    <2>1. /\ Len(s) \in Nat /\ Len(pending') = Len(s) + 1
          /\ \A k \in 1..Len(s) : Same(pending'[k], s[k])
          /\ pending'[Len(s) + 1].kind = "load" /\ pending'[Len(s) + 1].page = 1
          /\ pending'[Len(s) + 1].got = <<>> /\ pending'[Len(s) + 1].q = u.q
      BY <1>7 DEF Sends
    <2>2. \A k \in 1..Len(s) : RowsOK(pending'[k])
      BY <1>7, <2>1, SameRows
    <2>3. RowsOK(pending'[Len(s) + 1])
      BY <1>3, <1>7, <2>1 DEF RowsOK
    <2> QED
      BY <2>1, <2>2, <2>3
  <1>8. ASSUME NEW i \in 1..Len(pending), NEW p, Leaves(p, i)
        PROVE  \A j \in 1..Len(p) : RowsOK(p[j])
    <2>1. \A j \in 1..Len(p) : Old(i, j) \in 1..Len(pending) /\ Same(p[j], pending[Old(i, j)])
      BY <1>1, <1>8, LeftFacts
    <2> QED
      BY <1>4, <2>1, SameRows
  <1>9. CASE AsksLoad
    <2>1. PICK u \in UI, resets \in {policy.starts, policy.starts \cup policy.reset} :
            Sends(u, pending, resets) /\ (~policy.filters /\ ~policy.windows => u.q = ui.q)
      BY <1>9 DEF AsksLoad
    <2> QED
      BY <1>1, <1>4, <1>7, <2>1
  <1>10. CASE AsksNothing \/ Moves \/ Stutters
    BY <1>4, <1>10 DEF AsksNothing, Moves, Stutters
  <1>11. CASE AsksMore
    <2>1. /\ Len(pending') = Len(pending) + 1
          /\ \A k \in 1..Len(pending) : Same(pending'[k], pending[k])
          /\ IsNew(pending'[Len(pending) + 1], "more", ui, ui.cursor, "none", {})
      BY <1>11 DEF AsksMore
    <2>2. \A k \in 1..Len(pending) : RowsOK(pending'[k])
      BY <1>4, <2>1, SameRows
    <2>3. RowsOK(pending'[Len(pending) + 1])
      BY <1>6, <2>1
    <2> QED
      BY <1>1, <2>1, <2>2, <2>3
  <1>12. CASE AsksChange
    <2>1. /\ Len(pending') = Len(pending) + 1
          /\ \A k \in 1..Len(pending) : pending'[k] = pending[k]
          /\ \E how \in policy.change, c \in SUBSET Changes :
                IsNew(pending'[Len(pending) + 1], "change", ui, 1, how, c)
      BY <1>12 DEF AsksChange
    <2>2. RowsOK(pending'[Len(pending) + 1])
      BY <1>6, <2>1
    <2> QED
      BY <1>1, <1>4, <2>1, <2>2
  <1>13. ASSUME NEW i \in 1..Len(pending), ServesOne(i) PROVE R
    <2> DEFINE r == pending[i]
               t == pending'[i]
    <2>1. /\ Len(pending') = Len(pending)
          /\ \A k \in 1..Len(pending) : k # i => pending'[k] = pending[k]
          /\ ~r.done /\ t.kind = r.kind /\ t.q = r.q
          /\ t.page = (IF r.page < MaxPages THEN r.page + 1 ELSE r.page)
          /\ t.done = (~policy.whole \/ r.kind = "change" \/ r.page = MaxPages)
          /\ Len(t.got) = Len(r.got) + 1
          /\ \A j \in 1..Len(r.got) : t.got[j] = r.got[j]
          /\ t.got[Len(r.got) + 1].q = r.q /\ t.got[Len(r.got) + 1].page = r.page
      BY <1>13 DEF ServesOne
    <2>2. r \in Req /\ RequestOK(r) /\ RowsOK(r)
      BY <1>1, <1>4
    <2>3. r.page \in 1..MaxPages /\ Len(r.got) \in Nat
      BY <2>2, SeqFacts DEF Req
    <2> HIDE DEF r, t
    <2>4. t.got[Len(r.got) + 1].q = r.q /\ t.got[Len(r.got) + 1].page = r.page
      BY <2>1
    <2> DEFINE n == Len(r.got)
    <2>5. /\ n \in Nat /\ Len(t.got) = n + 1 /\ (\A j \in 1..n : t.got[j] = r.got[j])
          /\ t.got[n + 1].q = r.q /\ t.got[n + 1].page = r.page
      BY <2>1, <2>3, <2>4
    <2>6. /\ \A j \in 1..n : r.got[j].q = r.q
          /\ r.kind # "more" => r.page = n + 1 /\ \A j \in 1..n : r.got[j].page = j
      BY <2>1, <2>2 DEF RowsOK
    <2> HIDE DEF n
    <2>7. \A j \in 1..Len(t.got) : t.got[j].q = t.q
      BY <2>1, <2>5, <2>6
    <2>8. t.kind = "more" => Len(t.got) <= 1 /\ t.done
      <3>1. r.kind = "more" => r.got = <<>> /\ policy.more # "none"
        BY <2>1, <2>2 DEF RowsOK, RequestOK
      <3>2. policy.more # "none" => ~policy.whole
        BY <1>1 DEF PolicyOK
      <3>3. r.kind = "more" => t.done
        BY <2>1, <3>1, <3>2
      <3>4. r.kind = "more" => Len(r.got) = 0
        BY <3>1
      <3> QED
        BY <2>1, <2>3, <3>3, <3>4
    <2>9. t.kind # "more" => \A j \in 1..Len(t.got) : t.got[j].page = j
      <3> SUFFICES ASSUME t.kind # "more", NEW j \in 1..Len(t.got) PROVE t.got[j].page = j
        OBVIOUS
      <3>1. r.kind # "more"
        BY <2>1
      <3>2. CASE j = n + 1
        BY <2>5, <2>6, <3>1, <3>2
      <3>3. CASE j \in 1..n
        BY <2>5, <2>6, <3>1, <3>3
      <3> QED
        BY <2>5, <3>2, <3>3
    <2>10. t.kind # "more" /\ ~t.done => t.page = Len(t.got) + 1
      <3>1. ~t.done => r.page # MaxPages
        BY <2>1
      <3>2. r.kind # "more" => r.page = Len(r.got) + 1
        BY <2>1, <2>2 DEF RowsOK
      <3> QED
        BY <1>1, <2>1, <2>3, <3>1, <3>2
    <2>11. ~policy.filters /\ ~policy.windows => t.q = ui.applied
      BY <2>1, <2>2 DEF RowsOK
    <2>12. RowsOK(t)
      BY <2>7, <2>8, <2>9, <2>10, <2>11 DEF RowsOK
    <2> QED
      BY <1>4, <2>1, <2>12 DEF t
  <1>14. ASSUME NEW i \in 1..Len(pending), AppliesLoad(i) \/ AppliesMore(i) \/ Ignores(i) \/ Breaks(i)
         PROVE  R
    <2>1. Leaves(pending', i)
      BY <1>14 DEF AppliesLoad, AppliesMore, Ignores, Breaks
    <2> QED
      BY <1>8, <2>1
  <1>15. ASSUME NEW i \in 1..Len(pending), Acknowledges(i) PROVE R
    <2>1. Overtaken(i) \in Seq(Req) /\ \A j \in 1..Len(Overtaken(i)) : RowsOK(Overtaken(i)[j])
      BY <1>1, <1>8, OvertakenFacts DEF Leaves
    <2>2. CASE Sends(ui, Overtaken(i), policy.starts)
      BY <1>1, <1>7, <2>1, <2>2
    <2>3. CASE pending' = Overtaken(i)
      BY <2>1, <2>3
    <2> QED
      BY <1>15, <2>2, <2>3 DEF Acknowledges
  <1> QED
    BY <1>9, <1>10, <1>11, <1>12, <1>13, <1>14, <1>15 DEF StepForms

\* Under the guard of PipelinesPage the request that ends and was listened to
\* was the newest: no other one is current.
LEMMA NewestEnds ==
    ASSUME PagesAssumption, Base, GuardInv, policy.more = "guarded",
           NEW i \in 1..Len(pending), pending[i].kind # "change", Accepted(pending[i]),
           NEW p, Leaves(p, i)
    PROVE  \A j \in 1..Len(p) : ~p[j].current
  <1>1. pending \in Seq(Req) /\ PolicyOK(policy)
    BY BaseFacts
  <1>2. policy.guard
    BY <1>1 DEF PolicyOK
  <1>3. pending[i].current
    BY <1>2 DEF Accepted
  <1>4. \A k \in 1..Len(pending) : pending[k].current => k = Len(pending)
    BY DEF GuardInv
  <1>5. \A j \in 1..Len(p) : /\ Old(i, j) \in 1..Len(pending) /\ Old(i, j) # i
                             /\ p[j].current = pending[Old(i, j)].current
    BY <1>1, LeftFacts
  <1> QED
    BY <1>3, <1>4, <1>5

LEMMA GuardStep ==
    ASSUME PagesAssumption, Base, GuardInv, StepForms
    PROVE  GuardInv'
  <1>1. /\ PolicyOK(policy) /\ ui \in UI /\ pending \in Seq(Req) /\ Len(pending) \in Nat
        /\ \A i \in 1..Len(pending) : pending[i] \in Req /\ RequestOK(pending[i])
    BY BaseFacts
  <1>2. policy' = policy
    BY Origins
  <1>3. /\ policy.more = "guarded" => policy.guard /\ "spinner" \in policy.starts
        /\ policy.change # {} => policy.more = "none"
    BY <1>1 DEF PolicyOK
  <1> DEFINE Ordered(s) == \A i, k \in 1..Len(s) : i < k /\ s[k].kind = "load" => ~s[i].current
             Newest(s) == \A i \in 1..Len(s) : s[i].current => i = Len(s) /\ ~s[i].late
             Loads == \E j \in 1..Len(pending') : Eligible(pending'[j])
             G == policy.guard => Ordered(pending')
             H == policy.more = "guarded" => Newest(pending') /\ (Loads => ui'.loading)
  <1>4. /\ policy.guard => Ordered(pending)
        /\ policy.more = "guarded" => Newest(pending) /\ (Coming => ui.loading)
    BY DEF GuardInv
  <1>5. SUFFICES G /\ H
    <2>1. Coming' <=> Loads
      BY <1>2, ComingPrimed
    <2> QED
      BY <1>2, <2>1 DEF GuardInv
  <1> HIDE DEF Loads
  <1>6. ASSUME NEW u \in UI, NEW s \in Seq(Req), NEW resets, Sends(u, s, resets)
        PROVE  /\ Ordered(pending') /\ Newest(pending')
               /\ ("spinner" \in resets => ui'.loading)
    <2>1. /\ Len(s) \in Nat /\ Len(pending') = Len(s) + 1
          /\ \A k \in 1..Len(s) : ~pending'[k].current
          /\ ~pending'[Len(s) + 1].late
      BY <1>6 DEF Sends
    <2>2. "spinner" \in resets => ui'.loading
      BY <1>6 DEF Sends
    <2> QED
      BY <2>1, <2>2
  <1>7. ASSUME NEW i \in 1..Len(pending), NEW p, Leaves(p, i), Ordered(pending)
        PROVE  Ordered(p)
    <2>1. /\ \A j \in 1..Len(p) : /\ Old(i, j) \in 1..Len(pending) /\ p[j].kind = pending[Old(i, j)].kind
                                  /\ p[j].current = pending[Old(i, j)].current
          /\ \A j, k \in 1..Len(p) : j < k <=> Old(i, j) < Old(i, k)
      BY <1>1, <1>7, LeftFacts DEF Same
    <2> QED
      BY <1>7, <2>1
  <1>8. CASE AsksLoad
    <2>1. PICK u \in UI, resets \in {policy.starts, policy.starts \cup policy.reset} :
            Sends(u, pending, resets)
      BY <1>8 DEF AsksLoad
    <2> QED
      BY <1>1, <1>3, <1>6, <2>1
  <1>9. CASE AsksNothing \/ Moves \/ Stutters
    <2>1. pending' = pending /\ ui'.loading = ui.loading
      BY <1>9 DEF AsksNothing, Moves, Stutters, Shell
    <2>2. Loads => Coming
      BY <2>1 DEF Loads, Coming
    <2> QED
      BY <1>4, <2>1, <2>2
  <1>10. CASE AsksMore
    <2> DEFINE n == Len(pending)
    <2>1. /\ Len(pending') = n + 1 /\ n \in Nat
          /\ \A k \in 1..n : pending'[k].kind = pending[k].kind
          /\ pending'[n + 1].kind = "more" /\ ~pending'[n + 1].late
          /\ policy.more = "guarded" => \A k \in 1..n : ~pending'[k].current
          /\ policy.more # "guarded" => \A k \in 1..n : pending'[k].current = pending[k].current
      BY <1>1, <1>10 DEF AsksMore, IsNew, Same
    <2>2. CASE policy.more = "guarded"
      <3>1. Ordered(pending') /\ Newest(pending')
        BY <2>1, <2>2
      <3>2. ~Loads
        BY <1>3, <2>1, <2>2 DEF Loads, Eligible
      <3> QED
        BY <3>1, <3>2
    <2>3. CASE policy.more # "guarded"
      BY <1>4, <2>1, <2>3
    <2> QED
      BY <2>2, <2>3
  <1>11. CASE AsksChange
    <2> DEFINE n == Len(pending)
    <2>1. /\ Len(pending') = n + 1 /\ n \in Nat /\ policy.change # {}
          /\ \A k \in 1..n : pending'[k] = pending[k]
          /\ pending'[n + 1].kind = "change"
      BY <1>1, <1>11 DEF AsksChange, IsNew
    <2>2. G
      BY <1>4, <2>1
    <2> QED
      BY <1>3, <2>1, <2>2
  <1>12. ASSUME NEW i \in 1..Len(pending), ServesOne(i) PROVE G /\ H
    <2>1. /\ Len(pending') = Len(pending) /\ ui' = ui
          /\ \A k \in 1..Len(pending) : /\ pending'[k].kind = pending[k].kind
                                        /\ pending'[k].current = pending[k].current
                                        /\ pending'[k].late = pending[k].late
      BY <1>12 DEF ServesOne
    <2>2. Loads => Coming
      BY <2>1 DEF Loads, Coming, Eligible
    <2> QED
      BY <1>4, <2>1, <2>2
  <1>13. ASSUME NEW i \in 1..Len(pending), Leaves(pending', i)
         PROVE  /\ G
                /\ pending[i].kind # "change" /\ Accepted(pending[i]) => H
    <2>1. G
      BY <1>4, <1>7, <1>13
    <2>2. ASSUME policy.more = "guarded", pending[i].kind # "change", Accepted(pending[i])
          PROVE  Newest(pending') /\ ~Loads
      <3>1. \A j \in 1..Len(pending') : ~pending'[j].current
        BY <1>13, <2>2, NewestEnds
      <3> QED
        BY <1>3, <2>2, <3>1 DEF Loads, Eligible
    <2> QED
      BY <2>1, <2>2
  <1>14. ASSUME NEW i \in 1..Len(pending), AppliesLoad(i) \/ AppliesMore(i) PROVE G /\ H
    BY <1>13, <1>14 DEF AppliesLoad, AppliesMore
  <1>15. ASSUME NEW i \in 1..Len(pending), Breaks(i) PROVE G /\ H
    <2>1. Leaves(pending', i) /\ (pending[i].kind = "change" \/ Accepted(pending[i]))
      BY <1>15 DEF Breaks
    <2>2. pending[i].kind = "change" => policy.more = "none"
      BY <1>1, <1>3 DEF RequestOK
    <2> QED
      BY <1>13, <2>1, <2>2
  <1>16. ASSUME NEW i \in 1..Len(pending), Ignores(i) PROVE G /\ H
    <2>1. /\ Leaves(pending', i) /\ ui' = ui /\ ~pending[i].current
          /\ \A j \in 1..Len(pending') : pending'[j].late = pending[Old(i, j)].late
      BY <1>16 DEF Ignores, Accepted
    <2>2. /\ Len(pending') = Len(pending) - 1
          /\ \A j \in 1..Len(pending') : /\ Old(i, j) \in 1..Len(pending)
                                         /\ pending'[j].kind = pending[Old(i, j)].kind
                                         /\ pending'[j].current = pending[Old(i, j)].current
      BY <1>1, <2>1, LeftFacts DEF Same
    <2>3. \A j \in 1..Len(pending') : Old(i, j) = Len(pending) => j = Len(pending')
      BY <1>1, <2>2 DEF Old
    <2>4. Newest(pending) => Newest(pending')
      BY <2>1, <2>2, <2>3
    <2>5. Loads => Coming
      BY <2>2 DEF Loads, Coming, Eligible
    <2>6. G
      BY <1>13, <2>1
    <2> QED
      BY <1>4, <2>1, <2>4, <2>5, <2>6
  <1>17. ASSUME NEW i \in 1..Len(pending), Acknowledges(i) PROVE G /\ H
    <2>1. policy.more = "none"
      BY <1>1, <1>3, <1>17 DEF Acknowledges, RequestOK
    <2>2. Leaves(Overtaken(i), i) /\ Overtaken(i) \in Seq(Req)
      BY <1>1, OvertakenFacts DEF Leaves
    <2>3. CASE Sends(ui, Overtaken(i), policy.starts)
      BY <1>1, <1>6, <2>1, <2>2, <2>3
    <2>4. CASE pending' = Overtaken(i)
      BY <1>13, <2>1, <2>2, <2>4
    <2> QED
      BY <1>17, <2>3, <2>4 DEF Acknowledges
  <1> QED
    BY <1>8, <1>9, <1>10, <1>11, <1>12, <1>14, <1>15, <1>16, <1>17 DEF StepForms

\* A load that counts asks for what was applied last: a newer load takes the
\* place of the others, and once it has ended the others are late or outdated.
LEMMA LoadsStep ==
    ASSUME PagesAssumption, Base, GuardInv, LoadsInv, StepForms
    PROVE  LoadsInv'
  <1>1. /\ PolicyOK(policy) /\ ui \in UI /\ pending \in Seq(Req) /\ Len(pending) \in Nat
        /\ \A i \in 1..Len(pending) : pending[i] \in Req /\ RequestOK(pending[i])
    BY BaseFacts
  <1>2. policy' = policy
    BY Origins
  <1> DEFINE Counts(s, i) == Eligible(s[i]) /\ (~s[i].late \/ Guarded)
             Newer(s, i) == \E k \in 1..Len(s) : i < k /\ Eligible(s[k])
             Good(s) == \A i \in 1..Len(s) : Counts(s, i) => s[i].q = ui'.applied \/ Newer(s, i)
  <1>3. SUFFICES Good(pending')
    BY <1>2 DEF LoadsInv, Eligible, Guarded
  <1>4. \A i \in 1..Len(pending) : Counts(pending, i) => pending[i].q = ui.applied \/ Newer(pending, i)
    BY DEF LoadsInv
  <1>5. ASSUME NEW u \in UI, NEW s \in Seq(Req), NEW resets, Sends(u, s, resets)
        PROVE  Good(pending')
    <2>1. /\ Len(s) \in Nat /\ Len(pending') = Len(s) + 1 /\ Len(s) + 1 \in 1..Len(pending')
          /\ pending'[Len(s) + 1].kind = "load" /\ pending'[Len(s) + 1].current
          /\ pending'[Len(s) + 1].q = ui'.applied
      BY <1>5 DEF Sends
    <2>2. Eligible(pending'[Len(s) + 1])
      BY <2>1 DEF Eligible
    <2>3. \A i \in 1..Len(pending') : i = Len(s) + 1 \/ i < Len(s) + 1
      BY <2>1
    <2> QED
      BY <2>1, <2>2, <2>3
  <1>6. CASE AsksLoad
    BY <1>1, <1>5, <1>6 DEF AsksLoad
  <1>7. CASE AsksNothing \/ Moves \/ Stutters
    <2>1. pending' = pending /\ ui'.applied = ui.applied
      BY <1>7 DEF AsksNothing, Moves, Stutters, Shell
    <2> QED
      BY <1>4, <2>1
  <1>8. CASE AsksMore
    <2> DEFINE n == Len(pending)
    <2>1. /\ Len(pending') = n + 1 /\ n \in Nat /\ ui'.applied = ui.applied
          /\ \A k \in 1..n : /\ k \in 1..Len(pending') /\ pending'[k].kind = pending[k].kind
                             /\ pending'[k].late = pending[k].late /\ pending'[k].q = pending[k].q
          /\ pending'[n + 1].kind = "more"
          /\ policy.more = "guarded" => \A k \in 1..n : ~pending'[k].current
          /\ policy.more # "guarded" => \A k \in 1..n : pending'[k].current = pending[k].current
      BY <1>1, <1>8 DEF AsksMore, IsNew, Same
    <2> HIDE DEF n
    <2>2. CASE policy.more = "guarded"
      <3>1. policy.guard
        BY <1>1, <2>2 DEF PolicyOK
      <3> QED
        BY <2>1, <2>2, <3>1 DEF Eligible
    <2>3. CASE policy.more # "guarded"
      <3>1. \A k \in 1..n : Eligible(pending'[k]) <=> Eligible(pending[k])
        BY <2>1, <2>3 DEF Eligible
      <3>2. ~Eligible(pending'[n + 1])
        BY <2>1 DEF Eligible
      <3>3. \A k \in 1..Len(pending') : k = n + 1 \/ k \in 1..n
        BY <2>1
      <3> QED
        BY <1>4, <2>1, <3>1, <3>2, <3>3 DEF n
    <2> QED
      BY <2>2, <2>3
  <1>9. CASE AsksChange
    <2> DEFINE n == Len(pending)
    <2>1. /\ Len(pending') = n + 1 /\ n \in Nat /\ ui'.applied = ui.applied
          /\ \A k \in 1..n : k \in 1..Len(pending') /\ pending'[k] = pending[k]
          /\ pending'[n + 1].kind = "change"
      BY <1>1, <1>9 DEF AsksChange, IsNew, SameBut, Shell
    <2> HIDE DEF n
    <2>2. ~Eligible(pending'[n + 1])
      BY <2>1 DEF Eligible
    <2>3. \A k \in 1..Len(pending') : k = n + 1 \/ k \in 1..n
      BY <2>1
    <2> QED
      BY <1>4, <2>1, <2>2, <2>3 DEF n
  <1>10. ASSUME NEW i \in 1..Len(pending), ServesOne(i) PROVE Good(pending')
    <2>1. /\ Len(pending') = Len(pending) /\ ui' = ui
          /\ \A k \in 1..Len(pending) : /\ pending'[k].kind = pending[k].kind /\ pending'[k].q = pending[k].q
                                        /\ pending'[k].current = pending[k].current
                                        /\ pending'[k].late = pending[k].late
      BY <1>10 DEF ServesOne
    <2>2. \A k \in 1..Len(pending) : Eligible(pending'[k]) <=> Eligible(pending[k])
      BY <2>1 DEF Eligible
    <2> QED
      BY <1>4, <2>1, <2>2
  <1>11. ASSUME NEW i \in 1..Len(pending), Leaves(pending', i), ui'.applied = ui.applied,
                Eligible(pending[i]) => Overtakes(pending', i)
         PROVE  Good(pending')
    <2>1. /\ \A j \in 1..Len(pending') : /\ Old(i, j) \in 1..Len(pending) /\ Old(i, j) # i
                                         /\ pending'[j].kind = pending[Old(i, j)].kind
                                         /\ pending'[j].q = pending[Old(i, j)].q
                                         /\ pending'[j].current = pending[Old(i, j)].current
                                         /\ pending[Old(i, j)].late => pending'[j].late
      BY <1>1, <1>11, LeftFacts DEF Same
    <2>2. /\ \A k \in 1..Len(pending) : k # i => \E j \in 1..Len(pending') : Old(i, j) = k
          /\ \A j, k \in 1..Len(pending') : j < k <=> Old(i, j) < Old(i, k)
          /\ \A j \in 1..Len(pending') : j < i <=> Old(i, j) < i
      <3>1. \A k \in 1..Len(pending) : k # i => \E j \in 1..Len(pending') : Old(i, j) = k
        BY <1>1, <1>11, LeftFacts
      <3>2. \A j, k \in 1..Len(pending') : j < k <=> Old(i, j) < Old(i, k)
        BY <1>1, <1>11, LeftFacts
      <3>3. \A j \in 1..Len(pending') : j < i <=> Old(i, j) < i
        BY <1>1, <1>11, LeftFacts
      <3> QED
        BY <3>1, <3>2, <3>3
    <2>3. \A j \in 1..Len(pending') : Eligible(pending'[j]) <=> Eligible(pending[Old(i, j)])
      BY <2>1 DEF Eligible
    <2> SUFFICES ASSUME NEW j \in 1..Len(pending'), Counts(pending', j)
                 PROVE  pending'[j].q = ui'.applied \/ Newer(pending', j)
      OBVIOUS
    <2>4. Counts(pending, Old(i, j))
      BY <2>1, <2>3
    <2>5. CASE pending[Old(i, j)].q = ui.applied
      BY <1>11, <2>1, <2>5
    <2>6. CASE Newer(pending, Old(i, j))
      <3>1. PICK k \in 1..Len(pending) : Old(i, j) < k /\ Eligible(pending[k])
        BY <2>6
      <3>2. CASE k # i
        <4>1. PICK m \in 1..Len(pending') : Old(i, m) = k
          BY <2>2, <3>2
        <4>2. j < m /\ Eligible(pending'[m])
          BY <2>2, <2>3, <3>1, <4>1
        <4> QED
          BY <4>2
      <3>3. CASE k = i
        <4>1. pending[i].kind = "load" /\ j < i
          BY <2>2, <3>1, <3>3 DEF Eligible
        <4>2. pending'[j].late
          BY <1>11, <3>1, <3>3, <4>1 DEF Overtakes
        <4>3. policy.guard /\ pending[Old(i, j)].current
          BY <2>4, <4>2 DEF Guarded, Eligible
        <4>4. ~pending[Old(i, j)].current
          BY <2>1, <3>1, <3>3, <4>1, <4>3 DEF GuardInv
        <4> QED
          BY <4>3, <4>4
      <3> QED
        BY <3>2, <3>3
    <2> QED
      BY <1>4, <2>1, <2>4, <2>5, <2>6
  <1>12. ASSUME NEW i \in 1..Len(pending), AppliesLoad(i) \/ AppliesMore(i) \/ Ignores(i) \/ Breaks(i)
         PROVE  Good(pending')
    <2>1. Leaves(pending', i) /\ ui'.applied = ui.applied
      BY <1>12 DEF AppliesLoad, AppliesMore, Ignores, Breaks
    <2>2. Eligible(pending[i]) => Overtakes(pending', i)
      <3>1. CASE AppliesLoad(i) \/ AppliesMore(i)
        BY <3>1 DEF AppliesLoad, AppliesMore
      <3>2. CASE Ignores(i)
        BY <1>1, <3>2 DEF Ignores, Accepted, Eligible, PolicyOK
      <3>3. CASE Breaks(i)
        BY <3>3 DEF Breaks, Eligible
      <3> QED
        BY <1>12, <3>1, <3>2, <3>3
    <2> QED
      BY <1>11, <2>1, <2>2
  <1>13. ASSUME NEW i \in 1..Len(pending), Acknowledges(i) PROVE Good(pending')
    <2>1. Leaves(Overtaken(i), i) /\ Overtaken(i) \in Seq(Req) /\ Overtakes(Overtaken(i), i)
      BY <1>1, OvertakenFacts DEF Leaves
    <2>2. CASE Sends(ui, Overtaken(i), policy.starts)
      BY <1>1, <1>5, <2>1, <2>2
    <2>3. CASE pending' = Overtaken(i) /\ Shell(ui')
      BY <1>11, <2>1, <2>3 DEF Shell
    <2> QED
      BY <1>13, <2>2, <2>3 DEF Acknowledges
  <1> QED
    BY <1>6, <1>7, <1>8, <1>9, <1>10, <1>12, <1>13 DEF StepForms

\* A step that leaves the screen and the loads alone.
LEMMA QuietStep ==
    ASSUME policy' = policy, ScreenInv, MoreInv,
           ui'.q = ui.q, ui'.applied = ui.applied, ui'.shown = ui.shown, ui'.cursor = ui.cursor,
           excuse' = excuse, Coming => Coming',
           \A j \in 1..Len(pending') : pending'[j].kind = "more" =>
                \E k \in 1..Len(pending) :
                    /\ pending'[j].kind = pending[k].kind
                    /\ Start(pending'[j]) = Start(pending[k])
                    /\ pending'[j].current = pending[k].current
                    /\ pending[k].late => pending'[j].late
    PROVE  ScreenInv' /\ MoreInv'
  <1>1. Matches' <=> Matches
    BY DEF Matches
  <1>3. Trusted' <=> Trusted
    BY DEF Trusted, Guarded
  <1>4. ScreenInv'
    BY <1>1, <1>3 DEF ScreenInv
  <1>5. ASSUME NEW j \in 1..Len(pending'), pending'[j].kind = "more", Trusted',
               IF policy.more = "guarded" THEN pending'[j].current ELSE ~pending'[j].late
        PROVE  \/ Matches' /\ Start(pending'[j]) = Len(ui'.shown) + 1
               \/ Coming'
    <2>1. PICK k \in 1..Len(pending) :
                /\ pending[k].kind = "more"
                /\ Start(pending'[j]) = Start(pending[k])
                /\ pending'[j].current = pending[k].current
                /\ pending[k].late => pending'[j].late
      BY <1>5
    <2>2. IF policy.more = "guarded" THEN pending[k].current ELSE ~pending[k].late
      BY <1>5, <2>1
    <2>3. \/ Matches /\ Start(pending[k]) = Len(ui.shown) + 1
          \/ Coming
      BY <1>3, <1>5, <2>1, <2>2 DEF MoreInv, Continues
    <2> QED
      BY <1>1, <2>1, <2>3
  <1>6. MoreInv'
    BY <1>5 DEF MoreInv, Continues, Start
  <1> QED
    BY <1>4, <1>6

\* A load that is on its way excuses everything.
LEMMA ComingExcuses ==
    ASSUME Coming'
    PROVE  ScreenInv' /\ MoreInv'
  BY DEF ScreenInv, MoreInv, Continues

\* The answer of the load that counts puts its rows on the screen.
LEMMA LoadShows ==
    ASSUME PagesAssumption, Base, NEW got \in Seq(Chunk), got # <<>>,
           \A j \in 1..Len(got) : got[j].q = ui'.applied /\ got[j].page = j,
           ui'.shown = got, policy' = policy, policy.more # "none" => ui'.cursor = NextCursor(got)
    PROVE  Matches'
  <1>1. Len(got) \in Nat /\ 1 \in 1..Len(got)
    BY SeqFacts
  <1>2. Len(got) \in 1..Len(got)
    BY <1>1
  <1>3. NextCursor(got) = IF Len(got) < MaxPages THEN Len(got) + 1 ELSE 0
    BY <1>2 DEF NextCursor
  <1> QED
    BY <1>3 DEF Matches

\* The answer of load more continues them.
LEMMA MoreShows ==
    ASSUME PagesAssumption, Base, Matches, NEW got \in Seq(Chunk), Len(got) = 1,
           got[1].q = ui.applied, got[1].page = Len(ui.shown) + 1,
           ui'.shown = ui.shown \o got, ui'.applied = ui.applied, policy' = policy,
           ui'.cursor = NextCursor(got)
    PROVE  Matches'
  <1>1. ui.shown \in Seq(Chunk)
    BY BaseFacts
  <1>2. Len(ui.shown) \in Nat
    BY <1>1, SeqFacts
  <1> DEFINE n == Len(ui.shown)
             s == ui.shown \o got
  <1>3. /\ Len(s) = n + 1 /\ s[n + 1] = got[1]
        /\ \A j \in 1..n : s[j] = ui.shown[j]
    <2>1. /\ Len(s) = n + 1
          /\ \A j \in 1..Len(s) : s[j] = IF j <= n THEN ui.shown[j] ELSE got[j - n]
      <3>1. /\ Len(s) = Len(ui.shown) + Len(got)
            /\ \A j \in 1..(Len(ui.shown) + Len(got)) :
                 s[j] = IF j <= Len(ui.shown) THEN ui.shown[j] ELSE got[j - Len(ui.shown)]
        BY <1>1, ConcatProperties
      <3> HIDE DEF s
      <3> QED
        BY <1>2, <3>1
    <2> HIDE DEF s
    <2>2. s[n + 1] = got[1]
      <3>1. n + 1 \in 1..Len(s) /\ ~(n + 1 <= n) /\ (n + 1) - n = 1
        BY <1>2, <2>1
      <3>2. s[n + 1] = got[(n + 1) - n]
        BY <2>1, <3>1
      <3> QED
        BY <3>1, <3>2
    <2>3. \A j \in 1..n : j \in 1..Len(s) /\ j <= n
      BY <1>2, <2>1
    <2> QED
      BY <2>1, <2>2, <2>3
  <1>4. \A j \in 1..n : ui.shown[j].q = ui.applied /\ ui.shown[j].page = j
    BY DEF Matches
  <1> HIDE DEF n, s
  <1>5. n \in Nat /\ ui'.shown = s /\ got[1].page = n + 1
    BY <1>2 DEF n, s
  <1>6. \A j \in 1..Len(s) : s[j].q = ui.applied /\ s[j].page = j
    <2> SUFFICES ASSUME NEW j \in 1..Len(s) PROVE s[j].q = ui.applied /\ s[j].page = j
      OBVIOUS
    <2>1. CASE j = n + 1
      BY <1>3, <1>5, <2>1
    <2>2. CASE j \in 1..n
      BY <1>3, <1>4, <2>2
    <2> QED
      BY <1>3, <1>5, <2>1, <2>2
  <1>7. NextCursor(got) = IF Len(s) < MaxPages THEN Len(s) + 1 ELSE 0
    BY <1>3, <1>5 DEF NextCursor
  <1> QED
    BY <1>5, <1>6, <1>7 DEF Matches

LEMMA ScreenStep ==
    ASSUME PagesAssumption, Base, SpinnerInv, ShowInv, StepForms
    PROVE  ScreenInv' /\ MoreInv'
  <1>1. /\ PolicyOK(policy) /\ ui \in UI /\ pending \in Seq(Req) /\ Len(pending) \in Nat
        /\ \A i \in 1..Len(pending) : pending[i] \in Req /\ RequestOK(pending[i])
        /\ ui.q \in Query /\ ui.applied \in Query /\ ui.cursor \in 0..MaxPages
        /\ ui.shown \in Seq(Chunk)
    BY BaseFacts
  <1>2. /\ policy' = policy
        /\ \A j \in 1..Len(pending') : pending'[j].kind = "more" => policy.more # "none"
    BY Origins DEF RequestOK
  <1>3. Coming' <=> \E j \in 1..Len(pending') : Eligible(pending'[j])
    BY <1>2, ComingPrimed
  <1>4. QueryInv /\ RowsInv /\ GuardInv /\ LoadsInv /\ ScreenInv /\ MoreInv
    BY DEF ShowInv
  <1>5. /\ policy.more = "guarded" => policy.guard
        /\ policy.more # "none" => policy.eager /\ "dropData" \notin policy.starts
        /\ policy.change # {} => policy.more = "none"
        /\ policy.more \in {"none", "guarded", "free"}
    BY <1>1 DEF PolicyOK
  <1> DEFINE Goal == ScreenInv' /\ MoreInv'
  <1>6. ASSUME NEW u \in UI, NEW s \in Seq(Req), NEW resets, Sends(u, s, resets) PROVE Goal
    <2>1. /\ Len(s) + 1 \in 1..Len(pending')
          /\ pending'[Len(s) + 1].kind = "load" /\ pending'[Len(s) + 1].current
      BY <1>6 DEF Sends
    <2>2. Coming'
      BY <1>3, <2>1 DEF Eligible
    <2> QED
      BY <2>2, ComingExcuses
  <1>7. CASE AsksLoad
    BY <1>1, <1>6, <1>7 DEF AsksLoad
  <1>8. CASE AsksNothing
    <2>1. /\ pending' = pending /\ excuse' = excuse /\ ui'.applied = ui.applied
          /\ ui'.cursor = ui.cursor
          /\ ui'.shown = (IF "dropData" \in policy.starts THEN <<>> ELSE ui.shown)
      BY <1>8 DEF AsksNothing, Shell, Still
    <2>2. Trusted' => Trusted
      BY <1>2, <2>1 DEF Trusted, Guarded
    <2>3. Coming => Coming'
      BY <1>3, <2>1 DEF Coming
    <2>4. Matches => Matches'
      <3>1. CASE policy.more # "none"
        BY <1>2, <1>5, <2>1, <3>1 DEF Matches
      <3>2. CASE policy.more = "none"
        BY <1>2, <2>1, <3>2 DEF Matches
      <3> QED
        BY <3>1, <3>2
    <2>5. ScreenInv'
      BY <1>4, <2>2, <2>3, <2>4 DEF ScreenInv
    <2>6. MoreInv'
      <3>1. CASE policy.more # "none"
        <4>1. ui'.shown = ui.shown
          BY <1>5, <2>1, <3>1
        <4> QED
          BY <1>2, <1>4, <2>1, <2>2, <2>3, <2>4, <4>1 DEF MoreInv, Continues, Start
      <3>2. CASE policy.more = "none"
        BY <1>2, <3>2 DEF MoreInv, Continues
      <3> QED
        BY <3>1, <3>2
    <2> QED
      BY <2>5, <2>6
  <1>9. CASE Moves \/ Stutters
    <2>1. pending' = pending /\ excuse' = excuse /\ ui' = ui
      BY <1>9 DEF Moves, Stutters
    <2>2. Coming => Coming'
      BY <1>3, <2>1 DEF Coming
    <2> QED
      BY <1>2, <1>4, <2>1, <2>2, QuietStep
  <1>10. CASE AsksMore
    <2> DEFINE n == Len(pending)
    <2>1. /\ Len(pending') = n + 1 /\ n \in Nat /\ policy.more # "none" /\ ui.cursor # 0
          /\ ui'.q = ui.q /\ ui'.applied = ui.applied /\ ui'.shown = ui.shown /\ ui'.cursor = ui.cursor
          /\ excuse' = excuse
          /\ IsNew(pending'[n + 1], "more", ui, ui.cursor, "none", {})
      BY <1>1, <1>10 DEF AsksMore, Still
    <2>2. /\ \A k \in 1..n : /\ k \in 1..Len(pending') /\ pending'[k].kind = pending[k].kind
                             /\ pending'[k].q = pending[k].q /\ Start(pending'[k]) = Start(pending[k])
                             /\ pending'[k].late = pending[k].late
          /\ policy.more = "guarded" => \A k \in 1..n : ~pending'[k].current
          /\ policy.more # "guarded" => \A k \in 1..n : pending'[k].current = pending[k].current
      BY <1>1, <1>10 DEF AsksMore, Same, Start
    <2> HIDE DEF n
    <2>3. (Matches' <=> Matches) /\ (Trusted' <=> Trusted)
      BY <1>2, <2>1 DEF Matches, Trusted, Guarded
    <2>4. Coming => Coming'
      <3>1. CASE policy.more = "guarded"
        <4>1. Coming => ui.loading
          BY <1>4, <3>1 DEF GuardInv
        <4>2. ~ui.loading
          BY <2>1, <3>1 DEF SpinnerInv, LoadExcludesMore
        <4> QED
          BY <4>1, <4>2
      <3>2. CASE policy.more # "guarded"
        <4>1. \A k \in 1..n : k \in 1..Len(pending') /\ (Eligible(pending[k]) => Eligible(pending'[k]))
          BY <2>2, <3>2 DEF Eligible
        <4> QED
          BY <1>3, <4>1 DEF Coming, n
      <3> QED
        BY <3>1, <3>2
    <2>5. ScreenInv'
      BY <1>4, <2>3, <2>4 DEF ScreenInv
    <2> DEFINE Follows(j) == \/ Matches' /\ Start(pending'[j]) = Len(ui'.shown) + 1
                             \/ Coming'
    <2>6. Trusted' => Follows(n + 1)
      <3>1. SUFFICES ASSUME Trusted, Matches PROVE Follows(n + 1)
        BY <1>4, <2>3, <2>4 DEF ScreenInv
      <3>2. ui.cursor = Len(ui.shown) + 1
        BY <2>1, <3>1 DEF Matches
      <3>3. Start(pending'[n + 1]) = ui.cursor
        BY <2>1 DEF IsNew, Start
      <3> QED
        BY <2>1, <2>3, <3>1, <3>2, <3>3
    <2>7. ASSUME NEW j \in 1..n, pending'[j].kind = "more", Trusted',
                 IF policy.more = "guarded" THEN pending'[j].current ELSE ~pending'[j].late
          PROVE  Follows(j)
      <3>1. policy.more # "guarded" /\ ~pending[j].late /\ pending[j].kind = "more"
        BY <2>2, <2>7
      <3>2. Continues(pending[j])
        BY <1>4, <2>7 DEF MoreInv, n
      <3>3. \/ Matches /\ Start(pending[j]) = Len(ui.shown) + 1
            \/ Coming
        BY <2>3, <2>7, <3>1, <3>2 DEF Continues
      <3> QED
        BY <2>1, <2>2, <2>3, <2>4, <3>3
    <2>8. \A j \in 1..Len(pending') : j = n + 1 \/ j \in 1..n
      BY <2>1
    <2>9. MoreInv'
      <3>1. \A j \in 1..Len(pending') :
              pending'[j].kind = "more" /\ Trusted'
              /\ (IF policy.more = "guarded" THEN pending'[j].current ELSE ~pending'[j].late) => Follows(j)
        BY <2>6, <2>7, <2>8
      <3> QED
        BY <1>2, <3>1 DEF MoreInv, Continues, Start
    <2> QED
      BY <2>5, <2>9
  <1>11. CASE AsksChange
    <2> DEFINE n == Len(pending)
    <2>1. /\ Len(pending') = n + 1 /\ n \in Nat /\ excuse' = excuse
          /\ ui'.q = ui.q /\ ui'.applied = ui.applied /\ ui'.shown = ui.shown /\ ui'.cursor = ui.cursor
          /\ \A k \in 1..n : k \in 1..Len(pending') /\ pending'[k] = pending[k]
          /\ pending'[n + 1].kind = "change"
      BY <1>1, <1>11 DEF AsksChange, IsNew, Still, SameBut, Shell
    <2>2. Coming => Coming'
      BY <1>3, <2>1 DEF Coming
    <2>3. \A j \in 1..Len(pending') : pending'[j].kind = "more" => j \in 1..n
      BY <2>1
    <2> QED
      BY <1>2, <1>4, <2>1, <2>2, <2>3, QuietStep
  <1>12. ASSUME NEW i \in 1..Len(pending), ServesOne(i) PROVE Goal
    <2>1. /\ Len(pending') = Len(pending) /\ ui' = ui /\ excuse' = excuse
          /\ \A k \in 1..Len(pending) : /\ pending'[k].kind = pending[k].kind /\ pending'[k].q = pending[k].q
                                        /\ pending'[k].current = pending[k].current
                                        /\ pending'[k].late = pending[k].late
          /\ \A k \in 1..Len(pending) : k # i => pending'[k] = pending[k]
      BY <1>12 DEF ServesOne
    <2>2. Coming => Coming'
      BY <1>3, <2>1 DEF Coming, Eligible
    <2>3. Start(pending'[i]) = Start(pending[i])
      <3>1. /\ pending'[i].got # <<>>
            /\ \A j \in 1..Len(pending[i].got) : pending'[i].got[j] = pending[i].got[j]
            /\ pending'[i].got[Len(pending[i].got) + 1].page = pending[i].page
        BY <1>12 DEF ServesOne
      <3>2. CASE pending[i].got = <<>>
        <4>1. Len(pending[i].got) + 1 = 1
          BY <3>2
        <4> QED
          BY <3>1, <3>2, <4>1 DEF Start
      <3>3. CASE pending[i].got # <<>>
        <4>1. pending[i].got \in Seq(Chunk)
          BY <1>1 DEF Req
        <4>2. 1 \in 1..Len(pending[i].got)
          BY <3>3, <4>1, SeqFacts
        <4> QED
          BY <3>1, <3>3, <4>2 DEF Start
      <3> QED
        BY <3>2, <3>3
    <2>4. \A k \in 1..Len(pending) : Start(pending'[k]) = Start(pending[k])
      BY <2>1, <2>3
    <2> QED
      BY <1>2, <1>4, <2>1, <2>2, <2>4, QuietStep
  <1>13. ASSUME NEW i \in 1..Len(pending), Leaves(pending', i), ~Eligible(pending[i])
         PROVE  Coming => Coming'
    BY <1>1, <1>3, <1>13, ComingLeft
  \* Request i ends unheard, or fails without being a load.
  <1>14. ASSUME NEW i \in 1..Len(pending), Leaves(pending', i), ~Eligible(pending[i]), excuse' = excuse,
                ui'.q = ui.q, ui'.applied = ui.applied, ui'.shown = ui.shown, ui'.cursor = ui.cursor
         PROVE  Goal
    <2>1. \A j \in 1..Len(pending') : /\ Old(i, j) \in 1..Len(pending)
                                      /\ Same(pending'[j], pending[Old(i, j)])
                                      /\ pending'[j].current = pending[Old(i, j)].current
                                      /\ pending[Old(i, j)].late => pending'[j].late
      BY <1>1, <1>14, LeftFacts
    <2>2. \A j \in 1..Len(pending') :
            /\ pending'[j].kind = pending[Old(i, j)].kind /\ pending'[j].q = pending[Old(i, j)].q
            /\ Start(pending'[j]) = Start(pending[Old(i, j)])
      BY <2>1 DEF Same, Start
    <2>3. Coming => Coming'
      BY <1>13, <1>14
    <2> QED
      BY <1>2, <1>4, <1>14, <2>1, <2>2, <2>3, QuietStep
  \* An answer that is applied makes every load more late or outdated.
  <1>15. ASSUME NEW i \in 1..Len(pending), AppliesLoad(i) \/ AppliesMore(i)
         PROVE  MoreInv'
    <2>1. /\ Leaves(pending', i) /\ Overtakes(pending', i) /\ Reads(pending[i])
          /\ pending[i].kind # "change" /\ Accepted(pending[i])
      BY <1>15 DEF AppliesLoad, AppliesMore, Reads
    <2>2. policy.more = "guarded" => \A j \in 1..Len(pending') : ~pending'[j].current
      BY <1>4, <2>1, NewestEnds
    <2>3. \A j \in 1..Len(pending') : pending'[j].kind = "more" => pending'[j].late
      BY <2>1 DEF Overtakes
    <2> QED
      BY <1>2, <2>2, <2>3 DEF MoreInv, Continues
  <1>16. ASSUME NEW i \in 1..Len(pending), AppliesLoad(i) PROVE ScreenInv'
    <2> DEFINE r == pending[i]
    <2>1. /\ r.kind = "load" /\ r.done /\ Accepted(r) /\ Leaves(pending', i)
          /\ ui'.shown = r.got /\ ui'.cursor = NextCursor(r.got) /\ ui'.applied = ui.applied
          /\ (excuse' = "late" => r.late) /\ (excuse' = "none" => ~r.late)
      BY <1>16, AfterFacts DEF AppliesLoad
    <2>2. r \in Req /\ RequestOK(r) /\ RowsOK(r)
      BY <1>1, <1>4 DEF RowsInv
    <2>3. r.got \in Seq(Chunk) /\ r.got # <<>>
      BY <2>1, <2>2 DEF Req, RequestOK
    <2> HIDE DEF r
    <2>4. SUFFICES ASSUME Trusted' PROVE Matches' \/ Coming'
      BY DEF ScreenInv
    <2>5. Eligible(r)
      BY <1>1, <2>1 DEF Accepted, Eligible, PolicyOK
    <2>6. ~r.late \/ Guarded
      BY <1>2, <2>1, <2>4 DEF Trusted, Guarded
    <2>7. r.q = ui.applied \/ \E k \in 1..Len(pending) : i < k /\ Eligible(pending[k])
      BY <1>4, <2>5, <2>6 DEF LoadsInv, r
    <2>8. CASE r.q = ui.applied
      <3>1. \A j \in 1..Len(r.got) : r.got[j].q = ui'.applied /\ r.got[j].page = j
        BY <2>1, <2>2, <2>8 DEF RowsOK
      <3> QED
        BY <1>2, <2>1, <2>3, <3>1, LoadShows
    <2>9. CASE \E k \in 1..Len(pending) : i < k /\ Eligible(pending[k])
      <3>1. PICK k \in 1..Len(pending) : i < k /\ Eligible(pending[k])
        BY <2>9
      <3>2. PICK j \in 1..Len(pending') : Old(i, j) = k
        <4>1. k # i
          BY <1>1, <3>1
        <4> QED
          BY <1>1, <2>1, <4>1, LeftFacts
      <3>3. pending'[j].kind = pending[k].kind /\ pending'[j].current = pending[k].current
        BY <1>1, <2>1, <3>2, LeftFacts DEF Same
      <3> QED
        BY <1>3, <3>1, <3>3 DEF Eligible
    <2> QED
      BY <2>7, <2>8, <2>9
  <1>17. ASSUME NEW i \in 1..Len(pending), AppliesMore(i) PROVE ScreenInv'
    <2> DEFINE r == pending[i]
    <2>1. /\ r.kind = "more" /\ r.done /\ Accepted(r) /\ Leaves(pending', i)
          /\ ui'.shown = ui.shown \o r.got /\ ui'.cursor = NextCursor(r.got)
          /\ ui'.applied = ui.applied /\ ui'.q = ui.q
          /\ IF r.late THEN excuse' = "late"
             ELSE IF r.q # ui.applied THEN excuse' = "mixed" ELSE excuse' = excuse
      BY <1>17 DEF AppliesMore
    <2>2. r \in Req /\ RequestOK(r) /\ RowsOK(r) /\ Continues(r)
      BY <1>1, <1>4 DEF RowsInv, MoreInv
    <2>3. r.got \in Seq(Chunk) /\ r.got # <<>> /\ policy.more # "none"
      BY <2>1, <2>2 DEF Req, RequestOK
    <2>4. policy.more = "guarded" => r.current /\ ~r.late
      BY <1>4, <2>1 DEF Accepted, GuardInv
    <2>5. Coming => Coming'
      <3>1. ~Eligible(pending[i])
        BY <2>1 DEF Eligible
      <3> QED
        BY <1>13, <2>1, <3>1
    <2> HIDE DEF r
    <2>7. SUFFICES ASSUME Trusted' PROVE Matches' \/ Coming'
      BY DEF ScreenInv
    <2>8. ~r.late
      BY <1>2, <1>5, <2>1, <2>3, <2>4, <2>7 DEF Trusted, Guarded
    <2>9. Trusted /\ r.q = ui.applied
      BY <1>2, <2>1, <2>7, <2>8 DEF Trusted, Guarded
    <2>10. \/ Matches /\ Start(r) = Len(ui.shown) + 1
           \/ Coming
      BY <2>1, <2>2, <2>4, <2>8, <2>9 DEF Continues
    <2>11. CASE Matches /\ Start(r) = Len(ui.shown) + 1
      <3>1. Len(r.got) \in Nat /\ 1 \in 1..Len(r.got)
        BY <2>3, SeqFacts
      <3>2. Len(r.got) = 1
        <4> DEFINE n == Len(r.got)
        <4>1. n <= 1 /\ n \in Nat /\ 1 \in 1..n
          BY <2>1, <2>2, <3>1 DEF RowsOK
        <4> HIDE DEF n
        <4>2. n = 1
          BY <4>1
        <4> QED
          BY <4>2 DEF n
      <3>3. r.got[1].q = ui.applied
        BY <2>2, <2>9, <2>11, <3>1 DEF RowsOK
      <3>4. r.got[1].page = Len(ui.shown) + 1
        BY <2>3, <2>11 DEF Start
      <3> QED
        BY <1>2, <2>1, <2>3, <2>11, <3>2, <3>3, <3>4, MoreShows
    <2> QED
      BY <2>5, <2>10, <2>11
  <1>18. ASSUME NEW i \in 1..Len(pending), Ignores(i) PROVE Goal
    <2>1. Leaves(pending', i) /\ ui' = ui /\ excuse' = excuse
      BY <1>18 DEF Ignores, Still
    <2>2. ~Eligible(pending[i])
      BY <1>1, <1>18 DEF Ignores, Accepted, Eligible, PolicyOK
    <2> QED
      BY <1>14, <2>1, <2>2
  <1>19. ASSUME NEW i \in 1..Len(pending), Breaks(i) PROVE Goal
    <2>1. Leaves(pending', i) /\ ui'.q = ui.q /\ ui'.applied = ui.applied
      BY <1>19 DEF Breaks
    <2>2. CASE pending[i].kind = "load"
      <3>1. excuse' = "failed"
        BY <1>19, <2>2 DEF Breaks
      <3>2. ~Trusted'
        BY <3>1 DEF Trusted
      <3> QED
        BY <3>2 DEF ScreenInv, MoreInv, Continues
    <2>3. CASE pending[i].kind # "load"
      <3>1. excuse' = excuse /\ ui'.shown = ui.shown /\ ui'.cursor = ui.cursor
        BY <1>19, <2>3 DEF Breaks
      <3>2. ~Eligible(pending[i])
        BY <2>3 DEF Eligible
      <3> QED
        BY <1>14, <2>1, <3>1, <3>2
    <2> QED
      BY <2>2, <2>3
  <1>20. ASSUME NEW i \in 1..Len(pending), Acknowledges(i) PROVE Goal
    <2>1. /\ policy.more = "none" /\ pending[i].kind = "change" /\ pending[i].done
          /\ pending[i].how \in policy.change
      BY <1>1, <1>5, <1>20 DEF Acknowledges, RequestOK
    <2>2. Leaves(Overtaken(i), i) /\ Overtaken(i) \in Seq(Req)
      BY <1>1, OvertakenFacts DEF Leaves
    <2>3. MoreInv'
      BY <1>2, <2>1 DEF MoreInv, Continues
    <2>4. ~Eligible(pending[i])
      BY <2>1 DEF Eligible
    <2>5. CASE Sends(ui, Overtaken(i), policy.starts)
      BY <1>1, <1>6, <2>2, <2>5
    <2>6. CASE /\ excuse' = excuse /\ pending' = Overtaken(i) /\ Shell(ui')
               /\ Len(ui'.shown) = Len(ui.shown)
               /\ \A j \in 1..Len(ui.shown) : ui'.shown[j].q = ui.shown[j].q /\ ui'.shown[j].page = ui.shown[j].page
      <3>1. Coming => Coming'
        BY <1>13, <2>2, <2>4, <2>6
      <3>2. Matches => Matches'
        BY <1>2, <2>1, <2>6 DEF Matches, Shell
      <3>3. Trusted' => Trusted
        BY <1>2, <2>6 DEF Trusted, Guarded
      <3> QED
        BY <1>4, <2>3, <3>1, <3>2, <3>3 DEF ScreenInv
    <2>7. CASE /\ pending[i].how = "answer" /\ Shell(ui') /\ ui'.shown = pending[i].got
      <3>1. ~policy.filters /\ ~policy.windows
        BY <1>1, <2>1, <2>7 DEF PolicyOK
      <3>2. RowsOK(pending[i]) /\ pending[i].got \in Seq(Chunk) /\ pending[i].got # <<>>
        BY <1>1, <1>4, <2>1 DEF RowsInv, RequestOK, Req
      <3>3. ui'.applied = ui.applied
        BY <2>7 DEF Shell
      <3>4. \A j \in 1..Len(pending[i].got) : pending[i].got[j].q = ui'.applied /\ pending[i].got[j].page = j
        BY <2>1, <3>1, <3>2, <3>3 DEF RowsOK
      <3>5. Matches'
        BY <1>2, <2>1, <2>7, <3>2, <3>4, LoadShows
      <3> QED
        BY <2>3, <3>5 DEF ScreenInv
    <2> QED
      BY <1>20, <2>5, <2>6, <2>7 DEF Acknowledges
  <1> QED
    BY <1>7, <1>8, <1>9, <1>10, <1>11, <1>12, <1>15, <1>16, <1>17, <1>18, <1>19, <1>20 DEF StepForms

\* A form shows nothing but the answer to what it says.
LEMMA FormStep ==
    ASSUME PagesAssumption, Base, ShowInv, StepForms
    PROVE  FormInv'
  <1>1. /\ PolicyOK(policy) /\ pending \in Seq(Req) /\ Len(pending) \in Nat
        /\ \A i \in 1..Len(pending) : pending[i] \in Req /\ RequestOK(pending[i])
    BY BaseFacts
  <1>2. policy' = policy /\ FormInv /\ LoadsInv
    BY Origins DEF ShowInv
  <1>3. Coming' <=> \E j \in 1..Len(pending') : Eligible(pending'[j])
    BY <1>2, ComingPrimed
  <1>4. SUFFICES ASSUME ~policy.eager, policy.poll # "ends", Trusted', ~Coming'
                 PROVE  ui'.q = ui'.applied \/ ui'.shown = <<>>
    BY <1>2 DEF FormInv
  <1>5. /\ ~policy.guard /\ policy.change = {} /\ policy.more = "none"
        /\ "dropData" \in policy.starts
    BY <1>1, <1>4 DEF PolicyOK
  <1>6. excuse' = "none" /\ ~Guarded
    BY <1>2, <1>4, <1>5 DEF Trusted, Guarded
  <1> DEFINE Goal == ui'.q = ui'.applied \/ ui'.shown = <<>>
  <1>7. ASSUME excuse' = excuse, ui' = ui, Coming => Coming' PROVE Goal
    BY <1>2, <1>4, <1>6, <1>7 DEF FormInv, Trusted
  <1>8. CASE AsksLoad
    BY <1>8 DEF AsksLoad, Sends
  <1>9. CASE AsksNothing
    BY <1>5, <1>9 DEF AsksNothing
  <1>10. CASE Moves \/ Stutters
    <2>1. pending' = pending /\ excuse' = excuse /\ ui' = ui
      BY <1>10 DEF Moves, Stutters
    <2> QED
      BY <1>3, <1>7, <2>1 DEF Coming
  <1>11. ~AsksMore /\ ~AsksChange
    BY <1>5 DEF AsksMore, AsksChange
  <1>12. ASSUME NEW i \in 1..Len(pending), ServesOne(i) PROVE Goal
    <2>1. /\ Len(pending') = Len(pending) /\ ui' = ui /\ excuse' = excuse
          /\ \A k \in 1..Len(pending) : pending'[k].kind = pending[k].kind
                                        /\ pending'[k].current = pending[k].current
      BY <1>12 DEF ServesOne
    <2> QED
      BY <1>3, <1>7, <2>1 DEF Coming, Eligible
  <1>13. ASSUME NEW i \in 1..Len(pending), AppliesLoad(i) PROVE Goal
    <2> DEFINE r == pending[i]
    <2>1. /\ r.kind = "load" /\ Leaves(pending', i)
          /\ ui'.applied = ui.applied /\ ui'.q = ui.q
          /\ ~r.late /\ r.q = ui.q
      BY <1>4, <1>6, <1>13, AfterFacts DEF AppliesLoad
    <2>2. Eligible(r)
      BY <1>5, <2>1 DEF Eligible
    <2>3. r.q = ui.applied \/ \E k \in 1..Len(pending) : i < k /\ Eligible(pending[k])
      BY <1>2, <2>1, <2>2 DEF LoadsInv
    <2>4. ASSUME NEW k \in 1..Len(pending), i < k, Eligible(pending[k]) PROVE FALSE
      <3>1. PICK j \in 1..Len(pending') : Old(i, j) = k
        BY <1>1, <2>1, <2>4, LeftFacts
      <3>2. pending'[j].kind = pending[k].kind /\ pending'[j].current = pending[k].current
        BY <1>1, <2>1, <3>1, LeftFacts DEF Same
      <3> QED
        BY <1>3, <1>4, <2>4, <3>2 DEF Eligible
    <2> QED
      BY <2>1, <2>3, <2>4
  <1>14. ASSUME NEW i \in 1..Len(pending), AppliesMore(i) \/ Acknowledges(i) PROVE FALSE
    BY <1>1, <1>5, <1>14 DEF AppliesMore, Acknowledges, RequestOK
  <1>15. ASSUME NEW i \in 1..Len(pending), Ignores(i) PROVE Goal
    <2>1. Leaves(pending', i) /\ ui' = ui /\ excuse' = excuse
      BY <1>15 DEF Ignores, Still
    <2>2. ~Eligible(pending[i])
      BY <1>1, <1>15 DEF Ignores, Accepted, Eligible, PolicyOK
    <2> QED
      BY <1>1, <1>3, <1>7, <2>1, <2>2, ComingLeft
  <1>16. ASSUME NEW i \in 1..Len(pending), Breaks(i) PROVE Goal
    <2>1. pending[i].kind # "change" /\ pending[i].kind # "more"
      BY <1>1, <1>5 DEF RequestOK
    <2>2. pending[i].kind = "load"
      BY <1>1, <2>1 DEF Req
    <2> QED
      BY <1>6, <1>16, <2>2 DEF Breaks
  <1> QED
    BY <1>8, <1>9, <1>10, <1>11, <1>12, <1>13, <1>14, <1>15, <1>16 DEF StepForms

LEMMA ShowStep ==
    ASSUME PagesAssumption, Base, SpinnerInv, ShowInv, StepForms
    PROVE  ShowInv'
  BY QueryStep, RowsStep, GuardStep, LoadsStep, ScreenStep, FormStep DEF ShowInv

LEMMA ShowInit ==
    ASSUME PagesAssumption, Init
    PROVE  ShowInv
  <1> DEFINE r == Request("load", ui, 1, "none", {})
  <1>1. Base
    BY BaseInit
  <1>2. /\ PolicyOK(policy) /\ ui \in UI
    BY <1>1, BaseFacts
  <1>3. /\ ui.q = First /\ ui.applied = First /\ ui.shown = <<>> /\ ui.cursor = 0
        /\ excuse = "none" /\ ui.loading = (policy.eager /\ "spinner" \in policy.starts)
        /\ pending = IF policy.eager THEN <<r>> ELSE <<>>
    BY DEF Init
  <1>4. First.window = "ok"
    BY DEF First
  <1>10. FormInv
    BY <1>3 DEF FormInv
  <1>5. IsNew(r, "load", ui, 1, "none", {})
    <2>1. 1 \in 1..MaxPages /\ {} \in SUBSET Changes
      BY DEF PagesAssumption
    <2> QED
      BY <1>2, <2>1, RequestFacts
  <1> HIDE DEF r
  <1>6. /\ r.kind = "load" /\ r.page = 1 /\ r.got = <<>> /\ ~r.done /\ r.current /\ ~r.late /\ r.q = First
    BY <1>3, <1>5 DEF IsNew
  <1>7. QueryInv
    BY <1>3, <1>4 DEF QueryInv
  <1>8. CASE policy.eager
    <2>1. Len(pending) = 1 /\ pending[1] = r
      BY <1>3, <1>8
    <2>2. 1 \in 1..Len(pending) /\ \A i \in 1..Len(pending) : i = 1 /\ pending[i] = r /\ i = Len(pending)
      BY <2>1
    <2>3. Eligible(r) /\ Coming
      BY <1>6, <2>2 DEF Coming, Eligible
    <2>4. RowsOK(r)
      BY <1>3, <1>6 DEF RowsOK
    <2>5. RowsInv
      BY <2>2, <2>4 DEF RowsInv
    <2>6. policy.more = "guarded" => ui.loading
      BY <1>2, <1>3, <1>8 DEF PolicyOK
    <2>7. GuardInv
      <3>1. \A i, k \in 1..Len(pending) : ~(i < k)
        BY <2>1
      <3>2. \A i \in 1..Len(pending) : i = Len(pending) /\ ~pending[i].late
        BY <1>6, <2>2
      <3> QED
        BY <2>6, <3>1, <3>2 DEF GuardInv
    <2>8. LoadsInv
      BY <1>3, <1>6, <2>2 DEF LoadsInv
    <2>9. ScreenInv /\ MoreInv
      BY <2>3 DEF ScreenInv, MoreInv, Continues
    <2> QED
      BY <1>7, <1>10, <2>5, <2>7, <2>8, <2>9 DEF ShowInv
  <1>9. CASE ~policy.eager
    <2>1. \A i \in 1..Len(pending) : FALSE
      BY <1>3, <1>9
    <2>2. policy.more = "none"
      BY <1>2, <1>9 DEF PolicyOK
    <2>3. RowsInv /\ GuardInv /\ LoadsInv /\ MoreInv
      BY <2>1, <2>2 DEF RowsInv, GuardInv, LoadsInv, MoreInv
    <2>4. Matches
      BY <1>3, <2>2 DEF Matches
    <2> QED
      BY <1>7, <1>10, <2>3, <2>4 DEF ShowInv, ScreenInv
  <1> QED
    BY <1>8, <1>9

LEMMA ShowImplies ==
    ASSUME PagesAssumption, Base, ShowInv
    PROVE  ShownMatchesQuery
  <1>1. DOMAIN pending = 1..Len(pending) /\ ui.shown \in Seq(Chunk)
    BY BaseFacts
  <1>2. DOMAIN ui.shown = 1..Len(ui.shown)
    BY <1>1, SeqFacts
  <1>3. Settled => ~Coming
    BY <1>1 DEF Settled, Coming, Eligible, Reads
  <1>4. SUFFICES ASSUME Settled, Trusted
                 PROVE  /\ \A j \in DOMAIN ui.shown :
                             ui.shown[j].q = ui.applied /\ ui.shown[j].page = j /\ ~ui.shown[j].lost
                        /\ policy.more # "none" =>
                             ui.cursor = IF Len(ui.shown) < MaxPages THEN Len(ui.shown) + 1 ELSE 0
                        /\ \/ ui.q = ui.applied \/ ui.shown = <<>>
                           \/ ui.q.window # "ok" \/ policy.poll = "ends"
    BY DEF ShownMatchesQuery, Trusted, Guarded
  <1>5. Matches
    BY <1>3, <1>4 DEF ShowInv, ScreenInv
  <1>6. \A j \in 1..Len(ui.shown) : ~ui.shown[j].lost
    BY <1>4, BaseFacts DEF LostInv, Trusted
  <1>7. ui.q = ui.applied \/ ui.shown = <<>> \/ ui.q.window # "ok" \/ policy.poll = "ends"
    BY <1>3, <1>4 DEF ShowInv, QueryInv, FormInv
  <1> QED
    BY <1>2, <1>5, <1>6, <1>7 DEF Matches

\* A settled page shows all rows of its last load, from the first page on and
\* without a gap, offers the page after them, and that load asked for what is
\* selected.  Where every request is under a guard no reordering of answers can
\* break this; what can is a load that failed or lost a part, an answer applied
\* after a newer one, and the two exceptions of RuntimeLineage and BackfillPlan.
THEOREM ShownAlwaysMatchesQuery == Spec => []ShownMatchesQuery
  <1>1. PagesAssumption
    BY PagesAssumption
  <1> DEFINE Inv == Base /\ SpinnerInv /\ ShowInv
  <1>2. Init => Inv
    BY <1>1, BaseInit, SpinnerInit, ShowInit
  <1>3. Inv /\ [Next]_vars => Inv'
    <2> SUFFICES ASSUME Base, SpinnerInv, ShowInv, [Next]_vars PROVE Base' /\ SpinnerInv' /\ ShowInv'
      OBVIOUS
    <2>1. StepForms
      BY <1>1, StepCases
    <2> QED
      BY <1>1, <2>1, BaseStep, SpinnerStep, ShowStep
  <1>4. Inv => ShownMatchesQuery
    BY <1>1, ShowImplies
  <1> QED
    BY <1>2, <1>3, <1>4, PTL DEF Spec
=============================================================================
