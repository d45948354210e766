-------------------------- MODULE WorkspaceLineage --------------------------
(***************************************************************************)
(* A workspace whose pipelines are saved and promoted again and again,     *)
(* seen through the architecture and the runtime view of the lineage page: *)
(* the graph the API builds from the versions, the filters in front of it, *)
(* the layout and the impact of a selected node, and what the gate of a    *)
(* promotion lets a new version change.                                    *)
(***************************************************************************)
EXTENDS LineageGraph

CONSTANTS
    Slots,     \* sequence of <<name, environment>>, by environment, then name
    Drafts,    \* Drafts[i]: the definitions saved or promoted into slot i
    Health,    \* Health[i]: the health of the pipeline in slot i
    Layers, Domains, Queries  \* what a user filters by, "" among each

None == <<>>

\* What the validation of a definition lets through, beside its shape: nodes
\* with different ids, edges among them, no cycle.
IsPublished(def) ==
    LET ids == {def.nodes[k].id : k \in DOMAIN def.nodes}
    IN  /\ def # None
        /\ def.nodes \in Seq(ToSet(def.nodes)) /\ def.edges \in Seq(ids \X ids)
        /\ \A j, k \in DOMAIN def.nodes : def.nodes[j].id = def.nodes[k].id => j = k
        /\ \A S \in SUBSET ids : S # {} =>
                \E m \in S : \A k \in DOMAIN def.edges : def.edges[k][2] = m => def.edges[k][1] \notin S

\* What a contract says of a field's absence is yes or no.
HasFields(def) ==
    \A k \in DOMAIN def.nodes : \A f \in DOMAIN def.nodes[k].spec.schema :
        def.nodes[k].spec.schema[f].nullable \in BOOLEAN

ASSUME LineageAssumption ==
    /\ Slots \in Seq(ToSet(Slots)) /\ DOMAIN Drafts = DOMAIN Slots /\ DOMAIN Health = DOMAIN Slots
    /\ \A i \in DOMAIN Slots : \A def \in Drafts[i] : IsPublished(def) /\ HasFields(def)
    /\ "" \in Layers \cap Domains \cap Queries

VARIABLES
    versions,  \* the version in each slot, None before the first
    view       \* the tab and its filters

vars == <<versions, view>>

Opened(tab) == [tab |-> tab, env |-> "", health |-> "", domain |-> "", layer |-> "", query |-> "",
                depth |-> 0, selected |-> <<>>, activeOnly |-> tab = "runtime"]

Init ==
    /\ versions = [i \in DOMAIN Slots |-> None]
    /\ view = Opened("runtime")

-----------------------------------------------------------------------------
(* What the page shows *)

\* The rows the API lists for the environment chosen: of each pipeline the active
\* version, or else the latest.
listed == {i \in DOMAIN Slots : versions[i] # None /\ view.env \in {"", Slots[i][2]}}

Touched == [i \in DOMAIN Slots |-> [def \in Drafts[i] |-> Touches(i, def)]]

\* The runtime view drops the columns of the same graph.
Shown(g) == IF view.tab = "runtime" THEN [g EXCEPT !.columns = {}] ELSE g
graph == Shown(buildWorkspaceLineage([i \in listed |-> Touched[i][versions[i]]], listed, Slots))

Sick(health) == {Pipeline(i) : i \in {r \in listed : Health[r] = health}}

\* Pipelines with runs in the window; with a layer, the runs counted are those
\* of a definition that names it.
Names(def, layer) == layer = "" \/ \E k \in DOMAIN def.nodes : def.nodes[k].layer = layer
Active == {Pipeline(i) : i \in {r \in listed : Health[r] # "unmonitored" /\ Names(versions[r], view.layer)}}

\* The graph behind the layout: the runtime view hides idle pipelines first.
OnlyActive(g) == IF view.activeOnly THEN activeFilter(g, Active) ELSE g
filteredGraph == filterWorkspaceLineage(OnlyActive(graph), versions, Slots, view)

\* And what the health filter leaves of it.
OnlySick(g) == IF view.health = "" THEN g ELSE healthFilter(g, Sick(view.health) \cap g.nodes)
visible == OnlySick(filteredGraph)

-----------------------------------------------------------------------------
(* Steps *)

Becomes(i, def) ==
    /\ def # versions[i]
    /\ versions' = [versions EXCEPT ![i] = def]
    /\ UNCHANGED view

\* A draft is saved, or a version activated, in the Integration environment.
Publish(i, def) ==
    /\ Slots[i][2] = "test"
    /\ Becomes(i, def)

\* A version is promoted: it must keep the contracts of the one in production.
Promote(i, def) ==
    /\ Slots[i][2] = "prod"
    /\ Becomes(i, def)
    /\ versions[i] # None =>
        compareContracts(extractContracts(versions[i]), extractContracts(def)) = {}

\* An owner allows the break, or activates an archived version, which nothing
\* is compared with.
Override(i, def) ==
    /\ Slots[i][2] = "prod" /\ versions[i] # None
    /\ Becomes(i, def)

\* A tab is mounted anew each time.
setTab(tab) ==
    /\ view.tab # tab
    /\ view' = Opened(tab)
    /\ UNCHANGED versions

setEnvironment(env) ==
    /\ view.env # env
    /\ view' = [view EXCEPT !.env = env]
    /\ UNCHANGED versions

\* Health, domain and search clear the selection, not the depth of the focus.
setFilter(field, value) ==
    /\ view.tab = "architecture"
    /\ view[field] # value
    /\ view' = [view EXCEPT ![field] = value, !.selected = <<>>]
    /\ UNCHANGED versions

setFocusDepth(depth) ==
    /\ view.tab = "architecture"
    /\ view.selected \in visible.nodes
    /\ view.depth # depth
    /\ view' = [view EXCEPT !.depth = depth]
    /\ UNCHANGED versions

\* A node, or the empty canvas, is clicked.
setSelected(n) ==
    /\ view.tab = "architecture"
    /\ view.selected # n
    /\ view' = [view EXCEPT !.selected = n]
    /\ UNCHANGED versions

clearFilters ==
    /\ view.tab = "architecture"
    /\ view # Opened("architecture")
    /\ view' = Opened("architecture")
    /\ UNCHANGED versions

setRuntimeFilter ==
    /\ view.tab = "runtime"
    /\ \/ \E l \in Layers \ {view.layer} : view' = [view EXCEPT !.layer = l]
       \/ view' = [view EXCEPT !.activeOnly = ~@]
    /\ UNCHANGED versions

Next ==
    \/ \E i \in DOMAIN Slots : \E def \in Drafts[i] :
        Publish(i, def) \/ Promote(i, def) \/ Override(i, def)
    \/ \E tab \in {"architecture", "runtime"} : setTab(tab)
    \/ \E env \in {"", "prod"} : setEnvironment(env)
    \/ \E h \in {"", "critical"} : setFilter("health", h)
    \/ \E d \in Domains : setFilter("domain", d)
    \/ \E q \in Queries : setFilter("query", q)
    \/ \E depth \in 0..2 : setFocusDepth(depth)
    \/ \E n \in visible.nodes \cup {<<>>} : setSelected(n)
    \/ clearFilters
    \/ setRuntimeFilter

Spec == Init /\ [][Next]_vars

-----------------------------------------------------------------------------
(* Properties *)

Closed(all, filtered, drawn) ==
    /\ \A e \in Links(drawn) : e.source \in drawn.nodes /\ e.target \in drawn.nodes
    /\ \A c \in filtered.columns : Asset(c.from) \in filtered.nodes /\ Asset(c.to) \in filtered.nodes
    /\ drawn.nodes \subseteq all.nodes
    /\ filtered.nodes = all.nodes => filtered = all

\* Every edge of what is drawn joins two nodes that are drawn, which the layout
\* and the walks take for granted; the columns listed with a selected asset end
\* in assets the filters leave (the health filter, which comes after them, may
\* hide one end); and a filter that hides nothing changes nothing, the shared
\* assets counted by the browser being those counted by the API.
ViewIsClosed == Closed(graph, filteredGraph, visible)

\* Reference for the focus: the nodes within some number of hops.
Within(g, allowed, n, depth) ==
    LET ball[d \in 0..depth] ==
            IF d = 0 THEN {n}
            ELSE {m \in allowed : m \in ball[d - 1] \/ neighbours(g, m) \cap ball[d - 1] # {}}
    IN  ball[depth]

\* Reference for the walks: in every set closed under the edges.
ReachedFrom(g, n) ==
    {m \in g.nodes : \A S \in SUBSET g.nodes :
        (n \in S /\ \A e \in Links(g) : e.source \in S => e.target \in S) => m \in S}

Focused(all, filtered, drawn, n) ==
    n \in drawn.nodes =>
        /\ view.depth > 0 =>
            filtered.nodes = Within(all, Allowed(all, versions, Slots, view), n, view.depth)
        /\ downstream(drawn, n) = ReachedFrom(drawn, n) \ {n}
        /\ \A m \in drawn.nodes \ {n} : m \in upstream(drawn, n) <=> n \in downstream(drawn, m)

\* The focus shows exactly the nodes within its depth that the other filters
\* leave, and the impact of the selected node is exactly what depends on it in
\* the drawn graph, whatever loops the pipelines form through their assets.
FocusIsBall == Focused(graph, filteredGraph, visible, view.selected)

\* Nodes that no cycle comes before.
Settled(g) ==
    {n \in g.nodes : ~\E S \in SUBSET g.nodes :
        n \in S /\ \A m \in S : \E e \in Links(g) : e.target = m /\ e.source \in S}

\* Reference for the layout: the longest path, and left of every node fed.
Layered(g, column) ==
    \A n \in Settled(g) :
        /\ column[n] = Max({0} \cup {column[e.source] + 1 : e \in {d \in Links(g) : d.target = n}})
        /\ \A e \in Links(g) : e.source = n => column[n] < column[e.target]

InOrder(def, steps) ==
    /\ Len(steps) = Len(def.nodes)
    /\ ToSet(steps) = {n.id : n \in ToSet(def.nodes)}
    /\ \A i, j \in DOMAIN steps : <<steps[i], steps[j]>> \in ToSet(def.edges) => i < j

Laid(drawn) == Layered(drawn, rank(drawn))

\* Data flows from left to right: the column of a node that no cycle comes
\* before is the length of the longest path to it, and it is left of every
\* node it feeds; the steps of a run are all listed, once, producers first.
DataFlowsRight ==
    /\ Laid(filteredGraph)
    /\ \A i \in listed : InOrder(versions[i], orderSteps(versions[i]))

\* A chain from its first node to its last, with one contract, an object, and no map.
Straight(def) ==
    LET contracts == {k \in DOMAIN def.nodes : IsContract(def.nodes[k])}
    IN  /\ Len(Chain(def)) = Len(def.nodes)
        /\ Cardinality(contracts) = 1 /\ \A k \in contracts : def.nodes[k].spec.kind = "object"
        /\ ~\E k \in DOMAIN def.nodes : IsMap(def.nodes[k])

\* What the lineage says that a sink writes.
Written(def, sink) ==
    LET visits == SelectSeq(Chain(def), LAMBDA v : v.node = sink)
    IN  IF visits = <<>> THEN NoSchema ELSE visits[1].fields

KeepsFields(old, new) ==
    \A sink \in {n.id : n \in {m \in ToSet(old.nodes) : m.type = "sink"}} :
        \A f \in DOMAIN Written(old, sink) :
            /\ f \in DOMAIN Written(new, sink)
            /\ Written(new, sink)[f].type = Written(old, sink)[f].type

\* A promotion that the gate lets through takes no field, and no type of one,
\* from what the lineage shows a sink of the production version to write: the
\* gate searches contracts upwards over every edge, the lineage walks one chain
\* down, and on a chain with one contract they agree.
PromotionKeepsPublished ==
    [][\A i \in DOMAIN Slots : \A def \in Drafts[i] :
        Promote(i, def) /\ versions[i] # None /\ Straight(versions[i]) /\ Straight(def) =>
            KeepsFields(versions[i], def)]_versions
=============================================================================
