---------------------------- MODULE LineageGraph ----------------------------
(***************************************************************************)
(* The lineage algorithms: the workspace graph the API builds from the     *)
(* versions of its pipelines, the gate that compares the contracts of two  *)
(* of them, and what the two lineage views make of the graph: filters,     *)
(* focus, layered layout, impact walks and the order of steps.             *)
(*                                                                         *)
(* A graph is [nodes, assets, edges, columns, shared]: edges numbers its   *)
(* edges in the order they were added, and keeps the numbers when some are *)
(* filtered out; shared are the assets that more than one pipeline uses.   *)
(*                                                                         *)
(* A definition is [nodes, edges, domain]: a sequence of nodes             *)
(* [id, type, act, place, layer, spec] and one of edges <<s,t>>.  place is *)
(* <<bucket, key>>, Nil the text of what is not set; spec is how a         *)
(* contract or map reads: [kind, schema, pairs], kind "object", "text" or  *)
(* Bad (not a JSON object), schema from fields to [type, nullable], pairs  *)
(* from the fields a map writes to the ones it reads.                      *)
(***************************************************************************)
EXTENDS SequencesExt

\* What a loop holds after some rounds, h being what one round makes of a state.
Iterate(h, start, rounds) ==
    LET run[k \in 0..rounds] == IF k = 0 THEN start ELSE h[run[k - 1]]
    IN  run[rounds]

\* The elements of a sequence that are kept, in their order.
Filter(s, kept) == FlattenSeq([k \in DOMAIN s |-> IF s[k] \in kept THEN <<s[k]>> ELSE <<>>])

NoSchema == [f \in {} |-> 0]
Bad == "bad"
Nil == "<nil>"

NodeIds(def) == {def.nodes[k].id : k \in DOMAIN def.nodes}
NodeOf(def, id) == def.nodes[CHOOSE k \in DOMAIN def.nodes : def.nodes[k].id = id]
IsContract(node) == node.act = <<"transform", "contract">>
IsMap(node) == node.act = <<"transform", "map">>

-----------------------------------------------------------------------------
(* The chain of a definition *)

\* What is not set is read as the text Nil, so only an empty text, typed and
\* saved, leaves a connector without an asset, whatever system it connects to.
Placed(node) == node.type \in {"source", "sink"} /\ "" \notin {node.place[1], node.place[2], node.layer}

\* A visit is [node, from, fields]: a node of the chain, the last source before
\* it, and for each field known there where it comes from and what it is.
FieldNames(def) ==
    UNION {DOMAIN n.spec.schema \cup DOMAIN n.spec.pairs : n \in ToSet(def.nodes)}
Origins(def) ==
    [from : {<<>>} \cup {<<n.place>> : n \in ToSet(def.nodes)}, field : FieldNames(def),
     type : UNION {{n.spec.schema[f].type : f \in DOMAIN n.spec.schema} : n \in ToSet(def.nodes)}, nullable : BOOLEAN]
Visits(def) ==
    [node : NodeIds(def), from : {<<>>} \cup {<<n.place>> : n \in ToSet(def.nodes)},
     fields : UNION {[F -> Origins(def)] : F \in SUBSET FieldNames(def)}]

Known(visits) == IF visits = <<>> THEN NoSchema ELSE Last(visits).fields

\* A contract states its fields anew, a map keeps the known ones it reads,
\* unless it reads none.
FieldsAfter(node, from, known) ==
    LET stated == IF IsContract(node) /\ node.spec.kind # Bad THEN DOMAIN node.spec.schema ELSE {}
        read == IF IsMap(node) THEN {f \in DOMAIN node.spec.pairs : node.spec.pairs[f] \in DOMAIN known} ELSE {}
    IN  IF read # {} THEN [f \in read |-> known[node.spec.pairs[f]]]
        ELSE [f \in DOMAIN known \cup stated |->
                IF f \in stated THEN [from |-> from, field |-> f, type |-> node.spec.schema[f].type,
                                      nullable |-> node.spec.schema[f].nullable]
                ELSE known[f]]

Visit(def, visits, id) ==
    LET node == NodeOf(def, id)
        before == IF visits = <<>> THEN <<>> ELSE Last(visits).from
        from == IF node.type = "source" /\ Placed(node) THEN <<node.place>> ELSE before
    IN  [node |-> id, from |-> from, fields |-> FieldsAfter(node, from, Known(visits))]

\* It starts at the first node without incoming edges and leaves each node by
\* the last of its edges: of a definition that branches, one branch.
Heads(def) == {k \in DOMAIN def.nodes : ~\E j \in DOMAIN def.edges : def.edges[j][2] = def.nodes[k].id}
Leaving(def, id) == {k \in DOMAIN def.edges : def.edges[k][1] = id}

Following(def, visits) ==
    IF visits = <<>>
    THEN {def.nodes[k].id : k \in {j \in Heads(def) : \A i \in Heads(def) : j <= i}}
    ELSE LET leaving == Leaving(def, Last(visits).node)
         IN  {def.edges[k][2] : k \in {j \in leaving : \A i \in leaving : i <= j}}

VisitNext(def, visits) ==
    LET next == Following(def, visits)
    IN  IF next = {} THEN visits ELSE Append(visits, Visit(def, visits, CHOOSE id \in next : TRUE))

\* Without a cycle no chain has more visits than there are nodes.
Chain(def) ==
    Iterate([visits \in Seq(Visits(def)) |-> VisitNext(def, visits)], <<>>, Len(def.nodes))

-----------------------------------------------------------------------------
(* The workspace graph *)

Pipeline(row) == <<"pipeline", row>>
Asset(urn) == <<"asset", urn>>
Edge(s, t) == [source |-> s, target |-> t]

\* What a pipeline does to its assets, in the order of its chain.
Touch(row, def, visit) ==
    LET node == NodeOf(def, visit.node)
    IN  IF ~Placed(node) THEN <<>>
        ELSE <<[row |-> row, node |-> node.id, dir |-> node.type, urn |-> node.place, layer |-> node.layer,
                fields |-> IF node.type = "sink" THEN visit.fields ELSE NoSchema]>>

Touches(row, def) ==
    LET visits == Chain(def)
    IN  FlattenSeq([k \in DOMAIN visits |-> Touch(row, def, visits[k])])

TouchEdge(t) == IF t.dir = "source" THEN Edge(Asset(t.urn), Pipeline(t.row))
                                    ELSE Edge(Pipeline(t.row), Asset(t.urn))

\* The fields of a sink whose source is known.
TouchColumns(t) ==
    {[row |-> t.row, node |-> t.node, from |-> t.fields[f].from[1], source |-> t.fields[f].field,
      to |-> t.urn, target |-> f] : f \in {g \in DOMAIN t.fields : t.fields[g].from # <<>>}}

\* An asset has the layer of the first that touches it, and of each field what
\* the last that writes it says.
AssetOf(ts, urn) ==
    LET of == {k \in DOMAIN ts : ts[k].urn = urn}
        writes(f) == {k \in of : f \in DOMAIN ts[k].fields}
        last(f) == ts[Max(writes(f))].fields[f]
    IN  [layer |-> ts[Min(of)].layer,
         schema |-> [f \in UNION {DOMAIN ts[k].fields : k \in of} |->
                        [type |-> last(f).type, nullable |-> last(f).nullable]]]

\* The rows come in the listed order; touched[r] is what the version in row r
\* does to its assets.
buildWorkspaceLineage(touched, rows, Slots) ==
    LET ts == FlattenSeq([r \in DOMAIN Slots |-> IF r \in rows THEN touched[r] ELSE <<>>])
        urns == {t.urn : t \in ToSet(ts)}
    IN  [nodes |-> {Pipeline(r) : r \in rows} \cup {Asset(u) : u \in urns},
         assets |-> [u \in urns |-> AssetOf(ts, u)],
         edges |-> [k \in DOMAIN ts |-> TouchEdge(ts[k])],
         columns |-> UNION {TouchColumns(t) : t \in ToSet(ts)},
         shared |-> {Asset(u) : u \in {v \in urns : \E s, t \in ToSet(ts) :
                        s.urn = v /\ t.urn = v /\ s.row # t.row}}]

-----------------------------------------------------------------------------
(* The gate of a promotion *)

\* The nodes with an edge to a node, in the order of the edges.
IncomingSeq(def, id) ==
    FlattenSeq([k \in DOMAIN def.edges |-> IF def.edges[k][2] = id THEN <<def.edges[k][1]>> ELSE <<>>])

\* Only a contract stored as an object counts, not the text the canvas saves.
Stated(def, id) == IsContract(NodeOf(def, id)) /\ NodeOf(def, id).spec.kind = "object"

ContractAboveOnlyParents(def) ==
    [id \in NodeIds(def) |->
        LET ids == IncomingSeq(def, id)
            found == {k \in DOMAIN ids : Stated(def, ids[k])}
        IN  IF found = {} THEN <<>> ELSE <<NodeOf(def, ids[Min(found)]).spec.schema>>]

\* The contract upstream of each node, <<>> where there is none: edge by edge,
\* that of the node before it, or else what is upstream of that.
ContractAbove(def) ==
    LET above[id \in NodeIds(def)] ==
            LET ids == IncomingSeq(def, id)
                found == {k \in DOMAIN ids : Stated(def, ids[k]) \/ above[ids[k]] # <<>>}
            IN  IF found = {} THEN <<>>
                ELSE LET first == ids[Min(found)]
                     IN  IF Stated(def, first) THEN <<NodeOf(def, first).spec.schema>> ELSE above[first]
    IN  above

\* The contract of each sink that has one.
extractContracts(def) ==
    LET above == ContractAbove(def)
    IN  [id \in {i \in NodeIds(def) : NodeOf(def, i).type = "sink" /\ above[i] # <<>>} |-> above[id][1]]

\* What the gate calls a break: sinks are compared by their ids, types without
\* the mark of a field that may be missing.
compareContracts(old, new) ==
    LET both == DOMAIN old \cap DOMAIN new
    IN  {<<"contract removed", s>> : s \in DOMAIN old \ DOMAIN new}
        \cup (UNION {{<<"field removed", s, f>> : f \in DOMAIN old[s] \ DOMAIN new[s]} : s \in both})
        \cup (UNION {{<<"type changed", s, f>> : f \in
                {g \in DOMAIN old[s] \cap DOMAIN new[s] : old[s][g].type # new[s][g].type}} : s \in both})

-----------------------------------------------------------------------------
(* Filters *)

Links(g) == ToSet(g.edges)
neighbours(g, n) == {e.target : e \in {f \in Links(g) : f.source = n}}
                    \cup {e.source : e \in {f \in Links(g) : f.target = n}}
incident(g, seeds, within) == seeds \cup ((UNION {neighbours(g, n) : n \in seeds}) \cap within)

\* What a filter leaves before the focus: domains, then layers, then the query,
\* each with the neighbours that the ones before it left.  The server always
\* names a layer; the domain of a pipeline without one is Unassigned, a word its
\* node does not contain.
Allowed(g, versions, Slots, f) ==
    LET pipelines == {n \in g.nodes : n[1] = "pipeline" /\ versions[n[2]].domain = f.domain}
        a1 == IF f.domain = "" THEN g.nodes ELSE incident(g, pipelines, g.nodes)
        layered == {n \in a1 : n[1] = "asset" /\ g.assets[n[2]].layer = f.layer}
        a2 == IF f.layer = "" THEN a1 ELSE incident(g, layered, a1)
        words(n) == IF n[1] = "asset"
                    THEN {n[2][1], n[2][2], g.assets[n[2]].layer} \cup DOMAIN g.assets[n[2]].schema
                    ELSE {Slots[n[2]][1], Slots[n[2]][2], versions[n[2]].domain} \ {"Unassigned"}
    IN  IF f.query = "" THEN a2 ELSE incident(g, {n \in a2 : f.query \in words(n)}, a2)

reachedLate(distance, depth) == distance > depth
reached(distance, depth) == distance >= depth

\* The breadth-first search around the focus, up to a depth.
spreadStates(N) == [queue : Seq(N \X Nat), focused : SUBSET N]

spreadStep(g, allowed, depth, st) ==
    LET id == Head(st.queue)[1]
        distance == Head(st.queue)[2]
        new == (neighbours(g, id) \cap allowed) \ st.focused
        pushed == [k \in 1..Cardinality(new) |-> <<SetToSeq(new)[k], distance + 1>>]
    IN  IF st.queue = <<>> THEN st
        ELSE IF reached(distance, depth) THEN [queue |-> Tail(st.queue), focused |-> st.focused]
        ELSE [queue |-> Tail(st.queue) \o pushed, focused |-> st.focused \cup new]

spread(g, allowed, depth, n) ==
    Iterate([st \in spreadStates(allowed) |-> spreadStep(g, allowed, depth, st)],
            [queue |-> <<<<n, 0>>>>, focused |-> {n}], Cardinality(allowed)).focused

EdgesAmong(g, kept) == [k \in kept |-> g.edges[k]]

KeepOneEnded(g, allowed) ==
    [g EXCEPT !.nodes = allowed,
              !.edges = EdgesAmong(g, {k \in DOMAIN g.edges : g.edges[k].source \in allowed})]

\* What a set of nodes leaves of nodes and edges, columns and statistics as
\* they were.
Only(g, kept) ==
    [g EXCEPT !.nodes = kept,
              !.edges = EdgesAmong(g, {k \in DOMAIN g.edges : {g.edges[k].source, g.edges[k].target} \subseteq kept})]

\* The same, with columns and statistics computed anew.
Keep(g, allowed) ==
    LET edges == Only(g, allowed).edges
        uses(n) == {e.target : e \in {d \in ToSet(edges) : d.source = n}}
                   \cup {e.source : e \in {d \in ToSet(edges) : d.target = n}}
    IN  [nodes |-> allowed, assets |-> g.assets, edges |-> edges,
         columns |-> {c \in g.columns : Asset(c.from) \in allowed /\ Asset(c.to) \in allowed},
         shared |-> {n \in allowed : n[1] = "asset" /\ \E x, y \in uses(n) : x # y}]

filterWorkspaceLineage(g, versions, Slots, f) ==
    LET allowed == Allowed(g, versions, Slots, f)
        within == IF f.depth > 0 /\ f.selected \in allowed
                  THEN spread(g, allowed, f.depth, f.selected) ELSE allowed
    IN  IF f.domain = "" /\ f.layer = "" /\ f.query = "" /\ (f.depth = 0 \/ f.selected = <<>>) THEN g
        ELSE Keep(g, within)

\* The health filter of the architecture view adds both ends of each edge in
\* turn to what it matched, the ends it has just added included.
growStep(g, st) ==
    LET ends == {g.edges[st.index].source, g.edges[st.index].target}
    IN  [index |-> st.index + 1,
         matched |-> IF st.index \in DOMAIN g.edges /\ ends \cap st.matched # {}
                     THEN st.matched \cup ends ELSE st.matched]

healthFilter(g, matched) ==
    Only(g, Iterate([st \in [index : Nat, matched : SUBSET g.nodes] |-> growStep(g, st)],
                    [index |-> 1, matched |-> matched], Max({0} \cup DOMAIN g.edges)).matched)

\* "Active only" of the runtime view.
activeFilter(g, active) ==
    LET used == UNION {{e.source, e.target} : e \in
                    {d \in Links(g) : d.source \in active \/ d.target \in active}}
    IN  Only(g, active \cup {n \in used : n[1] = "asset"})

-----------------------------------------------------------------------------
(* Walks and orders *)

\* The impact of a selected node: everything found along the edges.
walkStep(next, st) ==
    LET new == next[Head(st.queue)] \ st.found
    IN  IF st.queue = <<>> THEN st
        ELSE [queue |-> Tail(st.queue) \o SetToSeq(new), found |-> st.found \cup new]

walk(next, n) ==
    Iterate([st \in [queue : Seq(DOMAIN next), found : SUBSET DOMAIN next] |-> walkStep(next, st)],
            [queue |-> <<n>>, found |-> {n}], Cardinality(DOMAIN next)).found

targets(g) == [m \in g.nodes |-> {e.target : e \in {f \in Links(g) : f.source = m}}]
sources(g) == [m \in g.nodes |-> {e.source : e \in {f \in Links(g) : f.target = m}}]
downstream(g, n) == walk(targets(g), n) \ {n}
upstream(g, n) == walk(sources(g), n) \ {n}

\* Kahn's algorithm, shared by both users: the nodes a queue reaches as their
\* incoming edges are used up, and the longest path to each.
useEdgeFirstProducer(st, e) ==
    LET left == st.indegree[e.target] - 1
    IN  [rank |-> [st.rank EXCEPT ![e.target] = IF @ = 0 THEN st.rank[e.source] + 1 ELSE @],
         indegree |-> [st.indegree EXCEPT ![e.target] = left],
         queue |-> IF left = 0 THEN Append(st.queue, e.target) ELSE st.queue]

useEdge(st, e) ==
    LET left == st.indegree[e.target] - 1
    IN  [rank |-> [st.rank EXCEPT ![e.target] = Max({@, st.rank[e.source] + 1})],
         indegree |-> [st.indegree EXCEPT ![e.target] = left],
         queue |-> IF left = 0 THEN Append(st.queue, e.target) ELSE st.queue]

\* One edge of the node at the head of the queue, or the next node.
KahnStates(N, edges) ==
    [rank : [N -> Nat], indegree : [N -> Int], queue : Seq(N), index : Nat, left : SUBSET DOMAIN edges]

KahnStep(edges, st) ==
    LET todo == {k \in st.left : edges[k].source = st.queue[st.index]}
        next == Min(todo)
        used == useEdge(st, edges[next])
    IN  IF st.index > Len(st.queue) THEN st
        ELSE IF todo = {}
        THEN [rank |-> st.rank, indegree |-> st.indegree, queue |-> st.queue, index |-> st.index + 1, left |-> st.left]
        ELSE [rank |-> used.rank, indegree |-> used.indegree, queue |-> used.queue, index |-> st.index,
              left |-> st.left \ {next}]

Kahn(order, edges) ==
    LET N == ToSet(order)
        indegree == [n \in N |-> Cardinality({k \in DOMAIN edges : edges[k].target = n})]
    IN  Iterate([st \in KahnStates(N, edges) |-> KahnStep(edges, st)],
                [rank |-> [n \in N |-> 0], indegree |-> indegree, queue |-> Filter(order, {n \in N : indegree[n] = 0}),
                 index |-> 1, left |-> DOMAIN edges],
                Cardinality(N) + Cardinality(DOMAIN edges))

\* The column of each node in the layout.
rank(g) == Kahn(SetToSeq(g.nodes), g.edges).rank

\* The steps of a run in topological order; what a cycle holds back is appended.
orderSteps(def) ==
    LET ids == [k \in DOMAIN def.nodes |-> def.nodes[k].id]
        inner == {k \in DOMAIN def.edges : {def.edges[k][1], def.edges[k][2]} \subseteq ToSet(ids)}
        queue == Kahn(ids, [k \in inner |-> Edge(def.edges[k][1], def.edges[k][2])]).queue
    IN  queue \o Filter(ids, ToSet(ids) \ ToSet(queue))
=============================================================================
