-------------------------- MODULE CanvasValidation --------------------------
(***************************************************************************)
(* The validator of the canvas, which enables Save, and the one of the API *)
(* that the saved definition meets, on every graph of CanvasGraph.         *)
(***************************************************************************)
EXTENDS CanvasGraph, FiniteSets, Sequences

-----------------------------------------------------------------------------
(* validatePipeline of the canvas *)

OfType(g, t) == {n \in Ids(g) : g.nodes[n].type = t}

SelfLoops(g) == {e \in g.edges : e.source = e.target}
Duplicates(g) == {e \in g.edges \ SelfLoops(g) :
                    \E f \in g.edges \ {e} : f.source = e.source /\ f.target = e.target}

\* The adjacency lists: only nodes of the canvas have one, but it may name
\* anything.
outgoing(g, n) == {e.target : e \in {f \in g.edges \ SelfLoops(g) : f.source = n}}
incoming(g, n) == {e.source : e \in {f \in g.edges \ SelfLoops(g) : f.target = n}}

\* Three-colour depth-first search, its calls on a stack: the colours, the
\* entries of the adjacency lists not looked at yet, and whether a gray node was
\* met, which ends the search at once.
adjacency(g) == {<<e.source, e.target>> : e \in {f \in g.edges \ SelfLoops(g) : f.source \in Ids(g)}}

Painted(colour, n, c) == [m \in DOMAIN colour |-> IF m = n THEN c ELSE colour[m]]

dfsCall(st, n, left) ==
    [colour |-> Painted(st.colour, n, "gray"), stack |-> Append(st.stack, n), left |-> left, cycle |-> FALSE]

dfsReturn(st) ==
    [colour |-> Painted(st.colour, st.stack[Len(st.stack)], "black"),
     stack |-> SubSeq(st.stack, 1, Len(st.stack) - 1), left |-> st.left, cycle |-> FALSE]

\* The next entry of the node on top.  Its colour is undefined when it is no
\* node of the canvas.
dfsEntry(st, entry) ==
    LET next == entry[2]
        left == st.left \ {entry}
        passed == [colour |-> st.colour, stack |-> st.stack, left |-> left, cycle |-> FALSE]
    IN  IF next \notin DOMAIN st.colour THEN passed
        ELSE IF st.colour[next] = "gray"
        THEN [colour |-> st.colour, stack |-> st.stack, left |-> left, cycle |-> TRUE]
        ELSE IF st.colour[next] = "white" THEN dfsCall(st, next, left)
        ELSE passed

dfsStep(st) ==
    LET white == {n \in DOMAIN st.colour : st.colour[n] = "white"}
        todo == {entry \in st.left : entry[1] = st.stack[Len(st.stack)]}
    IN  IF st.cycle \/ (st.stack = <<>> /\ white = {}) THEN st
        ELSE IF st.stack = <<>> THEN dfsCall(st, CHOOSE n \in white : TRUE, st.left)
        ELSE IF todo = {} THEN dfsReturn(st)
        ELSE dfsEntry(st, CHOOSE entry \in todo : TRUE)

\* Every entry is looked at once, every node called once and left once.
dfsBound(g) == Cardinality(adjacency(g)) + 2 * Cardinality(Ids(g))
dfsStart(g) == [colour |-> [n \in Ids(g) |-> "white"], stack |-> <<>>, left |-> adjacency(g), cycle |-> FALSE]
dfs(g) ==
    LET run[k \in 0..dfsBound(g)] == IF k = 0 THEN dfsStart(g) ELSE dfsStep(run[k - 1])
    IN  run[dfsBound(g)]

FindsNoCycle(g) == FALSE

FindsCycle(g) == dfs(g).cycle

\* The kinds of errors reported; the canvas is ready when there is none.
validatePipeline(g) ==
    LET report(kind, bad) == IF bad THEN {kind} ELSE {}
    IN  report("SELF_LOOP", SelfLoops(g) # {})
        \cup report("DUPLICATE_EDGE", Duplicates(g) # {})
        \cup report("CYCLE", FindsCycle(g))
        \cup report("SOURCE_HAS_INCOMING", \E n \in OfType(g, "source") : incoming(g, n) # {})
        \cup report("SINK_HAS_OUTGOING", \E n \in OfType(g, "sink") : outgoing(g, n) # {})
        \cup report("NO_SOURCE", OfType(g, "source") = {})
        \cup report("NO_SINK", OfType(g, "sink") = {})
        \cup report("FORK_TOO_FEW_OUTPUTS", \E n \in OfType(g, "fork") : Cardinality(outgoing(g, n)) < 2)
        \cup report("MERGE_TOO_FEW_INPUTS", \E n \in OfType(g, "merge") : Cardinality(incoming(g, n)) < 2)
        \cup report("ORPHAN", \E n \in Ids(g) : incoming(g, n) \cup outgoing(g, n) = {})
        \cup report("DEAD_END", \E n \in Ids(g) \ OfType(g, "sink") :
                                    outgoing(g, n) = {} /\ incoming(g, n) # {})

graphReady(g) == validatePipeline(g) = {}

-----------------------------------------------------------------------------
(* The validator of the API *)

\* Nodes whose producers are all removed are removed in their turn, until none
\* is left or none can be removed.
Free(g, left) == {n \in left : \A e \in g.edges : e.target = n => e.source \notin left}
Unsorted(g) ==
    LET left[k \in 0..Cardinality(Ids(g))] ==
            IF k = 0 THEN Ids(g) ELSE left[k - 1] \ Free(g, left[k - 1])
    IN  left[Cardinality(Ids(g))]

\* validatePipeline of the API, for the workflow engine.
ServerAccepts(g) ==
    /\ Ids(g) # {}
    /\ \A n \in Ids(g) :
        /\ g.nodes[n].type \in {"source", "transform", "sink", "fork", "merge"}
        /\ g.nodes[n].type \in {"fork", "merge"} \/ g.nodes[n].act # <<"", "">>
    /\ \A e \in g.edges : e.source \in Ids(g) /\ e.target \in Ids(g)
    /\ Unsorted(g) = {}

\* What is stored, and what the AI proposes, went through that validator.
ASSUME DefinitionsAccepted == \A d \in Definitions : ServerAccepts(d)

\* Stored definitions and texts are finite.
ASSUME InputsAreFinite ==
    /\ \A d \in Definitions : IsFiniteSet(DOMAIN d.nodes) /\ IsFiniteSet(d.edges)
    /\ \A t \in Texts : IsFiniteSet(DOMAIN t.decls) /\ IsFiniteSet(t.links)

-----------------------------------------------------------------------------
(* Properties *)

\* Reference for the depth-first search: nodes that never run out of successors.
Cyclic == \E S \in SUBSET Ids(graph) : S # {} /\ \A n \in S : outgoing(graph, n) \cap S # {}

\* The two validators agree on what matters to a user: the canvas reports a
\* cycle exactly when there is one, and a graph it calls ready, which enables
\* Save, is accepted by the API, unless an edge hangs where a node was deleted
\* under an open menu or a Mermaid link mentions a node without a type.
SaveIsAccepted ==
    /\ "CYCLE" \in validatePipeline(graph) <=> Cyclic
    /\ graphReady(graph) /\ ~Hanging /\ ~Untyped => ServerAccepts(flowToDefinition(graph))
=============================================================================
