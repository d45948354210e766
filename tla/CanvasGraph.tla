---------------------------- MODULE CanvasGraph ----------------------------
(***************************************************************************)
(* The graph on the canvas under every way of changing it: the palette,    *)
(* connections and the menu a dropped connection opens, the inspector, the *)
(* Mermaid editor, AI proposals and definitions that replace it, while the *)
(* features of the workspace decide which entries are offered.             *)
(***************************************************************************)
EXTENDS PipelineGraph

CONSTANTS
    Palette,      \* the entries a user picks from
    Options,      \* the options a user picks
    Labels,       \* the labels a user types
    Conditions,   \* the branch conditions a user types, {} among them
    Texts,        \* Mermaid texts a user types
    Definitions,  \* definitions stored, or proposed by the AI
    Features,     \* the feature sets a workspace may have
    MaxNodes,     \* nodes added from the palette
    MaxEdits      \* edits of one visit

ASSUME GraphAssumption ==
    /\ Palette \subseteq CATALOG
    /\ {} \in Conditions
    /\ MaxNodes \in Nat /\ MaxEdits \in Nat
    /\ \A d \in Definitions : DOMAIN d.nodes \cap 1..MaxNodes = {}

\* The palette is the catalog, or a part of it with both entries of a label.
ASSUME PaletteAssumption ==
    \A a \in Palette, b \in CATALOG : label(a) = label(b) => b \in Palette

\* Activities are pairs and edges have their three fields; a definition comes
\* from the canvas or the AI, which both take the type from the catalog.
ASSUME InputAssumption ==
    /\ \A t \in Texts :
        /\ \A n \in DOMAIN t.decls : IsActivity(t.decls[n].act)
        /\ \A e \in t.links : IsEdge(e)
    /\ \A d \in Definitions :
        /\ \A n \in DOMAIN d.nodes : IsActivity(d.nodes[n].act) /\ IsTyped(d.nodes[n])
        /\ \A e \in d.edges : IsEdge(e)

VARIABLES
    graph,        \* the nodes and edges of the canvas
    nid,          \* nodes added so far: ids are never used again
    menu,         \* the node the "add next step" menu was opened from, 0 when closed
    features,     \* the features of the workspace, as the page knows them
    edits,        \* edits so far
    granted       \* the features it ever had, and those what was loaded asks for

vars == <<graph, nid, menu, features, edits, granted>>

Empty == [nodes |-> [n \in {} |-> 0], edges |-> {}]

offered == {a \in Palette : entryOffered(a, features)}

\* The features the nodes of a graph ask for when it is saved.
Needs(g) == UNION {pipelineFeatures(g.nodes[n].act, g.nodes[n].opt) : n \in Ids(g)}

Node(act) == [type |-> nodeType(act), act |-> act, label |-> label(act), opt |-> ""]

\* And under any activity: a node keeps its config when a text changes that.
Brings(g) == UNION {pipelineFeatures(g.nodes[n].act, g.nodes[n].opt)
                    \cup pipelineFeatures(<<"transform", "dedupe">>, g.nodes[n].opt) : n \in Ids(g)}

Init ==
    /\ graph = Empty
    /\ nid = 0
    /\ menu = 0
    /\ features \in Features
    /\ edits = 0
    /\ granted = features

-----------------------------------------------------------------------------
(* Edits *)

\* addEdge of React Flow: a second edge between two handles is dropped.
addEdge(edges, s, t) ==
    IF \E e \in edges : e.source = s /\ e.target = t THEN edges
    ELSE edges \cup {[source |-> s, target |-> t, cond |-> {}]}

\* An entry of the palette or of the menu, which links the new node to the
\* node it was opened from, and closes.
addNode(act, source) ==
    /\ nid < MaxNodes
    /\ nid' = nid + 1
    /\ graph' = [nodes |-> [n \in Ids(graph) \cup {nid + 1} |->
                                IF n = nid + 1 THEN Node(act) ELSE graph.nodes[n]],
                 edges |-> IF source = 0 THEN graph.edges ELSE addEdge(graph.edges, source, nid + 1)]
    /\ menu' = 0
    /\ UNCHANGED <<features, granted>>

PickFromPalette == \E act \in offered : addNode(act, 0)

\* The menu offers no sources, and nothing after a sink.
PickFromMenu ==
    /\ menu # 0
    /\ menu \in Ids(graph) => graph.nodes[menu].type # "sink"
    /\ \E act \in {a \in offered : nodeType(a) # "source"} : addNode(act, menu)

onConnect(s, t) ==
    /\ graph' = [graph EXCEPT !.edges = addEdge(@, s, t)]
    /\ graph' # graph
    /\ UNCHANGED <<nid, menu, features, granted>>

\* A connection dropped on the empty canvas opens the menu.
finishConnection(s) ==
    /\ menu' = s
    /\ UNCHANGED <<graph, nid, features, granted>>

\* A click on the canvas closes the menu.
onPaneClick ==
    /\ menu # 0
    /\ menu' = 0
    /\ UNCHANGED <<graph, nid, features, granted>>

\* patchNode: an option or the label, for a node whose entry is offered.
patchNode(n, l, o) ==
    /\ graph.nodes[n].act \in offered
    /\ o \in optionsOffered(graph.nodes[n].act, features) \cup {graph.nodes[n].opt}
    /\ graph' = [nodes |-> [m \in Ids(graph) |->
                    IF m = n THEN [type |-> graph.nodes[n].type, act |-> graph.nodes[n].act,
                                   label |-> l, opt |-> o]
                    ELSE graph.nodes[m]],
                 edges |-> graph.edges]
    /\ graph' # graph
    /\ UNCHANGED <<nid, menu, features, granted>>

patchEdgeCondition(e, c) ==
    /\ c # e.cond
    /\ graph' = [graph EXCEPT !.edges = (@ \ {e}) \cup {[e EXCEPT !.cond = c]}]
    /\ UNCHANGED <<nid, menu, features, granted>>

\* The inspector deletes a node with its edges; the menu stays open.
deleteNode(n) ==
    /\ graph' = [nodes |-> [m \in Ids(graph) \ {n} |-> graph.nodes[m]],
                 edges |-> {e \in graph.edges : e.source # n /\ e.target # n}]
    /\ UNCHANGED <<nid, menu, features, granted>>

\* An edge removed with the keyboard.
onEdgesChange(e) ==
    /\ graph' = [graph EXCEPT !.edges = @ \ {e}]
    /\ UNCHANGED <<nid, menu, features, granted>>

\* The text of the editor, generated from the graph or typed, is applied.  It
\* may be one the preview has not parsed yet: mermaidValid is that of an
\* earlier text until then.
MermaidApplied(text) ==
    /\ graph' = applyMermaid(graph, text, offered)
    /\ graph' # graph
    /\ granted' = granted \cup (IF text \in Texts THEN Needs(graph') ELSE {})
    /\ UNCHANGED <<nid, menu, features>>

\* A stored definition or a proposal replaces the graph.
Replaced(def) ==
    /\ graph' = definitionToFlow(def)
    /\ graph' # graph
    /\ granted' = granted \cup Brings(graph')
    /\ UNCHANGED <<nid, menu, features>>

\* The owner turns a feature on or off.
setFeature(f) ==
    /\ f # features
    /\ features' = f
    /\ granted' = granted \cup f
    /\ UNCHANGED <<graph, nid, menu>>

Edit ==
    \/ PickFromPalette \/ PickFromMenu \/ onPaneClick
    \/ \E s, t \in Ids(graph) : onConnect(s, t)
    \/ \E n \in Ids(graph) :
        \/ finishConnection(n) \/ deleteNode(n)
        \/ \E o \in Options : patchNode(n, graph.nodes[n].label, o)
        \/ \E l \in Labels : patchNode(n, l, graph.nodes[n].opt)
    \/ \E e \in graph.edges :
        \/ onEdgesChange(e)
        \/ \E c \in Conditions : patchEdgeCondition(e, c)
    \/ \E text \in Texts \cup {definitionToMermaid(flowToDefinition(graph))} : MermaidApplied(text)
    \/ \E def \in Definitions : Replaced(def)
    \/ \E f \in Features : setFeature(f)

\* The page is left and opened again on a new canvas.
Remount ==
    /\ edits > 0
    /\ graph' = Empty /\ nid' = 0 /\ menu' = 0 /\ edits' = 0
    /\ granted' = features
    /\ UNCHANGED features

Next ==
    \/ /\ edits < MaxEdits
       /\ edits' = edits + 1
       /\ Edit
    \/ Remount

Spec == Init /\ [][Next]_vars

-----------------------------------------------------------------------------
(* Properties *)

Hanging == \E e \in graph.edges : {e.source, e.target} \cap Ids(graph) # {e.source, e.target}
Untyped == \E n \in Ids(graph) : graph.nodes[n].act = <<"", "">>

\* Renamed after another entry, and no longer found under its own.
Misnamed == \E n \in Ids(graph) :
    /\ graph.nodes[n].act \notin offered
    /\ graph.nodes[n].label # label(graph.nodes[n].act)
    /\ \E a \in offered : label(a) = LabelText(graph.nodes[n])

Labelled(node) == [type |-> node.type, act |-> node.act, label |-> LabelText(node), opt |-> node.opt]

\* A label of blanks or parentheses only, which gives way to that of the entry;
\* a condition whose key is taken for the declaration of a node.
Blank == \E n \in Ids(graph) : LabelText(graph.nodes[n]) = NoLabel
Keyed == \E e \in graph.edges : "key" \in e.cond

\* What a condition has left: no brackets, and slashes for its bars.
Restored(e) ==
    [source |-> e.source, target |-> e.target,
     cond |-> IF "bars" \in e.cond THEN (e.cond \ {"bars", "index", "key"}) \cup {"slashes"}
              ELSE e.cond \ {"index", "key"}]

\* The Mermaid editor is another view of the graph: the text generated from
\* it, applied unchanged, gives the same nodes, types, configs and edges, also
\* for nodes whose entry the workspace is no longer offered. It does not for a
\* node renamed after an entry that is offered, a blank label or a key in a
\* condition; an edge is lost when its condition has a newline, a condition
\* loses its bars and brackets, a label quotes, parentheses and blanks.
MermaidKeepsGraph ==
    LET text == definitionToMermaid(flowToDefinition(graph))
        kept == [nodes |-> [n \in Ids(graph) |-> Labelled(graph.nodes[n])],
                 edges |-> {Restored(e) : e \in {f \in graph.edges : "newline" \notin f.cond}}]
    IN  ~Hanging /\ ~Untyped /\ ~Misnamed /\ ~Blank /\ ~Keyed =>
            applyMermaid(graph, text, offered) = kept

\* A user cannot draw what the workspace never paid for: every node asks only
\* for features the workspace had at some time, or that a definition or a text
\* brought in.  The API, which refuses other pipelines as unpaid, reads the
\* features off a node by rules of its own.
OfferedIsEntitled == Needs(graph) \subseteq granted
=============================================================================
