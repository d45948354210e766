------------------------- MODULE CanvasGraphProofs -------------------------
(***************************************************************************)
(* Proofs about CanvasGraph, for every palette, every set of definitions,  *)
(* texts, conditions and features, and any number of nodes and edits: the  *)
(* Mermaid text is another view of the graph, no node asks for more than   *)
(* the workspace was granted, and the API accepts what the canvas passes.  *)
(***************************************************************************)
EXTENDS CanvasValidation, FiniteSetTheorems, SequenceTheorems, WellFoundedInduction, TLAPS

-----------------------------------------------------------------------------
(* The inductive invariant *)

\* A node with an activity has the type that Mermaid takes from its head.
FitsActivity(node) == node.act # <<"", "">> => node.type = defaultNodeType(node.act)

\* The shape of a graph, whose nodes have the type of their activity: what the
\* catalog says while the entry is offered, and what the head of the activity
\* says once it no longer is.
WellFormed(g) ==
    /\ g = [nodes |-> g.nodes, edges |-> g.edges]
    /\ g.nodes = [n \in Ids(g) |-> [type |-> g.nodes[n].type, act |-> g.nodes[n].act,
                                    label |-> g.nodes[n].label,
                                    opt |-> g.nodes[n].opt]]
    /\ \A n \in Ids(g) : IsActivity(g.nodes[n].act) /\ FitsActivity(g.nodes[n])
    /\ \A e \in g.edges : IsEdge(e)

\* The page knows the features of now, which are among those granted.
IInv == WellFormed(graph) /\ features \subseteq granted /\ Brings(graph) \subseteq granted

-----------------------------------------------------------------------------
(* The catalog *)

\* The two ways to find the type of an activity agree on the catalog.
LEMMA CatalogIsTyped ==
    ASSUME NEW a \in CATALOG
    PROVE  IsActivity(a) /\ a # <<"", "">> /\ nodeType(a) = defaultNodeType(a)
<1>1. CASE a \in Sources
  <2>1. PICK p \in {"zendesk", "gsheets", "gdrive", "excel", "http", "postgres", "mysql",
                     "mongodb", "s3", "kafka", "sftp", "snowflake", "iceberg"} : a = <<p, "fetch">>
    BY <1>1 DEF Sources
  <2>2. p \notin {"", "flow", "transform", "sink"}
    BY <2>1
  <2> QED
    BY <1>1, <2>1, <2>2 DEF IsActivity, nodeType, defaultNodeType
<1>2. CASE a \in Transforms
  <2>1. PICK t \in {"map", "filter", "formula", "select", "rename", "dedupe", "flatten",
                     "parse", "contract"} : a = <<"transform", t>>
    BY <1>2 DEF Transforms
  <2>2. a \notin Sources
    BY <2>1 DEF Sources
  <2> QED
    BY <1>2, <2>1, <2>2 DEF IsActivity, nodeType, defaultNodeType
<1>3. CASE a \in Flow
  <2>1. a \notin Sources /\ a \notin Transforms /\ a \notin Sinks
    BY <1>3 DEF Flow, Sources, Transforms, Sinks
  <2> QED
    <3>1. CASE a = <<"flow", "fork">>
      BY <2>1, <3>1 DEF IsActivity, nodeType, defaultNodeType
    <3>2. CASE a = <<"flow", "merge">>
      BY <2>1, <3>2 DEF IsActivity, nodeType, defaultNodeType
    <3> QED
      BY <1>3, <3>1, <3>2 DEF Flow
<1>4. CASE a \in Sinks
  <2>1. PICK s \in {"postgres", "clickhouse", "mysql", "mongodb", "s3", "kafka", "sftp",
                     "snowflake", "iceberg", "gsheets", "webhook", "records"} : a = <<"sink", s>>
    BY <1>4 DEF Sinks
  <2>2. a \notin Sources /\ a \notin Transforms
    BY <2>1 DEF Sources, Transforms
  <2> QED
    BY <1>4, <2>1, <2>2 DEF IsActivity, nodeType, defaultNodeType
<1> QED
  BY <1>1, <1>2, <1>3, <1>4 DEF CATALOG

\* The features its option asks for under any activity.
OptionFeatures(opt) == pipelineFeatures(<<"transform", "dedupe">>, opt)

\* A node asks for what its entry requires and what its option asks for.
LEMMA EntryAndOption ==
    ASSUME NEW a \in CATALOG, NEW opt, NEW G, requiredFeature(a) \subseteq G,
           OptionFeatures(opt) \subseteq G
    PROVE  pipelineFeatures(a, opt) \subseteq G
  BY DEF AdvancedConnectors, pipelineFeatures, requiredFeature, OptionFeatures

\* An unset option asks for nothing, and one that is offered for features at hand.
LEMMA UnsetOptionIsFree == OptionFeatures("") = {} /\ pipelineFeatures(<<"", "">>, "") = {}
  BY DEF OptionFeatures, pipelineFeatures, AdvancedConnectors

LEMMA OfferedOptionIsEntitled ==
    ASSUME NEW a, NEW f, NEW o \in optionsOffered(a, f)
    PROVE  OptionFeatures(o) \subseteq f
  BY DEF OptionFeatures, pipelineFeatures, AdvancedConnectors, optionsOffered

\* The label of an entry is that of its source.
LEMMA LabelOfCatalog ==
    ASSUME NEW a \in CATALOG
    PROVE  label(a) \in CATALOG
<1>1. CASE a \in Sinks
  BY <1>1 DEF label, Sinks, Sources, CATALOG
<1>2. CASE a \notin Sinks
  <2>1. ~(a[1] = "sink")
    BY <1>2 DEF CATALOG, Sources, Transforms, Flow
  <2> QED
    BY <2>1 DEF label
<1> QED
  BY <1>1, <1>2

\* What shares its label with an entry is an entry, under the same feature.
LEMMA LabelledAlike ==
    ASSUME NEW a \in CATALOG, NEW act, IsActivity(act), label(act) = label(a)
    PROVE  act \in CATALOG /\ requiredFeature(act) = requiredFeature(a)
<1>1. CASE act[1] = "sink" /\ act[2] \in {"mysql", "mongodb", "s3", "kafka"}
  <2>1. act = <<"sink", act[2]>>
    BY <1>1 DEF IsActivity
  <2>2. act \in CATALOG
    BY <1>1, <2>1 DEF CATALOG, Sinks
  <2>3. a \in {act, <<act[2], "fetch">>}
    BY <1>1, <2>1 DEF label, CATALOG, Sinks, Sources, Transforms, Flow
  <2> QED
    BY <1>1, <2>1, <2>2, <2>3 DEF requiredFeature, AdvancedConnectors
<1>2. CASE ~(act[1] = "sink" /\ act[2] \in {"mysql", "mongodb", "s3", "kafka"})
  <2>1. act = label(a)
    BY <1>2 DEF label
  <2>2. act \in CATALOG
    BY <2>1, LabelOfCatalog
  <2>3. requiredFeature(label(a)) = requiredFeature(a)
    <3>1. CASE a[1] = "sink" /\ a[2] \in {"mysql", "mongodb", "s3", "kafka"}
      <4>1. IsActivity(a)
        BY CatalogIsTyped
      <4>2. a = <<"sink", a[2]>>
        BY <3>1, <4>1 DEF IsActivity
      <4> QED
        BY <3>1, <4>2 DEF label, requiredFeature, AdvancedConnectors
    <3>2. CASE ~(a[1] = "sink" /\ a[2] \in {"mysql", "mongodb", "s3", "kafka"})
      BY <3>2 DEF label
    <3> QED
      BY <3>1, <3>2
  <2> QED
    BY <2>1, <2>2, <2>3
<1> QED
  BY <1>1, <1>2

\* The text of a node labelled like its own activity is not the label of an
\* entry, unless it is that label: what lost its parentheses is none.
LEMMA LabelTextOfEntry ==
    ASSUME NEW node, IsActivity(node.act), node.act # <<"", "">>, node.label = label(node.act),
           NEW a \in CATALOG, label(a) = LabelText(node)
    PROVE  LabelText(node) = label(node.act)
<1>1. PICK l : l = node.label
  OBVIOUS
<1>2. PICK x, y : l = <<x, y>> /\ l # NoLabel
  <2>1. node.act = <<node.act[1], node.act[2]>>
    BY DEF IsActivity
  <2>2. CASE l = <<node.act[2], "fetch">>
    BY <2>2 DEF NoLabel
  <2>3. CASE l = node.act
    BY <2>1, <2>3 DEF NoLabel
  <2> QED
    BY <1>1, <2>2, <2>3 DEF label
<1>3. PICK u, v : label(a) = <<u, v>>
  <2>1. label(a) \in CATALOG
    BY LabelOfCatalog
  <2>2. label(a) = <<label(a)[1], label(a)[2]>>
    BY <2>1, CatalogIsTyped DEF IsActivity
  <2> QED
    BY <2>2
<1>4. LabelText(node) = escapeLabel(l)
  BY <1>1, <1>2 DEF LabelText
<1>5. ASSUME NEW p, NEW q, NEW r, NEW s, NEW mark PROVE <<p, q>> # <<r, s, mark>>
  <2>1. Len(<<p, q>>) = 2 /\ Len(<<r, s, mark>>) = 3
    OBVIOUS
  <2> QED
    BY <2>1
<1>6. /\ l # <<l[1], l[2], "quoted">> /\ l # <<l[1], l[2], "padded">>
      /\ escapeLabel(l) # <<l[1], l[2], "plain">>
  <2>1. l[1] = x /\ l[2] = y
    BY <1>2
  <2> QED
    BY <1>2, <1>3, <1>4, <1>5, <2>1
<1>7. escapeLabel(l) = l
  <2>1. <<l[1], l[2]>> \notin Bracketed
    BY <1>6 DEF escapeLabel
  <2> QED
    BY <1>6, <2>1 DEF escapeLabel
<1> QED
  BY <1>1, <1>4, <1>7

-----------------------------------------------------------------------------
(* Texts *)

\* The declaration that definitionToMermaid writes for a node.
Declared(node) == [label |-> LabelText(node), act |-> node.act]

Renamed(node) ==
    /\ node.act \notin offered
    /\ node.label # label(node.act)
    /\ \E a \in offered : label(a) = LabelText(node)

\* Read back, it is found under its activity or not at all, unless it was renamed:
\* the search by label never turns a source into the sink beside it.
LEMMA EntryOfGenerated ==
    ASSUME NEW node, IsActivity(node.act), node.act # <<"", "">>, ~Renamed(node)
    PROVE  MermaidEntry(Declared(node), offered) = IF node.act \in offered THEN {node.act} ELSE {}
<1>1. Declared(node).act = node.act /\ Declared(node).label = LabelText(node)
  BY DEF Declared
<1>2. CASE node.act \in offered
  BY <1>1, <1>2 DEF MermaidEntry
<1>3. CASE node.act \notin offered
  <2>1. SUFFICES ASSUME NEW a \in offered, label(a) = LabelText(node) PROVE FALSE
    BY <1>1, <1>3, <2>1 DEF MermaidEntry
  <2>2. a \in Palette /\ a \in CATALOG /\ entryOffered(a, features)
    BY GraphAssumption DEF offered
  <2>3. node.label = label(node.act)
    BY <1>3, <2>1 DEF Renamed
  <2>4. LabelText(node) = label(node.act)
    BY <2>1, <2>2, <2>3, LabelTextOfEntry
  <2>5. node.act \in CATALOG /\ requiredFeature(node.act) = requiredFeature(a)
    BY <2>1, <2>2, <2>4, LabelledAlike
  <2>6. node.act \in Palette
    BY <2>1, <2>2, <2>4, <2>5, PaletteAssumption
  <2> QED
    BY <1>3, <2>2, <2>5, <2>6 DEF offered, entryOffered
<1> QED
  BY <1>2, <1>3

\* The nodes of an applied text: the nodes links mention, the entry of a
\* declaration, and the parts of the node it becomes.
Linked(text) == {e.source : e \in linksRead(text)} \cup {e.target : e \in linksRead(text)}
EntryOf(text, n) == MermaidEntry(declarations(text)[n], offered)
ActOf(text, n) ==
    IF EntryOf(text, n) = {} THEN declarations(text)[n].act ELSE CHOOSE a \in EntryOf(text, n) : TRUE
AppliedAct(text, n) == IF n \in DOMAIN declarations(text) THEN ActOf(text, n) ELSE <<"", "">>
AppliedType(text, n) ==
    IF n \notin DOMAIN declarations(text) THEN "transform"
    ELSE IF EntryOf(text, n) = {} THEN defaultNodeType(ActOf(text, n)) ELSE nodeType(ActOf(text, n))
AppliedLabel(text, n) ==
    IF n \notin DOMAIN declarations(text) THEN <<"id", n>>
    ELSE IF declarations(text)[n].label # NoLabel THEN declarations(text)[n].label
    ELSE IF EntryOf(text, n) = {} THEN <<"id", n>> ELSE label(ActOf(text, n))
AppliedNode(text, n) ==
    [type |-> AppliedType(text, n), act |-> AppliedAct(text, n), label |-> AppliedLabel(text, n),
     opt |-> IF n \in Ids(graph) THEN graph.nodes[n].opt ELSE ""]

\* The declarations found are those of the text, but for a node without an
\* activity, and they are just those when no condition has a key.
LEMMA DeclarationsFacts ==
    ASSUME NEW text
    PROVE  /\ DOMAIN text.decls \subseteq DOMAIN declarations(text)
           /\ DOMAIN declarations(text) \subseteq DOMAIN text.decls \cup {RecordId}
           /\ \A n \in DOMAIN declarations(text) :
                \/ declarations(text)[n].act = <<"", "">> /\ IsActivity(declarations(text)[n].act)
                \/ n \in DOMAIN text.decls /\ declarations(text)[n] = text.decls[n]
           /\ (\A l \in text.links : "key" \notin l.cond) =>
                /\ DOMAIN declarations(text) = DOMAIN text.decls
                /\ \A n \in DOMAIN text.decls : declarations(text)[n] = text.decls[n]
  BY DEF declarations, IsActivity

\* Every link read has the shape of an edge.
LEMMA LinksReadAreEdges == \A text : \A e \in linksRead(text) : IsEdge(e)
  BY DEF linksRead, stripped, IsEdge

\* What applyMermaid computes, in one step.
LEMMA AppliedText ==
    ASSUME NEW text
    PROVE  applyMermaid(graph, text, offered) =
             [nodes |-> [n \in DOMAIN declarations(text) \cup Linked(text) |-> AppliedNode(text, n)],
              edges |-> linksRead(text)]
<1> DEFINE N == DOMAIN declarations(text) \cup Linked(text)
           parsed == [n \in N |->
                        [type |-> AppliedType(text, n), act |-> AppliedAct(text, n),
                         label |-> AppliedLabel(text, n), config |-> "", mergeStrategy |-> ""]]
           flowNodes == [n \in N |->
                        [type |-> AppliedType(text, n), act |-> AppliedAct(text, n),
                         label |-> AppliedLabel(text, n), opt |-> ""]]
<1>1. mermaidToDefinition(text, offered) = [nodes |-> parsed, edges |-> linksRead(text)]
  <2>1. ASSUME NEW n \in N
        PROVE  parsed[n] = IF n \in DOMAIN declarations(text)
                 THEN [type |-> IF EntryOf(text, n) = {} THEN defaultNodeType(ActOf(text, n))
                                ELSE nodeType(ActOf(text, n)),
                       act |-> ActOf(text, n),
                       label |-> IF declarations(text)[n].label # NoLabel THEN declarations(text)[n].label
                                 ELSE IF EntryOf(text, n) = {} THEN <<"id", n>> ELSE label(ActOf(text, n)),
                       config |-> "", mergeStrategy |-> ""]
                 ELSE [type |-> "transform", act |-> <<"", "">>, label |-> <<"id", n>>,
                       config |-> "", mergeStrategy |-> ""]
    BY DEF AppliedType, AppliedAct, AppliedLabel
  <2> QED
    BY <2>1 DEF mermaidToDefinition, EntryOf, ActOf, Linked
<1>2. definitionToFlow([nodes |-> parsed, edges |-> linksRead(text)]) =
        [nodes |-> flowNodes, edges |-> linksRead(text)]
  <2> HIDE DEF N
  <2> QED
    BY DEF definitionToFlow
<1>3. \A n \in N : AppliedNode(text, n) =
         [type |-> flowNodes[n].type, act |-> flowNodes[n].act, label |-> flowNodes[n].label,
          opt |-> IF n \in Ids(graph) THEN graph.nodes[n].opt ELSE flowNodes[n].opt]
  BY DEF AppliedNode
<1> DEFINE flow == [nodes |-> flowNodes, edges |-> linksRead(text)]
<1>4. flow.nodes = flowNodes /\ flow.edges = linksRead(text) /\ Ids(flow) = N
  BY DEF Ids
<1>5. applyMermaid(graph, text, offered) =
        [nodes |-> [n \in Ids(flow) |->
            [type |-> flow.nodes[n].type, act |-> flow.nodes[n].act, label |-> flow.nodes[n].label,
             opt |-> IF n \in Ids(graph) THEN graph.nodes[n].opt ELSE flow.nodes[n].opt]],
         edges |-> flow.edges]
  <2> HIDE DEF flow
  <2>1. definitionToFlow(mermaidToDefinition(text, offered)) = flow
    BY <1>1, <1>2 DEF flow
  <2> QED
    BY <2>1, Zenon DEF applyMermaid
<1> HIDE DEF flow, flowNodes, N
<1> QED
  BY <1>3, <1>4, <1>5 DEF N

\* An applied text leaves a well-formed graph.
LEMMA AppliedIsWellFormed ==
    ASSUME NEW text, \A n \in DOMAIN text.decls : IsActivity(text.decls[n].act)
    PROVE  WellFormed(applyMermaid(graph, text, offered))
<1> DEFINE N == DOMAIN declarations(text) \cup Linked(text)
           new == [nodes |-> [n \in N |-> AppliedNode(text, n)], edges |-> linksRead(text)]
<1>0. /\ \A n \in DOMAIN declarations(text) : IsActivity(declarations(text)[n].act)
      /\ \A e \in linksRead(text) : IsEdge(e)
  BY DeclarationsFacts, LinksReadAreEdges
<1>1. ASSUME NEW n \in N
      PROVE  IsActivity(AppliedNode(text, n).act) /\ FitsActivity(AppliedNode(text, n))
  <2>1. AppliedNode(text, n).act = AppliedAct(text, n) /\ AppliedNode(text, n).type = AppliedType(text, n)
    BY DEF AppliedNode
  <2>2. CASE n \notin DOMAIN declarations(text)
    <3>1. AppliedAct(text, n) = <<"", "">>
      BY <2>2 DEF AppliedAct
    <3>2. IsActivity(<<"", "">>)
      BY DEF IsActivity
    <3> QED
      BY <2>1, <3>1, <3>2 DEF FitsActivity
  <2>3. CASE n \in DOMAIN declarations(text) /\ EntryOf(text, n) = {}
    BY <1>0, <2>1, <2>3 DEF AppliedAct, AppliedType, ActOf, FitsActivity
  <2>4. CASE n \in DOMAIN declarations(text) /\ EntryOf(text, n) # {}
    <3>1. EntryOf(text, n) \subseteq CATALOG
      BY GraphAssumption DEF EntryOf, MermaidEntry, offered
    <3>2. ActOf(text, n) \in CATALOG
      BY <2>4, <3>1 DEF ActOf
    <3> QED
      BY <2>1, <2>4, <3>2, CatalogIsTyped DEF AppliedAct, AppliedType, FitsActivity
  <2> QED
    BY <2>2, <2>3, <2>4
<1>2. \A n \in N : AppliedNode(text, n) = [type |-> AppliedNode(text, n).type,
                        act |-> AppliedNode(text, n).act, label |-> AppliedNode(text, n).label,
                        opt |-> AppliedNode(text, n).opt]
  BY DEF AppliedNode
<1> HIDE DEF N
<1>3. new.nodes = [n \in N |-> AppliedNode(text, n)] /\ new.edges = linksRead(text) /\ Ids(new) = N
  BY DEF Ids
<1>4. WellFormed(new)
  BY <1>0, <1>1, <1>2, <1>3 DEF WellFormed
<1> QED
  BY <1>4, AppliedText DEF N

\* The text that the editor opens with.
Generated == definitionToMermaid(flowToDefinition(graph))

\* Its declarations and links.
LEMMA GeneratedText ==
    /\ Generated.decls = [n \in Ids(graph) |-> Declared(graph.nodes[n])]
    /\ Generated.links = {EscapedEdge(e) : e \in graph.edges}
    /\ DOMAIN Generated.decls = Ids(graph)
<1> DEFINE defNodes == [n \in Ids(graph) |->
        [type |-> graph.nodes[n].type, act |-> graph.nodes[n].act, label |-> graph.nodes[n].label,
         config |-> graph.nodes[n].opt,
         mergeStrategy |-> IF graph.nodes[n].act = <<"flow", "merge">> THEN graph.nodes[n].opt ELSE ""]]
           def == [nodes |-> defNodes, edges |-> graph.edges]
<1>1. flowToDefinition(graph) = def
  BY Zenon DEF flowToDefinition
<1>2. def.nodes = defNodes /\ def.edges = graph.edges /\ DOMAIN defNodes = Ids(graph)
  OBVIOUS
<1>3. \A n \in Ids(graph) : defNodes[n].act = graph.nodes[n].act /\ defNodes[n].label = graph.nodes[n].label
  OBVIOUS
<1> HIDE DEF defNodes, def
<1>4. \A n \in Ids(graph) : LabelText(defNodes[n]) = LabelText(graph.nodes[n])
  BY <1>3 DEF LabelText
<1>5. definitionToMermaid(def) =
        [decls |-> [n \in Ids(graph) |-> Declared(graph.nodes[n])],
         links |-> {EscapedEdge(e) : e \in graph.edges}]
  BY <1>2, <1>3, <1>4 DEF definitionToMermaid, Declared
<1> QED
  BY <1>1, <1>5 DEF Generated

\* It meets what is assumed of texts.
LEMMA GeneratedIsWellFormed ==
    ASSUME WellFormed(graph)
    PROVE  \A n \in DOMAIN Generated.decls : IsActivity(Generated.decls[n].act)
<1>1. \A n \in Ids(graph) : Declared(graph.nodes[n]).act = graph.nodes[n].act
  BY DEF Declared
<1> QED
  BY <1>1, GeneratedText DEF WellFormed

\* The links read back from it, and no declaration but its own.
LEMMA GeneratedLinks ==
    /\ linksRead(Generated) = {Restored(e) : e \in {f \in graph.edges : "newline" \notin f.cond}}
    /\ ~Keyed => \A l \in Generated.links : "key" \notin l.cond
<1>1. \A e : /\ EscapedEdge(e).source = e.source /\ EscapedEdge(e).target = e.target
             /\ EscapedEdge(e).cond = EscapeCondition(e.cond)
  BY DEF EscapedEdge
<1>2. \A c : \A part \in {"newline", "key"} : part \in EscapeCondition(c) <=> part \in c
  BY DEF EscapeCondition
<1>3. ASSUME NEW e PROVE stripped(EscapedEdge(e)) = Restored(e)
  <2>1. EscapeCondition(e.cond) \ {"index", "key"} = Restored(e).cond
    <3>1. CASE "bars" \in e.cond
      BY <3>1 DEF EscapeCondition, Restored
    <3>2. CASE "bars" \notin e.cond
      BY <3>2 DEF EscapeCondition, Restored
    <3> QED
      BY <3>1, <3>2
  <2> QED
    BY <1>1, <2>1 DEF stripped, Restored
<1> QED
  BY <1>1, <1>2, <1>3, GeneratedText DEF linksRead, Keyed

\* Applied, it keeps activity, label and option of every node that was not renamed,
\* and the type of every node with an activity.
LEMMA GeneratedKeepsNodes ==
    ASSUME WellFormed(graph), NEW n \in Ids(graph), ~Renamed(graph.nodes[n]), ~Keyed,
           graph.nodes[n].act # <<"", "">>, LabelText(graph.nodes[n]) # NoLabel
    PROVE  AppliedNode(Generated, n) = Labelled(graph.nodes[n])
<1> DEFINE act == graph.nodes[n].act
<1>1. IsActivity(act) /\ FitsActivity(graph.nodes[n])
  BY DEF WellFormed
<1> DEFINE decls == declarations(Generated)
<1>2. /\ n \in DOMAIN decls /\ decls[n] = Declared(graph.nodes[n])
      /\ decls[n].act = act /\ decls[n].label = LabelText(graph.nodes[n])
  <2>1. n \in DOMAIN decls /\ decls[n] = Declared(graph.nodes[n])
    BY GeneratedText, GeneratedLinks, DeclarationsFacts
  <2>2. /\ Declared(graph.nodes[n]).act = act
        /\ Declared(graph.nodes[n]).label = LabelText(graph.nodes[n])
    BY DEF Declared
  <2> QED
    BY <2>1, <2>2
<1>3. EntryOf(Generated, n) = IF act \in offered THEN {act} ELSE {}
  BY <1>1, <1>2, EntryOfGenerated DEF EntryOf
<1>4. ActOf(Generated, n) = act
  <2>1. CASE act \in offered
    BY <1>3, <2>1 DEF ActOf
  <2>2. CASE act \notin offered
    BY <1>2, <1>3, <2>2 DEF ActOf
  <2> QED
    BY <2>1, <2>2
<1>5. AppliedType(Generated, n) = defaultNodeType(act)
  <2>1. CASE act \in offered
    <3>1. act \in CATALOG
      BY <2>1, GraphAssumption DEF offered
    <3> QED
      BY <1>2, <1>3, <1>4, <2>1, <3>1, CatalogIsTyped DEF AppliedType
  <2>2. CASE act \notin offered
    BY <1>2, <1>3, <1>4, <2>2 DEF AppliedType
  <2> QED
    BY <2>1, <2>2
<1>6. AppliedAct(Generated, n) = act
  BY <1>2, <1>4 DEF AppliedAct
<1>7. AppliedLabel(Generated, n) = LabelText(graph.nodes[n])
  BY <1>2 DEF AppliedLabel
<1>8. graph.nodes[n].type = defaultNodeType(act)
  BY <1>1 DEF FitsActivity
<1> HIDE DEF act
<1>9. AppliedNode(Generated, n) =
        [type |-> defaultNodeType(act), act |-> act, label |-> LabelText(graph.nodes[n]),
         opt |-> graph.nodes[n].opt]
  BY <1>5, <1>6, <1>7, Zenon DEF AppliedNode
<1> QED
  BY <1>8, <1>9, Zenon DEF Labelled, act

\* MermaidKeepsGraph follows from the shape of the graph.
LEMMA GeneratedTextKeepsGraph ==
    ASSUME WellFormed(graph)
    PROVE  MermaidKeepsGraph
<1> DEFINE E == {Restored(e) : e \in {f \in graph.edges : "newline" \notin f.cond}}
<1> SUFFICES ASSUME ~Hanging, ~Untyped, ~Misnamed, ~Blank, ~Keyed
             PROVE  applyMermaid(graph, Generated, offered) =
                      [nodes |-> [n \in Ids(graph) |-> Labelled(graph.nodes[n])], edges |-> E]
  BY DEF MermaidKeepsGraph, Generated
<1>1. \A e \in graph.edges : e.source \in Ids(graph) /\ e.target \in Ids(graph)
  BY DEF Hanging
<1>2. \A e : Restored(e).source = e.source /\ Restored(e).target = e.target
  BY DEF Restored
<1>3. Linked(Generated) \subseteq Ids(graph)
  BY <1>1, <1>2, GeneratedLinks DEF Linked
<1>4. \A n \in Ids(graph) : AppliedNode(Generated, n) = Labelled(graph.nodes[n])
  BY GeneratedKeepsNodes DEF Untyped, Misnamed, Renamed, Blank
<1>5. DOMAIN declarations(Generated) \cup Linked(Generated) = Ids(graph)
  BY <1>3, GeneratedText, GeneratedLinks, DeclarationsFacts
<1>6. [n \in Ids(graph) |-> AppliedNode(Generated, n)] = [n \in Ids(graph) |-> Labelled(graph.nodes[n])]
  BY <1>4
<1>7. applyMermaid(graph, Generated, offered) =
        [nodes |-> [n \in DOMAIN declarations(Generated) \cup Linked(Generated) |->
                        AppliedNode(Generated, n)],
         edges |-> linksRead(Generated)]
  BY AppliedText
<1>8. applyMermaid(graph, Generated, offered) =
        [nodes |-> [n \in Ids(graph) |-> AppliedNode(Generated, n)], edges |-> linksRead(Generated)]
  BY <1>5, <1>7, Zenon
<1>9. linksRead(Generated) = E
  BY GeneratedLinks
<1> QED
  BY <1>6, <1>8, <1>9, Zenon

-----------------------------------------------------------------------------
(* Steps *)

\* How a graph is seen to be well-formed.
LEMMA GraphOf ==
    ASSUME NEW N, NEW f, f = [n \in N |-> f[n]], NEW E, \A e \in E : IsEdge(e),
           \A n \in N : /\ f[n] = [type |-> f[n].type, act |-> f[n].act,
                                   label |-> f[n].label, opt |-> f[n].opt]
                         /\ IsActivity(f[n].act) /\ FitsActivity(f[n])
    PROVE  WellFormed([nodes |-> f, edges |-> E])
<1> DEFINE g == [nodes |-> f, edges |-> E]
<1>1. g.nodes = f /\ g.edges = E /\ DOMAIN f = N
  OBVIOUS
<1>2. Ids(g) = N
  BY <1>1 DEF Ids
<1> HIDE DEF g
<1>3. g = [nodes |-> g.nodes, edges |-> g.edges]
  BY <1>1 DEF g
<1>4. g.nodes = [n \in Ids(g) |-> [type |-> g.nodes[n].type, act |-> g.nodes[n].act,
                                   label |-> g.nodes[n].label, opt |-> g.nodes[n].opt]]
  BY <1>1, <1>2
<1> QED
  BY <1>1, <1>2, <1>3, <1>4 DEF WellFormed, g

\* The features a graph brings are those of its nodes and their options, the ones
\* it needs among them.
Within(node, G) == pipelineFeatures(node.act, node.opt) \subseteq G /\ OptionFeatures(node.opt) \subseteq G

LEMMA BringsWithin ==
    ASSUME NEW g, NEW G
    PROVE  Brings(g) \subseteq G <=> \A n \in Ids(g) : Within(g.nodes[n], G)
  BY DEF Brings, Within, OptionFeatures

LEMMA NeedsAreBrought == \A g : Needs(g) \subseteq Brings(g)
  BY DEF Needs, Brings

\* A new canvas is empty.
LEMMA InitIInv == Init => IInv
<1> SUFFICES ASSUME Init PROVE IInv
  OBVIOUS
<1>1. graph = Empty /\ Ids(graph) = {}
  BY DEF Init, Empty, Ids
<1>2. WellFormed(graph)
  BY <1>1 DEF WellFormed, Empty
<1>3. Brings(graph) \subseteq granted
  BY <1>1, BringsWithin
<1> QED
  BY <1>2, <1>3 DEF IInv, Init

\* addEdge adds an edge.
LEMMA AddedEdge ==
    ASSUME NEW E, \A e \in E : IsEdge(e), NEW s, NEW t
    PROVE  \A e \in addEdge(E, s, t) : IsEdge(e)
<1>1. IsEdge([source |-> s, target |-> t, cond |-> {}])
  BY DEF IsEdge
<1> QED
  BY <1>1 DEF addEdge

\* A node from the palette or the menu is one of an offered entry.
LEMMA AddNodeStep ==
    ASSUME IInv, NEW act \in offered, NEW source, addNode(act, source)
    PROVE  IInv'
<1> DEFINE N == Ids(graph) \cup {nid + 1}
           f == [n \in N |-> IF n = nid + 1 THEN Node(act) ELSE graph.nodes[n]]
           E == IF source = 0 THEN graph.edges ELSE addEdge(graph.edges, source, nid + 1)
<1>1. graph' = [nodes |-> f, edges |-> E] /\ UNCHANGED <<features, granted>>
  BY DEF addNode
<1>2. act \in CATALOG /\ requiredFeature(act) \subseteq features
  BY GraphAssumption DEF offered, entryOffered
<1>3. Node(act).act = act /\ Node(act).opt = "" /\ Node(act).type = defaultNodeType(act)
  BY <1>2, CatalogIsTyped DEF Node
<1>4. Node(act) = [type |-> Node(act).type, act |-> Node(act).act,
                   label |-> Node(act).label, opt |-> Node(act).opt]
  BY DEF Node
<1>5. IsActivity(Node(act).act) /\ FitsActivity(Node(act))
  BY <1>2, <1>3, CatalogIsTyped DEF FitsActivity
<1>6. \A e \in E : IsEdge(e)
  BY AddedEdge DEF IInv, WellFormed
<1>7. \A n \in N : /\ f[n] = [type |-> f[n].type, act |-> f[n].act,
                              label |-> f[n].label, opt |-> f[n].opt]
                    /\ IsActivity(f[n].act) /\ FitsActivity(f[n])
  BY <1>4, <1>5 DEF IInv, WellFormed
<1>8. WellFormed(graph')
  <2>1. f = [n \in N |-> f[n]]
    OBVIOUS
  <2> HIDE DEF f, E, N
  <2> QED
    BY <1>1, <1>6, <1>7, <2>1, GraphOf
<1>9. Brings(graph') \subseteq granted'
  <2>1. Within(Node(act), granted)
    BY <1>2, <1>3, UnsetOptionIsFree, EntryAndOption DEF IInv, Within
  <2>2. \A n \in Ids(graph) : Within(graph.nodes[n], granted)
    BY BringsWithin DEF IInv
  <2>3. graph'.nodes = f /\ Ids(graph') = N
    BY <1>1 DEF Ids
  <2>4. \A n \in N : Within(f[n], granted)
    BY <2>1, <2>2
  <2> HIDE DEF f, N
  <2> QED
    BY <1>1, <2>3, <2>4, BringsWithin
<1> QED
  BY <1>1, <1>8, <1>9 DEF IInv

\* Steps that change edges only.
LEMMA EdgesStep ==
    ASSUME IInv, NEW E, \A e \in E : IsEdge(e), graph' = [nodes |-> graph.nodes, edges |-> E],
           UNCHANGED <<features, granted>>
    PROVE  IInv'
<1>1. graph'.nodes = graph.nodes /\ Ids(graph') = Ids(graph)
  BY DEF Ids
<1>2. WellFormed(graph')
  <2>1. graph.nodes = [n \in Ids(graph) |-> graph.nodes[n]]
    BY DEF IInv, WellFormed
  <2>2. \A n \in Ids(graph) :
            /\ graph.nodes[n] = [type |-> graph.nodes[n].type, act |-> graph.nodes[n].act,
                                 label |-> graph.nodes[n].label, opt |-> graph.nodes[n].opt]
            /\ IsActivity(graph.nodes[n].act) /\ FitsActivity(graph.nodes[n])
    BY DEF IInv, WellFormed
  <2>3. WellFormed([nodes |-> graph.nodes, edges |-> E])
    BY <2>1, <2>2, GraphOf
  <2> QED
    BY <2>3
<1>3. Brings(graph') = Brings(graph)
  BY <1>1 DEF Brings
<1> QED
  BY <1>2, <1>3 DEF IInv

\* An option of the inspector is one the features of now allow.
LEMMA PatchNodeStep ==
    ASSUME IInv, NEW n \in Ids(graph), NEW l, NEW o, patchNode(n, l, o)
    PROVE  IInv'
<1> DEFINE N == Ids(graph)
           new == [type |-> graph.nodes[n].type, act |-> graph.nodes[n].act, label |-> l, opt |-> o]
           f == [m \in N |-> IF m = n THEN new ELSE graph.nodes[m]]
<1>1. graph' = [nodes |-> f, edges |-> graph.edges] /\ UNCHANGED <<features, granted>>
  BY DEF patchNode
<1>2. \A m \in N : Within(graph.nodes[m], granted)
  BY BringsWithin DEF IInv
<1>3. \A m \in N : IsActivity(graph.nodes[m].act) /\ FitsActivity(graph.nodes[m])
  BY DEF IInv, WellFormed
<1>4. Within(new, granted)
  <2>1. new.act = graph.nodes[n].act /\ new.opt = o
    OBVIOUS
  <2>2. CASE o = graph.nodes[n].opt
    BY <1>2, <2>1, <2>2 DEF Within
  <2>3. CASE o # graph.nodes[n].opt
    <3>1. /\ graph.nodes[n].act \in CATALOG /\ requiredFeature(graph.nodes[n].act) \subseteq granted
          /\ o \in optionsOffered(graph.nodes[n].act, features)
      BY <2>3, GraphAssumption DEF patchNode, offered, entryOffered, IInv
    <3>2. OptionFeatures(o) \subseteq granted
      BY <3>1, OfferedOptionIsEntitled DEF IInv
    <3> QED
      BY <2>1, <3>1, <3>2, EntryAndOption DEF Within
  <2> QED
    BY <2>2, <2>3
<1>5. IsActivity(new.act) /\ FitsActivity(new)
  BY <1>3 DEF FitsActivity
<1>6. \A m \in N : f[m] = [type |-> f[m].type, act |-> f[m].act, label |-> f[m].label, opt |-> f[m].opt]
  BY DEF IInv, WellFormed
<1>7. f = [m \in N |-> f[m]] /\ DOMAIN f = N /\ \A m \in N : f[m] = new \/ f[m] = graph.nodes[m]
  OBVIOUS
<1>8. \A e \in graph.edges : IsEdge(e)
  BY DEF IInv, WellFormed
<1> HIDE DEF f, N, new
<1>9. WellFormed(graph')
  <2>1. \A m \in N : IsActivity(f[m].act) /\ FitsActivity(f[m])
    BY <1>3, <1>5, <1>7
  <2> QED
    BY <1>1, <1>6, <1>7, <1>8, <2>1, GraphOf
<1>10. Brings(graph') \subseteq granted'
  <2>1. graph'.nodes = f /\ Ids(graph') = N
    BY <1>1, <1>7 DEF Ids
  <2>2. \A m \in N : Within(f[m], granted)
    BY <1>2, <1>4, <1>7
  <2> QED
    BY <1>1, <2>1, <2>2, BringsWithin
<1> QED
  BY <1>1, <1>9, <1>10 DEF IInv

\* A deleted node takes nothing with it but its edges.
LEMMA DeleteNodeStep ==
    ASSUME IInv, NEW n \in Ids(graph), deleteNode(n)
    PROVE  IInv'
<1> DEFINE N == Ids(graph) \ {n}
           f == [m \in N |-> graph.nodes[m]]
           E == {e \in graph.edges : e.source # n /\ e.target # n}
<1>1. graph' = [nodes |-> f, edges |-> E] /\ UNCHANGED <<features, granted>>
  BY DEF deleteNode
<1>2. \A m \in N : /\ f[m] = [type |-> f[m].type, act |-> f[m].act,
                              label |-> f[m].label, opt |-> f[m].opt]
                    /\ IsActivity(f[m].act) /\ FitsActivity(f[m])
  BY DEF IInv, WellFormed
<1>3. f = [m \in N |-> f[m]] /\ DOMAIN f = N /\ \A m \in N : f[m] = graph.nodes[m] /\ m \in Ids(graph)
  OBVIOUS
<1>4. \A e \in E : IsEdge(e)
  BY DEF IInv, WellFormed
<1> HIDE DEF f, E, N
<1>5. WellFormed(graph')
  BY <1>1, <1>2, <1>3, <1>4, GraphOf
<1>6. Brings(graph') \subseteq granted'
  <2>1. graph'.nodes = f /\ Ids(graph') = N
    BY <1>1, <1>3 DEF Ids
  <2>2. \A m \in Ids(graph) : Within(graph.nodes[m], granted)
    BY BringsWithin DEF IInv
  <2> QED
    BY <1>1, <1>3, <2>1, <2>2, BringsWithin
<1> QED
  BY <1>1, <1>5, <1>6 DEF IInv

\* A typed text grants what it asks for; the generated one asks for nothing new,
\* the nodes it adds for hanging edges included.
LEMMA MermaidStep ==
    ASSUME IInv, NEW text \in Texts \cup {Generated}, MermaidApplied(text)
    PROVE  IInv'
<1>1. graph' = applyMermaid(graph, text, offered) /\ UNCHANGED features
      /\ granted' = granted \cup (IF text \in Texts THEN Needs(graph') ELSE {})
  BY DEF MermaidApplied
<1>2. WellFormed(graph)
  BY DEF IInv
<1>3. \A n \in DOMAIN text.decls : IsActivity(text.decls[n].act)
  <2>1. CASE text \in Texts
    BY <2>1, InputAssumption
  <2>2. CASE text = Generated
    BY <2>2, <1>2, GeneratedIsWellFormed
  <2> QED
    BY <2>1, <2>2
<1>4. WellFormed(graph')
  BY <1>1, <1>3, AppliedIsWellFormed
<1> DEFINE N == DOMAIN declarations(text) \cup Linked(text)
<1>5. graph' = [nodes |-> [n \in N |-> AppliedNode(text, n)], edges |-> linksRead(text)]
  BY <1>1, AppliedText
<1> HIDE DEF N
<1>6. Ids(graph') = N /\ \A n \in N : graph'.nodes[n] = AppliedNode(text, n)
  BY <1>5 DEF Ids
<1>7. \A n \in Ids(graph) : Within(graph.nodes[n], granted)
  BY BringsWithin DEF IInv
<1>8. ASSUME NEW n \in N PROVE OptionFeatures(AppliedNode(text, n).opt) \subseteq granted
  <2>1. AppliedNode(text, n).opt = IF n \in Ids(graph) THEN graph.nodes[n].opt ELSE ""
    BY DEF AppliedNode
  <2> QED
    BY <1>7, <2>1, UnsetOptionIsFree DEF Within
<1>9. ASSUME NEW n \in N
      PROVE  pipelineFeatures(AppliedNode(text, n).act, AppliedNode(text, n).opt) \subseteq granted'
  <2>1. CASE text \in Texts
    BY <1>1, <1>6, <2>1 DEF Needs
  <2>2. CASE text = Generated /\ n \notin Ids(graph)
    <3>1. n \in DOMAIN declarations(text) => declarations(text)[n].act = <<"", "">>
      BY <2>2, GeneratedText, DeclarationsFacts
    <3>2. AppliedNode(text, n).act = AppliedAct(text, n) /\ AppliedNode(text, n).opt = ""
      BY <2>2 DEF AppliedNode
    <3>3. CASE AppliedAct(text, n) = <<"", "">>
      BY <3>2, <3>3, UnsetOptionIsFree
    <3>4. CASE AppliedAct(text, n) # <<"", "">>
      <4>1. AppliedAct(text, n) \in offered
        <5>1. EntryOf(text, n) \subseteq offered
          BY DEF EntryOf, MermaidEntry
        <5>2. n \in DOMAIN declarations(text) /\ AppliedAct(text, n) = ActOf(text, n)
          BY <3>4 DEF AppliedAct
        <5>3. EntryOf(text, n) # {}
          BY <3>1, <3>4, <5>2 DEF ActOf
        <5> QED
          BY <5>1, <5>2, <5>3 DEF ActOf
      <4>2. AppliedAct(text, n) \in CATALOG /\ requiredFeature(AppliedAct(text, n)) \subseteq granted
        BY <4>1, GraphAssumption DEF offered, entryOffered, IInv
      <4> QED
        BY <1>1, <1>8, <3>2, <4>2, EntryAndOption
    <3> QED
      BY <3>3, <3>4
  <2>3. CASE text = Generated /\ n \in Ids(graph)
    <3>1. /\ n \in DOMAIN declarations(text)
          /\ declarations(text)[n].act \in {graph.nodes[n].act, <<"", "">>}
      <4>1. n \in DOMAIN text.decls /\ text.decls[n].act = graph.nodes[n].act
        BY <2>3, GeneratedText DEF Declared
      <4>2. n \in DOMAIN declarations(text)
        BY <4>1, DeclarationsFacts
      <4> QED
        BY <4>1, <4>2, DeclarationsFacts
    <3>2. AppliedNode(text, n).act = ActOf(text, n) /\ AppliedNode(text, n).opt = graph.nodes[n].opt
      BY <2>3, <3>1 DEF AppliedNode, AppliedAct
    <3>3. CASE EntryOf(text, n) = {}
      <4>1. ActOf(text, n) \in {graph.nodes[n].act, <<"", "">>}
        BY <3>1, <3>3 DEF ActOf
      <4>2. pipelineFeatures(<<"", "">>, graph.nodes[n].opt) \subseteq OptionFeatures(graph.nodes[n].opt)
        BY DEF pipelineFeatures, OptionFeatures, AdvancedConnectors
      <4> QED
        BY <1>1, <1>7, <2>3, <3>2, <4>1, <4>2 DEF Within
    <3>4. CASE EntryOf(text, n) # {}
      <4>1. EntryOf(text, n) \subseteq offered
        BY DEF EntryOf, MermaidEntry
      <4>2. ActOf(text, n) \in offered
        BY <3>4, <4>1 DEF ActOf
      <4>3. ActOf(text, n) \in CATALOG /\ requiredFeature(ActOf(text, n)) \subseteq granted
        BY <4>2, GraphAssumption DEF offered, entryOffered, IInv
      <4> QED
        BY <1>1, <1>8, <3>2, <4>3, EntryAndOption
    <3> QED
      BY <3>3, <3>4
  <2> QED
    BY <2>1, <2>2, <2>3
<1>10. granted \subseteq granted'
  BY <1>1
<1>11. \A n \in Ids(graph') : Within(graph'.nodes[n], granted')
  BY <1>6, <1>8, <1>9, <1>10 DEF Within
<1>12. Brings(graph') \subseteq granted'
  BY <1>11, BringsWithin
<1> QED
  BY <1>1, <1>4, <1>10, <1>12 DEF IInv

\* A definition grants what it asks for.
LEMMA ReplacedStep ==
    ASSUME IInv, NEW def \in Definitions, Replaced(def)
    PROVE  IInv'
<1> DEFINE N == DOMAIN def.nodes
           f == [n \in N |-> [type |-> def.nodes[n].type, act |-> def.nodes[n].act,
                    label |-> def.nodes[n].label,
                    opt |-> IF def.nodes[n].mergeStrategy # "" THEN def.nodes[n].mergeStrategy
                            ELSE def.nodes[n].config]]
<1>1. graph' = [nodes |-> f, edges |-> def.edges]
  BY DEF Replaced, definitionToFlow
<1>2. UNCHANGED features /\ granted' = granted \cup Brings(graph')
  BY DEF Replaced
<1>3. \A n \in N : /\ f[n] = [type |-> f[n].type, act |-> f[n].act,
                              label |-> f[n].label, opt |-> f[n].opt]
                    /\ f[n].type = def.nodes[n].type /\ f[n].act = def.nodes[n].act
  OBVIOUS
<1>4. f = [n \in N |-> f[n]]
  OBVIOUS
<1>5. \A n \in N : IsActivity(def.nodes[n].act) /\ FitsActivity(def.nodes[n])
  <2>1. \A n \in N : IsActivity(def.nodes[n].act) /\ IsTyped(def.nodes[n])
    BY InputAssumption
  <2> QED
    BY <2>1, CatalogIsTyped DEF IsTyped, FitsActivity
<1>6. \A e \in def.edges : IsEdge(e)
  BY InputAssumption
<1> HIDE DEF f, N
<1>7. \A n \in N : IsActivity(f[n].act) /\ FitsActivity(f[n])
  BY <1>3, <1>5 DEF FitsActivity
<1>8. WellFormed(graph')
  BY <1>1, <1>3, <1>4, <1>6, <1>7, GraphOf
<1> QED
  BY <1>2, <1>8 DEF IInv

\* One case per edit.
LEMMA EditStep ==
    ASSUME IInv, Edit
    PROVE  IInv'
<1> USE DEF Generated
<1>1. CASE PickFromPalette
  BY <1>1, AddNodeStep DEF PickFromPalette
<1>2. CASE PickFromMenu
  BY <1>2, AddNodeStep DEF PickFromMenu
<1>3. ASSUME UNCHANGED <<graph, features, granted>> PROVE IInv'
  BY <1>3 DEF IInv
<1>4. CASE onPaneClick
  BY <1>3, <1>4 DEF onPaneClick
<1>5. ASSUME NEW s \in Ids(graph), NEW t \in Ids(graph), onConnect(s, t) PROVE IInv'
  <2>1. graph' = [nodes |-> graph.nodes, edges |-> addEdge(graph.edges, s, t)]
    BY <1>5 DEF onConnect, IInv, WellFormed
  <2>2. \A e \in addEdge(graph.edges, s, t) : IsEdge(e)
    BY AddedEdge DEF IInv, WellFormed
  <2> QED
    BY <1>5, <2>1, <2>2, EdgesStep DEF onConnect
<1>6. ASSUME NEW n \in Ids(graph), finishConnection(n) PROVE IInv'
  BY <1>3, <1>6 DEF finishConnection
<1>7. ASSUME NEW e \in graph.edges, onEdgesChange(e) PROVE IInv'
  <2>1. graph' = [nodes |-> graph.nodes, edges |-> graph.edges \ {e}]
    BY <1>7 DEF onEdgesChange, IInv, WellFormed
  <2>2. \A d \in graph.edges \ {e} : IsEdge(d)
    BY DEF IInv, WellFormed
  <2> QED
    BY <1>7, <2>1, <2>2, EdgesStep DEF onEdgesChange
<1>8. ASSUME NEW e \in graph.edges, NEW c, patchEdgeCondition(e, c) PROVE IInv'
  <2> DEFINE new == [source |-> e.source, target |-> e.target, cond |-> c]
             E == (graph.edges \ {e}) \cup {new}
  <2>1. e = [source |-> e.source, target |-> e.target, cond |-> e.cond]
    BY DEF IInv, WellFormed, IsEdge
  <2>2. [e EXCEPT !.cond = c] = new
    BY <2>1
  <2>3. graph' = [nodes |-> graph.nodes, edges |-> E]
    BY <1>8, <2>2 DEF patchEdgeCondition, IInv, WellFormed
  <2>4. IsEdge(new)
    BY DEF IsEdge
  <2>5. \A d \in E : IsEdge(d)
    BY <2>4 DEF IInv, WellFormed
  <2> QED
    BY <1>8, <2>3, <2>5, EdgesStep DEF patchEdgeCondition
<1>9. ASSUME NEW f, setFeature(f) PROVE IInv'
  BY <1>9 DEF setFeature, IInv
<1> QED
  BY <1>1, <1>2, <1>4, <1>5, <1>6, <1>7, <1>8, <1>9, PatchNodeStep, DeleteNodeStep,
     MermaidStep, ReplacedStep DEF Edit

\* Every step keeps the invariant.
LEMMA NextIInv == IInv /\ [Next]_vars => IInv'
<1> SUFFICES ASSUME IInv, [Next]_vars PROVE IInv'
  OBVIOUS
<1>1. CASE Edit
  BY <1>1, EditStep
<1>2. CASE Remount
  <2>1. graph' = Empty /\ granted' = features /\ features' = features
    BY <1>2 DEF Remount
  <2>2. Ids(Empty) = {} /\ WellFormed(Empty)
    BY DEF WellFormed, Empty, Ids
  <2>3. Brings(graph') \subseteq granted'
    BY <2>1, <2>2, BringsWithin
  <2> QED
    BY <2>1, <2>2, <2>3 DEF IInv
<1>3. CASE UNCHANGED vars
  BY <1>3 DEF IInv, vars
<1> QED
  BY <1>1, <1>2, <1>3 DEF Next

-----------------------------------------------------------------------------
(* Induction and loops *)

\* A set of naturals has a least element.
LEMMA LeastElement ==
    ASSUME NEW T, T \subseteq Nat, T # {}
    PROVE  \E m \in T : \A k \in T : m <= k
<1>1. IsWellFoundedOn(OpToRel(<, Nat), Nat)
  BY NatLessThanWellFounded, Zenon
<1>2. PICK m \in T : \A k \in T : ~(<<k, m>> \in OpToRel(<, Nat))
  BY <1>1, WFMin, Zenon
<1>3. \A k \in T : ~(k < m)
  BY <1>2 DEF OpToRel
<1> QED
  BY <1>3

\* Induction over the naturals, on a set instead of a predicate.
LEMMA SetInduction ==
    ASSUME NEW S, 0 \in S, \A n \in Nat : n \in S => n + 1 \in S
    PROVE  Nat \subseteq S
<1> SUFFICES ASSUME Nat \ S # {} PROVE FALSE
  OBVIOUS
<1>1. PICK m \in Nat \ S : \A k \in Nat \ S : m <= k
  BY LeastElement
<1>2. m # 0 /\ m - 1 \in Nat /\ m - 1 \in S
  BY <1>1
<1> QED
  BY <1>1, <1>2

\* f is the run of a loop over states in S: from a, by h, for K rounds.
IsRun(f, S, a, h, K) == f \in [0..K -> S] /\ f[0] = a /\ \A k \in 1..K : f[k] = h[f[k - 1]]

\* Every loop over states of S has a run.
LEMMA LoopRuns ==
    ASSUME NEW S, NEW a \in S, NEW h \in [S -> S], NEW K \in Nat
    PROVE  \E f : IsRun(f, S, a, h, K)
<1> DEFINE Runs(n) == \E f \in [0..n -> S] : f[0] = a /\ \A k \in 1..n : f[k] = h[f[k - 1]]
           T == {n \in Nat : Runs(n)}
<1>1. 0 \in T
  <2> DEFINE f == [k \in 0..0 |-> a]
  <2>1. f \in [0..0 -> S] /\ f[0] = a /\ \A k \in 1..0 : f[k] = h[f[k - 1]]
    OBVIOUS
  <2> QED
    BY <2>1
<1>2. ASSUME NEW n \in Nat, n \in T PROVE n + 1 \in T
  <2>1. PICK f \in [0..n -> S] : f[0] = a /\ \A k \in 1..n : f[k] = h[f[k - 1]]
    BY <1>2
  <2> DEFINE g == [k \in 0..(n + 1) |-> IF k = n + 1 THEN h[f[n]] ELSE f[k]]
  <2>2. g \in [0..(n + 1) -> S] /\ g[n + 1] = h[f[n]] /\ \A k \in 0..n : g[k] = f[k]
    OBVIOUS
  <2> HIDE DEF g
  <2>3. g[0] = a
    BY <2>1, <2>2
  <2>4. \A k \in 1..(n + 1) : g[k] = h[g[k - 1]]
    <3> TAKE k \in 1..(n + 1)
    <3>1. k - 1 \in 0..n
      OBVIOUS
    <3>2. CASE k = n + 1
      BY <2>2, <3>2
    <3>3. CASE k # n + 1
      <4>1. k \in 1..n /\ k \in 0..n
        BY <3>3
      <4> QED
        BY <2>1, <2>2, <3>1, <4>1
    <3> QED
      BY <3>2, <3>3
  <2>5. Runs(n + 1)
    BY <2>2, <2>3, <2>4
  <2> HIDE DEF Runs
  <2> QED
    BY <2>5
<1> HIDE DEF T
<1>3. Nat \subseteq T
  BY <1>1, <1>2, SetInduction
<1> QED
  BY <1>3 DEF T, IsRun

-----------------------------------------------------------------------------
(* The depth-first search of the canvas *)

Colours == {"white", "gray", "black"}

\* While no gray node was met: the gray nodes are those on the stack, without
\* repetition and each a successor of the one below; an entry looked at leads to a
\* black node or to the call above; black nodes lead to black nodes only, and no
\* set of them runs in circles.
Searching(N, A, c, s, l) ==
    /\ \A n \in N : c[n] = "gray" <=> \E i \in 1..Len(s) : s[i] = n
    /\ \A i, j \in 1..Len(s) : s[i] = s[j] => i = j
    /\ \A i \in 1..(Len(s) - 1) : <<s[i], s[i + 1]>> \in A
    /\ \A n, m \in N : <<n, m>> \in A \ l =>
        c[m] = "black" \/ \E i \in 1..(Len(s) - 1) : s[i] = n /\ s[i + 1] = m
    /\ \A n, m \in N : <<n, m>> \in A /\ c[n] = "black" => c[m] = "black"
    /\ \A B \in SUBSET {n \in N : c[n] = "black"} :
        B # {} => \E n \in B : \A m \in B : <<n, m>> \notin A

\* A white node is called: the first of a tree, or the next entry of the top.
LEMMA CallKeepsSearching ==
    ASSUME NEW N, NEW A, NEW c \in [N -> Colours], NEW s \in Seq(N), NEW l,
           Searching(N, A, c, s, l), NEW n \in N, c[n] = "white", NEW l2,
           \/ s = <<>> /\ l2 = l
           \/ s # <<>> /\ <<s[Len(s)], n>> \in A /\ l2 = l \ {<<s[Len(s)], n>>}
    PROVE  Searching(N, A, Painted(c, n, "gray"), Append(s, n), l2)
<1> DEFINE d == Painted(c, n, "gray")
           t == Append(s, n)
<1>1. d \in [N -> Colours] /\ d[n] = "gray" /\ \A m \in N \ {n} : d[m] = c[m]
  BY DEF Painted, Colours
<1>2. Len(t) = Len(s) + 1 /\ Len(s) \in Nat /\ t[Len(s) + 1] = n /\ \A i \in 1..Len(s) : t[i] = s[i]
  OBVIOUS
<1>3. \A i \in 1..Len(s) : s[i] \in N
  OBVIOUS
<1> HIDE DEF d, t
<1>4. \A i \in 1..Len(s) : c[s[i]] = "gray" /\ s[i] # n
  BY <1>3 DEF Searching
<1>5. \A m \in N : d[m] = "gray" <=> \E i \in 1..Len(t) : t[i] = m
  <2> TAKE m \in N
  <2>1. CASE m = n
    BY <1>1, <1>2, <2>1
  <2>2. CASE m # n
    <3>1. d[m] = "gray" <=> \E i \in 1..Len(s) : s[i] = m
      BY <1>1, <2>2 DEF Searching
    <3>2. (\E i \in 1..Len(s) : s[i] = m) <=> \E i \in 1..Len(t) : t[i] = m
      BY <1>2, <2>2
    <3> QED
      BY <3>1, <3>2
  <2> QED
    BY <2>1, <2>2
<1>6. \A i, j \in 1..Len(t) : t[i] = t[j] => i = j
  <2>1. \A i \in 1..Len(t) : i \in 1..Len(s) \/ i = Len(s) + 1
    BY <1>2
  <2>2. \A i, j \in 1..Len(s) : s[i] = s[j] => i = j
    BY DEF Searching
  <2> QED
    BY <1>2, <1>4, <2>1, <2>2
<1>7. \A i \in 1..(Len(t) - 1) : <<t[i], t[i + 1]>> \in A
  <2> TAKE i \in 1..(Len(t) - 1)
  <2>1. CASE i = Len(s)
    BY <1>2, <2>1
  <2>2. CASE i # Len(s)
    <3>1. i \in 1..(Len(s) - 1) /\ i \in 1..Len(s) /\ i + 1 \in 1..Len(s)
      BY <1>2, <2>2
    <3> QED
      BY <1>2, <3>1 DEF Searching
  <2> QED
    BY <2>1, <2>2
<1>8. \A p, m \in N : <<p, m>> \in A \ l2 =>
        d[m] = "black" \/ \E i \in 1..(Len(t) - 1) : t[i] = p /\ t[i + 1] = m
  <2> SUFFICES ASSUME NEW p \in N, NEW m \in N, <<p, m>> \in A \ l2
               PROVE  d[m] = "black" \/ \E i \in 1..(Len(t) - 1) : t[i] = p /\ t[i + 1] = m
    OBVIOUS
  <2>1. CASE <<p, m>> \in A \ l
    <3>1. c[m] = "black" \/ \E i \in 1..(Len(s) - 1) : s[i] = p /\ s[i + 1] = m
      BY <2>1 DEF Searching
    <3>2. CASE c[m] = "black"
      BY <1>1, <3>2
    <3>3. ASSUME NEW i \in 1..(Len(s) - 1), s[i] = p, s[i + 1] = m
          PROVE  \E j \in 1..(Len(t) - 1) : t[j] = p /\ t[j + 1] = m
      <4>1. i \in 1..(Len(t) - 1) /\ i \in 1..Len(s) /\ i + 1 \in 1..Len(s)
        BY <1>2
      <4> QED
        BY <1>2, <3>3, <4>1
    <3> QED
      BY <3>1, <3>2, <3>3
  <2>2. CASE ~(<<p, m>> \in A \ l)
    <3>1. s # <<>> /\ <<p, m>> = <<s[Len(s)], n>>
      BY <2>2
    <3>2. Len(s) \in 1..(Len(t) - 1) /\ Len(s) \in 1..Len(s)
      BY <1>2, <3>1
    <3> QED
      BY <1>2, <3>1, <3>2
  <2> QED
    BY <2>1, <2>2
<1>9. \A m \in N : d[m] = "black" <=> c[m] = "black"
  BY <1>1
<1>10. {m \in N : d[m] = "black"} = {m \in N : c[m] = "black"}
  BY <1>9
<1>11. \A p, m \in N : <<p, m>> \in A /\ d[p] = "black" => d[m] = "black"
  BY <1>9 DEF Searching
<1> QED
  BY <1>5, <1>6, <1>7, <1>8, <1>10, <1>11 DEF Searching, d, t

\* An entry that leads to a black node, or out of the canvas, is passed over.
LEMMA PassKeepsSearching ==
    ASSUME NEW N, NEW A, NEW c \in [N -> Colours], NEW s \in Seq(N), NEW l,
           Searching(N, A, c, s, l), NEW m, m \notin N \/ c[m] = "black", NEW n
    PROVE  Searching(N, A, c, s, l \ {<<n, m>>})
<1>1. \A p, q \in N : <<p, q>> \in A \ (l \ {<<n, m>>}) =>
        c[q] = "black" \/ \E i \in 1..(Len(s) - 1) : s[i] = p /\ s[i + 1] = q
  <2> SUFFICES ASSUME NEW p \in N, NEW q \in N, <<p, q>> \in A \ (l \ {<<n, m>>})
               PROVE  c[q] = "black" \/ \E i \in 1..(Len(s) - 1) : s[i] = p /\ s[i + 1] = q
    OBVIOUS
  <2>1. <<p, q>> \in A \ l \/ q = m
    OBVIOUS
  <2> QED
    BY <2>1 DEF Searching
<1> QED
  BY <1>1 DEF Searching

\* The node on top returns when all its entries were looked at: what it leads to is
\* black, and it closes no circle of black nodes.
LEMMA ReturnKeepsSearching ==
    ASSUME NEW N, NEW A, NEW c \in [N -> Colours], NEW s \in Seq(N), NEW l,
           Searching(N, A, c, s, l), s # <<>>,
           \A m : <<s[Len(s)], m>> \in A => <<s[Len(s)], m>> \notin l,
           \A m : <<m, m>> \notin A
    PROVE  Searching(N, A, Painted(c, s[Len(s)], "black"), SubSeq(s, 1, Len(s) - 1), l)
<1> DEFINE n == s[Len(s)]
           d == Painted(c, n, "black")
           t == SubSeq(s, 1, Len(s) - 1)
<1>1. Len(s) \in Nat \ {0} /\ n \in N /\ Len(s) \in 1..Len(s)
  OBVIOUS
<1>2. Len(t) = Len(s) - 1 /\ Len(t) \in Nat /\ \A i \in 1..Len(t) : t[i] = s[i]
  <2>1. 1 \in Int /\ Len(s) - 1 \in Int /\ \A i \in 1..(Len(s) - 1) : s[i] \in N
    BY <1>1
  <2>2. /\ Len(t) = IF 1 <= Len(s) - 1 THEN (Len(s) - 1) - 1 + 1 ELSE 0
        /\ \A i \in 1..((Len(s) - 1) - 1 + 1) : t[i] = s[1 + i - 1]
    BY <2>1, SubSeqProperties
  <2>3. \A i \in 1..(Len(s) - 1) : 1 + i - 1 = i
    BY <1>1
  <2> QED
    BY <1>1, <2>2, <2>3
<1>3. d \in [N -> Colours] /\ d[n] = "black" /\ \A m \in N \ {n} : d[m] = c[m]
  BY <1>1 DEF Painted, Colours
<1>4. c[n] = "gray"
  BY <1>1 DEF Searching
<1>5. \A i, j \in 1..Len(s) : s[i] = s[j] => i = j
  BY DEF Searching
<1>6. \A i \in 1..Len(t) : s[i] # n /\ i \in 1..Len(s) /\ s[i] \in N
  BY <1>1, <1>2, <1>5
<1> HIDE DEF d, t
<1>7. \A m \in N : d[m] = "gray" <=> \E i \in 1..Len(t) : t[i] = m
  <2> TAKE m \in N
  <2>1. CASE m = n
    BY <1>2, <1>3, <1>6, <2>1
  <2>2. CASE m # n
    <3>1. d[m] = "gray" <=> \E i \in 1..Len(s) : s[i] = m
      BY <1>3, <2>2 DEF Searching
    <3>2. \A i \in 1..Len(s) : s[i] = m => i \in 1..Len(t)
      BY <1>1, <1>2, <2>2
    <3>3. (\E i \in 1..Len(s) : s[i] = m) <=> \E i \in 1..Len(t) : t[i] = m
      BY <1>2, <1>6, <3>2
    <3> QED
      BY <3>1, <3>3
  <2> QED
    BY <2>1, <2>2
<1>8. \A i, j \in 1..Len(t) : t[i] = t[j] => i = j
  BY <1>2, <1>5, <1>6
<1>9. \A i \in 1..(Len(t) - 1) : <<t[i], t[i + 1]>> \in A
  <2> TAKE i \in 1..(Len(t) - 1)
  <2>1. i \in 1..(Len(s) - 1) /\ i \in 1..Len(t) /\ i + 1 \in 1..Len(t)
    BY <1>2
  <2> QED
    BY <1>2, <2>1 DEF Searching
<1>10. \A m \in N : <<n, m>> \in A => c[m] = "black"
  <2> SUFFICES ASSUME NEW m \in N, <<n, m>> \in A PROVE c[m] = "black"
    OBVIOUS
  <2>1. c[m] = "black" \/ \E i \in 1..(Len(s) - 1) : s[i] = n /\ s[i + 1] = m
    BY <1>1 DEF Searching
  <2>2. \A i \in 1..(Len(s) - 1) : s[i] # n
    BY <1>2, <1>6
  <2> QED
    BY <2>1, <2>2
<1>11. \A p, m \in N : <<p, m>> \in A \ l =>
        d[m] = "black" \/ \E i \in 1..(Len(t) - 1) : t[i] = p /\ t[i + 1] = m
  <2> SUFFICES ASSUME NEW p \in N, NEW m \in N, <<p, m>> \in A \ l, d[m] # "black"
               PROVE  \E i \in 1..(Len(t) - 1) : t[i] = p /\ t[i + 1] = m
    OBVIOUS
  <2>1. c[m] # "black" /\ m # n
    BY <1>3
  <2>2. PICK i \in 1..(Len(s) - 1) : s[i] = p /\ s[i + 1] = m
    BY <2>1 DEF Searching
  <2>3. i + 1 # Len(s)
    BY <2>1, <2>2
  <2>4. i \in 1..(Len(t) - 1) /\ i \in 1..Len(t) /\ i + 1 \in 1..Len(t)
    BY <1>2, <2>3
  <2> QED
    BY <1>2, <2>2, <2>4
<1>12. \A p, m \in N : <<p, m>> \in A /\ d[p] = "black" => d[m] = "black"
  <2> SUFFICES ASSUME NEW p \in N, NEW m \in N, <<p, m>> \in A, d[p] = "black" PROVE d[m] = "black"
    OBVIOUS
  <2>1. c[m] = "black"
    BY <1>3, <1>10 DEF Searching
  <2> QED
    BY <1>3, <2>1
<1>13. ASSUME NEW B \in SUBSET {m \in N : d[m] = "black"}, B # {}
       PROVE  \E p \in B : \A m \in B : <<p, m>> \notin A
  <2> DEFINE C == B \ {n}
  <2>1. C \in SUBSET {m \in N : c[m] = "black"}
    BY <1>3
  <2>2. CASE C = {}
    <3>1. B = {n}
      BY <1>13, <2>2
    <3> QED
      BY <3>1
  <2>3. CASE C # {}
    <3>1. PICK p \in C : \A m \in C : <<p, m>> \notin A
      BY <2>1, <2>3 DEF Searching
    <3>2. <<p, n>> \notin A
      <4>1. c[p] = "black" /\ p \in N
        BY <2>1
      <4> QED
        BY <1>1, <1>4, <4>1 DEF Searching
    <3> QED
      BY <3>1, <3>2
  <2> QED
    BY <2>2, <2>3
<1> QED
  BY <1>7, <1>8, <1>9, <1>11, <1>12, <1>13 DEF Searching, d, t

\* The nodes on the stack and the gray node met run in circles.
LEMMA MetGrayRunsInCircles ==
    ASSUME NEW N, NEW A, NEW c \in [N -> Colours], NEW s \in Seq(N), NEW l,
           Searching(N, A, c, s, l), s # <<>>, NEW m \in N, c[m] = "gray",
           <<s[Len(s)], m>> \in A
    PROVE  \E S \in SUBSET N : S # {} /\ \A n \in S : \E p \in S : <<n, p>> \in A
<1> DEFINE S == {n \in N : c[n] = "gray"}
<1>1. \A n \in S : \E p \in S : <<n, p>> \in A
  <2> SUFFICES ASSUME NEW n \in S PROVE \E p \in S : <<n, p>> \in A
    OBVIOUS
  <2>1. PICK i \in 1..Len(s) : s[i] = n
    BY DEF Searching
  <2>2. CASE i = Len(s)
    BY <2>1, <2>2
  <2>3. CASE i # Len(s)
    <3>1. i \in 1..(Len(s) - 1) /\ i + 1 \in 1..Len(s) /\ s[i + 1] \in N
      BY <2>3
    <3>2. <<s[i], s[i + 1]>> \in A /\ c[s[i + 1]] = "gray"
      BY <3>1 DEF Searching
    <3> QED
      BY <2>1, <3>1, <3>2
  <2> QED
    BY <2>2, <2>3
<1>2. S # {} /\ S \in SUBSET N
  OBVIOUS
<1> QED
  BY <1>1, <1>2

\* The states of the search; a set of nodes that never run out of successors; the
\* invariant of the search; and what a round makes less.
dfsStates(g) == [colour : [Ids(g) -> Colours], stack : Seq(Ids(g)), left : SUBSET adjacency(g),
                 cycle : BOOLEAN]

RunsInCircles(g) ==
    \E S \in SUBSET Ids(g) : S # {} /\ \A n \in S : \E p \in S : <<n, p>> \in adjacency(g)

DfsInv(g, st) ==
    /\ st.cycle => RunsInCircles(g)
    /\ ~st.cycle => Searching(Ids(g), adjacency(g), st.colour, st.stack, st.left)

White(st) == {n \in DOMAIN st.colour : st.colour[n] = "white"}
Finished(st) == st.cycle \/ (st.stack = <<>> /\ White(st) = {})
Todo(st) == Cardinality(st.left) + 2 * Cardinality(White(st)) + Len(st.stack)

FiniteGraph(g) == IsFiniteSet(Ids(g)) /\ IsFiniteSet(g.edges)

\* The entries of the adjacency lists: pairs of different nodes, the first one of
\* the canvas, and finitely many of them.
LEMMA AdjacencyEntries ==
    ASSUME NEW g
    PROVE  /\ \A entry \in adjacency(g) : entry = <<entry[1], entry[2]>> /\ entry[1] \in Ids(g)
           /\ \A m : <<m, m>> \notin adjacency(g)
           /\ \A n \in Ids(g) : \A m : m \in outgoing(g, n) <=> <<n, m>> \in adjacency(g)
  BY DEF adjacency, SelfLoops, outgoing

\* There are finitely many entries.
LEMMA AdjacencyIsFinite ==
    ASSUME NEW g, IsFiniteSet(g.edges)
    PROVE  IsFiniteSet(adjacency(g))
<1> DEFINE E == {f \in g.edges \ SelfLoops(g) : f.source \in Ids(g)}
           f == [e \in E |-> <<e.source, e.target>>]
<1>1. IsFiniteSet(E)
  BY FS_Subset
<1>2. f \in Surjection(E, adjacency(g))
  BY DEF Surjection, adjacency
<1> QED
  BY <1>1, <1>2, FS_Surjection

\* What a colour painted over leaves white.
LEMMA PaintedWhite ==
    ASSUME NEW g, NEW st, st.colour \in [Ids(g) -> Colours], IsFiniteSet(Ids(g)), NEW n \in Ids(g),
           NEW t, NEW c \in {"gray", "black"}, t.colour = Painted(st.colour, n, c)
    PROVE  /\ t.colour \in [Ids(g) -> Colours]
           /\ Cardinality(White(st)) \in Nat
           /\ st.colour[n] # "white" => White(t) = White(st)
           /\ st.colour[n] = "white" => Cardinality(White(t)) = Cardinality(White(st)) - 1
<1>1. IsFiniteSet(White(st))
  BY FS_Subset DEF White
<1>2. White(t) = White(st) \ {n}
  BY DEF White, Painted
<1>3. st.colour[n] = "white" <=> n \in White(st)
  BY DEF White
<1>4. Cardinality(White(st)) \in Nat
  BY <1>1, FS_CardinalityType
<1>5. Cardinality(White(st) \ {n}) = IF n \in White(st) THEN Cardinality(White(st)) - 1 ELSE Cardinality(White(st))
  BY <1>1, FS_RemoveElement
<1>6. t.colour \in [Ids(g) -> Colours]
  BY DEF Painted, Colours
<1> QED
  BY <1>2, <1>3, <1>4, <1>5, <1>6

\* What a round promises.
Keeps(g, st, next) ==
    /\ next \in dfsStates(g) /\ DfsInv(g, next)
    /\ Finished(next) \/ Todo(next) + 1 <= Todo(st)

\* A call, from outside or by an entry.
LEMMA CallStep ==
    ASSUME NEW g, FiniteGraph(g), NEW st \in dfsStates(g), DfsInv(g, st), ~st.cycle,
           NEW n \in Ids(g), st.colour[n] = "white", NEW l,
           \/ st.stack = <<>> /\ l = st.left
           \/ /\ st.stack # <<>> /\ <<st.stack[Len(st.stack)], n>> \in st.left
              /\ l = st.left \ {<<st.stack[Len(st.stack)], n>>}
    PROVE  Keeps(g, st, dfsCall(st, n, l))
<1> DEFINE next == dfsCall(st, n, l)
<1>1. /\ next.colour = Painted(st.colour, n, "gray") /\ next.stack = Append(st.stack, n)
      /\ next.left = l /\ next.cycle = FALSE
  BY DEF dfsCall
<1>2. /\ st.colour \in [Ids(g) -> Colours] /\ st.stack \in Seq(Ids(g))
      /\ st.left \in SUBSET adjacency(g) /\ l \in SUBSET st.left
  BY DEF dfsStates
<1>3. /\ next.colour \in [Ids(g) -> Colours] /\ Cardinality(White(st)) \in Nat
      /\ Cardinality(White(next)) = Cardinality(White(st)) - 1
  BY <1>1, <1>2, PaintedWhite DEF FiniteGraph
<1>4. next.stack \in Seq(Ids(g)) /\ Len(next.stack) = Len(st.stack) + 1 /\ Len(st.stack) \in Nat
  BY <1>1, <1>2
<1>5. next \in dfsStates(g)
  BY <1>1, <1>2, <1>3, <1>4 DEF dfsStates, dfsCall
<1>6. Searching(Ids(g), adjacency(g), next.colour, next.stack, next.left)
  <2>1. Searching(Ids(g), adjacency(g), st.colour, st.stack, st.left)
    BY DEF DfsInv
  <2> QED
    BY <1>1, <1>2, <2>1, CallKeepsSearching
<1>7. Cardinality(st.left) \in Nat /\ Cardinality(l) \in Nat /\ Cardinality(l) <= Cardinality(st.left)
  <2>1. IsFiniteSet(st.left) /\ IsFiniteSet(l) /\ Cardinality(l) <= Cardinality(st.left)
    BY <1>2, AdjacencyIsFinite, FS_Subset DEF FiniteGraph
  <2> QED
    BY <2>1, FS_CardinalityType
<1> HIDE DEF next
<1>8. Todo(next) + 1 <= Todo(st)
  BY <1>1, <1>3, <1>4, <1>7 DEF Todo
<1> QED
  BY <1>1, <1>5, <1>6, <1>8 DEF Keeps, DfsInv, next

\* A return.
LEMMA ReturnStep ==
    ASSUME NEW g, FiniteGraph(g), NEW st \in dfsStates(g), DfsInv(g, st), ~st.cycle,
           st.stack # <<>>, {entry \in st.left : entry[1] = st.stack[Len(st.stack)]} = {}
    PROVE  Keeps(g, st, dfsReturn(st))
<1> DEFINE next == dfsReturn(st)
           top == st.stack[Len(st.stack)]
<1>1. /\ next.colour = Painted(st.colour, top, "black")
      /\ next.stack = SubSeq(st.stack, 1, Len(st.stack) - 1)
      /\ next.left = st.left /\ next.cycle = FALSE
  BY DEF dfsReturn
<1>2. /\ st.colour \in [Ids(g) -> Colours] /\ st.stack \in Seq(Ids(g)) /\ st.left \in SUBSET adjacency(g)
  BY DEF dfsStates
<1>3. Len(st.stack) \in Nat \ {0} /\ top \in Ids(g) /\ Len(st.stack) \in 1..Len(st.stack)
  BY <1>2
<1>4. Searching(Ids(g), adjacency(g), st.colour, st.stack, st.left)
  BY DEF DfsInv
<1>5. st.colour[top] = "gray"
  BY <1>2, <1>3, <1>4 DEF Searching
<1>6. next.colour \in [Ids(g) -> Colours] /\ White(next) = White(st)
  <2> HIDE DEF next, top
  <2> QED
    BY <1>1, <1>2, <1>3, <1>5, PaintedWhite DEF FiniteGraph
<1>7. next.stack \in Seq(Ids(g)) /\ Len(next.stack) = Len(st.stack) - 1
  <2>1. 1 \in Int /\ Len(st.stack) - 1 \in Int /\ \A i \in 1..(Len(st.stack) - 1) : st.stack[i] \in Ids(g)
    BY <1>2, <1>3
  <2>2. /\ next.stack \in Seq(Ids(g))
        /\ Len(next.stack) = IF 1 <= Len(st.stack) - 1 THEN (Len(st.stack) - 1) - 1 + 1 ELSE 0
    BY <1>1, <2>1, SubSeqProperties
  <2> QED
    BY <1>3, <2>2
<1>8. next \in dfsStates(g)
  BY <1>1, <1>2, <1>6, <1>7 DEF dfsStates, dfsReturn
<1>9. Searching(Ids(g), adjacency(g), next.colour, next.stack, next.left)
  <2>1. \A m : <<top, m>> \notin st.left
    OBVIOUS
  <2>2. \A m : <<m, m>> \notin adjacency(g)
    BY AdjacencyEntries
  <2> QED
    BY <1>1, <1>2, <1>4, <2>1, <2>2, ReturnKeepsSearching
<1>10. Cardinality(st.left) \in Nat /\ Cardinality(White(st)) \in Nat
  <2>1. IsFiniteSet(st.left) /\ IsFiniteSet(White(st))
    BY <1>2, AdjacencyIsFinite, FS_Subset DEF FiniteGraph, White
  <2> QED
    BY <2>1, FS_CardinalityType
<1> HIDE DEF next
<1>11. Todo(next) + 1 <= Todo(st)
  BY <1>1, <1>3, <1>6, <1>7, <1>10 DEF Todo
<1> QED
  BY <1>1, <1>8, <1>9, <1>11 DEF Keeps, DfsInv, next

\* An entry of the node on top, whatever the colour of the node it leads to.
LEMMA EntryStep ==
    ASSUME NEW g, FiniteGraph(g), NEW st \in dfsStates(g), DfsInv(g, st), ~st.cycle,
           st.stack # <<>>, NEW entry \in st.left, entry[1] = st.stack[Len(st.stack)]
    PROVE  Keeps(g, st, dfsEntry(st, entry))
<1> DEFINE m == entry[2]
           left == st.left \ {entry}
           passed == [colour |-> st.colour, stack |-> st.stack, left |-> left, cycle |-> FALSE]
           met == [colour |-> st.colour, stack |-> st.stack, left |-> left, cycle |-> TRUE]
<1>1. /\ st.colour \in [Ids(g) -> Colours] /\ st.stack \in Seq(Ids(g)) /\ st.left \in SUBSET adjacency(g)
      /\ DOMAIN st.colour = Ids(g)
  BY DEF dfsStates
<1>2. /\ entry = <<st.stack[Len(st.stack)], m>> /\ <<st.stack[Len(st.stack)], m>> \in adjacency(g)
      /\ left = st.left \ {<<st.stack[Len(st.stack)], m>>}
  BY <1>1, AdjacencyEntries
<1>3. Searching(Ids(g), adjacency(g), st.colour, st.stack, st.left)
  BY DEF DfsInv
<1>4. passed \in dfsStates(g) /\ met \in dfsStates(g)
  BY <1>1 DEF dfsStates
<1>5. ASSUME m \notin Ids(g) \/ st.colour[m] = "black" PROVE Keeps(g, st, passed)
  <2>1. Searching(Ids(g), adjacency(g), st.colour, st.stack, left)
    <3> HIDE DEF m, left
    <3> QED
      BY <1>1, <1>2, <1>3, <1>5, PassKeepsSearching
  <2>2. DfsInv(g, passed)
    BY <2>1 DEF DfsInv
  <2>3. Todo(passed) + 1 <= Todo(st)
    <3>1. White(passed) = White(st)
      BY DEF White
    <3>2. IsFiniteSet(st.left) /\ IsFiniteSet(White(st))
      BY <1>1, AdjacencyIsFinite, FS_Subset DEF FiniteGraph, White
    <3>3. Cardinality(st.left) \in Nat /\ Cardinality(White(st)) \in Nat
      BY <3>2, FS_CardinalityType
    <3>4. Cardinality(left) = Cardinality(st.left) - 1
      BY <3>2, FS_RemoveElement
    <3>5. passed.left = left /\ passed.stack = st.stack /\ Len(st.stack) \in Nat
      BY <1>1
    <3> HIDE DEF passed, left
    <3> QED
      BY <3>1, <3>3, <3>4, <3>5 DEF Todo
  <2> QED
    BY <1>4, <2>2, <2>3 DEF Keeps
<1>6. CASE m \notin Ids(g)
  <2>1. dfsEntry(st, entry) = passed
    BY <1>1, <1>6 DEF dfsEntry
  <2> QED
    BY <1>5, <1>6, <2>1
<1>7. CASE m \in Ids(g) /\ st.colour[m] = "gray"
  <2>1. dfsEntry(st, entry) = met
    BY <1>1, <1>7 DEF dfsEntry
  <2>2. RunsInCircles(g)
    <3> HIDE DEF m
    <3> QED
      BY <1>1, <1>2, <1>3, <1>7, MetGrayRunsInCircles DEF RunsInCircles
  <2>3. DfsInv(g, met) /\ Finished(met)
    BY <2>2 DEF DfsInv, Finished
  <2> QED
    BY <1>4, <2>1, <2>3 DEF Keeps
<1>8. CASE m \in Ids(g) /\ st.colour[m] = "white"
  <2>1. dfsEntry(st, entry) = dfsCall(st, m, left)
    BY <1>1, <1>8 DEF dfsEntry
  <2>2. Keeps(g, st, dfsCall(st, m, left))
    BY <1>2, <1>8, CallStep
  <2> QED
    BY <2>1, <2>2
<1>9. CASE m \in Ids(g) /\ st.colour[m] = "black"
  <2>1. dfsEntry(st, entry) = passed
    BY <1>1, <1>9 DEF dfsEntry
  <2> QED
    BY <1>5, <1>9, <2>1
<1>10. m \in Ids(g) => st.colour[m] \in Colours
  BY <1>1
<1> QED
  BY <1>6, <1>7, <1>8, <1>9, <1>10 DEF Colours

\* Every round keeps the invariant and has less left to do.
LEMMA DfsStep ==
    ASSUME NEW g, FiniteGraph(g), NEW st \in dfsStates(g), DfsInv(g, st)
    PROVE  /\ Finished(st) => dfsStep(st) = st
           /\ ~Finished(st) => Keeps(g, st, dfsStep(st))
<1> DEFINE todo == {entry \in st.left : entry[1] = st.stack[Len(st.stack)]}
<1>1. Finished(st) => dfsStep(st) = st
  BY DEF dfsStep, Finished, White
<1>2. CASE ~Finished(st) /\ st.stack = <<>>
  <2> DEFINE n == CHOOSE n \in White(st) : TRUE
  <2>1. dfsStep(st) = dfsCall(st, n, st.left)
    BY <1>2 DEF dfsStep, Finished, White
  <2>2. n \in White(st)
    BY <1>2 DEF Finished
  <2>3. n \in Ids(g) /\ st.colour[n] = "white"
    BY <2>2 DEF White, dfsStates
  <2>4. ~st.cycle
    BY <1>2 DEF Finished
  <2> QED
    BY <1>2, <2>1, <2>3, <2>4, CallStep
<1>3. CASE ~Finished(st) /\ st.stack # <<>> /\ todo = {}
  <2>1. ~st.cycle
    BY <1>3 DEF Finished
  <2>2. dfsStep(st) = dfsReturn(st)
    BY <1>3, <2>1 DEF dfsStep
  <2> QED
    BY <1>3, <2>1, <2>2, ReturnStep
<1>4. CASE ~Finished(st) /\ st.stack # <<>> /\ todo # {}
  <2> DEFINE entry == CHOOSE entry \in todo : TRUE
  <2>1. ~st.cycle
    BY <1>4 DEF Finished
  <2>2. dfsStep(st) = dfsEntry(st, entry)
    BY <1>4, <2>1 DEF dfsStep
  <2>3. entry \in todo
    BY <1>4
  <2> HIDE DEF entry
  <2>4. entry \in st.left /\ entry[1] = st.stack[Len(st.stack)]
    BY <2>3
  <2> QED
    BY <1>4, <2>1, <2>2, <2>4, EntryStep
<1> QED
  BY <1>1, <1>2, <1>3, <1>4

\* The run of the search ends finished, whatever the order it takes nodes and
\* entries in.
LEMMA DfsFinishes ==
    ASSUME NEW g, FiniteGraph(g)
    PROVE  dfs(g) \in dfsStates(g) /\ DfsInv(g, dfs(g)) /\ Finished(dfs(g))
<1> DEFINE K == dfsBound(g)
           S == {st \in dfsStates(g) : DfsInv(g, st)}
           h == [st \in S |-> dfsStep(st)]
           run == CHOOSE f : f = [k \in 0..K |-> IF k = 0 THEN dfsStart(g) ELSE dfsStep(f[k - 1])]
<1>1. Cardinality(adjacency(g)) \in Nat /\ Cardinality(Ids(g)) \in Nat /\ K \in Nat
  BY AdjacencyIsFinite, FS_CardinalityType DEF FiniteGraph, dfsBound
<1>2. dfsStart(g) \in S
  <2>1. dfsStart(g) \in dfsStates(g)
    BY DEF dfsStart, dfsStates, Colours
  <2>2. Searching(Ids(g), adjacency(g), [n \in Ids(g) |-> "white"], <<>>, adjacency(g))
    BY DEF Searching
  <2>3. DfsInv(g, dfsStart(g))
    BY <2>2 DEF DfsInv, dfsStart
  <2> QED
    BY <2>1, <2>3
<1>3. \A st \in S : /\ dfsStep(st) \in S
                    /\ Finished(st) => Finished(dfsStep(st))
                    /\ ~Finished(st) => Finished(dfsStep(st)) \/ Todo(dfsStep(st)) + 1 <= Todo(st)
  BY DfsStep DEF Keeps
<1>4. Todo(dfsStart(g)) = K
  <2>1. White(dfsStart(g)) = Ids(g) /\ dfsStart(g).left = adjacency(g) /\ Len(dfsStart(g).stack) = 0
    BY DEF White, dfsStart
  <2> QED
    BY <1>1, <2>1 DEF Todo, dfsBound
<1>5. \A st \in S : Todo(st) \in Nat
  <2> SUFFICES ASSUME NEW st \in S PROVE Todo(st) \in Nat
    OBVIOUS
  <2>1. st.left \in SUBSET adjacency(g) /\ White(st) \in SUBSET Ids(g) /\ Len(st.stack) \in Nat
    BY DEF dfsStates, White
  <2>2. IsFiniteSet(st.left) /\ IsFiniteSet(White(st))
    BY <2>1, AdjacencyIsFinite, FS_Subset DEF FiniteGraph
  <2>3. Cardinality(st.left) \in Nat /\ Cardinality(White(st)) \in Nat
    BY <2>2, FS_CardinalityType
  <2> QED
    BY <2>1, <2>3 DEF Todo
<1>6. h \in [S -> S]
  BY <1>3
<1> HIDE DEF K, S
<1>7. \E f : f = [k \in 0..K |-> IF k = 0 THEN dfsStart(g) ELSE dfsStep(f[k - 1])]
  <2> HIDE DEF h
  <2>1. PICK f : IsRun(f, S, dfsStart(g), h, K)
    BY <1>1, <1>2, <1>6, LoopRuns
  <2> USE DEF h
  <2>2. f \in [0..K -> S] /\ \A k \in 1..K : k - 1 \in 0..K /\ f[k - 1] \in S
    BY <1>1, <2>1 DEF IsRun
  <2>3. \A k \in 0..K : f[k] = IF k = 0 THEN dfsStart(g) ELSE dfsStep(f[k - 1])
    <3> TAKE k \in 0..K
    <3>1. CASE k = 0
      BY <2>1, <3>1 DEF IsRun
    <3>2. CASE k # 0
      <4>1. k \in 1..K
        BY <3>2
      <4> QED
        BY <2>1, <2>2, <3>2, <4>1 DEF IsRun
    <3> QED
      BY <3>1, <3>2
  <2>4. f = [k \in 0..K |-> IF k = 0 THEN dfsStart(g) ELSE dfsStep(f[k - 1])]
    BY <2>2, <2>3
  <2> QED
    BY <2>4
<1>8. run = [k \in 0..K |-> IF k = 0 THEN dfsStart(g) ELSE dfsStep(run[k - 1])]
  BY <1>7, Zenon
<1>9. dfs(g) = run[K]
  BY Zenon DEF dfs, K
<1> HIDE DEF run
<1> DEFINE T == {n \in Nat : n <= K => run[n] \in S /\ (Finished(run[n]) \/ Todo(run[n]) + n <= K)}
<1>10. 0 \in T
  <2>1. run[0] = dfsStart(g)
    BY <1>1, <1>8
  <2> QED
    BY <1>1, <1>2, <1>4, <2>1
<1>11. ASSUME NEW n \in Nat, n \in T PROVE n + 1 \in T
  <2> SUFFICES ASSUME n + 1 <= K
               PROVE  run[n + 1] \in S /\ (Finished(run[n + 1]) \/ Todo(run[n + 1]) + (n + 1) <= K)
    OBVIOUS
  <2>1. run[n + 1] = dfsStep(run[n])
    BY <1>1, <1>8
  <2>2. run[n] \in S /\ (Finished(run[n]) \/ Todo(run[n]) + n <= K)
    BY <1>1, <1>11
  <2>3. run[n + 1] \in S /\ Todo(run[n]) \in Nat /\ Todo(run[n + 1]) \in Nat
    BY <1>3, <1>5, <2>1, <2>2
  <2>4. Finished(run[n]) => Finished(run[n + 1])
    BY <1>3, <2>1, <2>2
  <2>5. ~Finished(run[n]) => Finished(run[n + 1]) \/ Todo(run[n + 1]) + 1 <= Todo(run[n])
    BY <1>3, <2>1, <2>2
  <2> QED
    BY <1>1, <2>2, <2>3, <2>4, <2>5
<1> HIDE DEF T
<1>12. Nat \subseteq T
  BY <1>10, <1>11, SetInduction
<1>13. run[K] \in S /\ (Finished(run[K]) \/ Todo(run[K]) + K <= K)
  BY <1>1, <1>12 DEF T
<1>14. CASE Todo(run[K]) + K <= K
  <2> DEFINE st == run[K]
  <2>1. st.left \in SUBSET adjacency(g) /\ White(st) \in SUBSET Ids(g) /\ Len(st.stack) \in Nat
        /\ st.stack \in Seq(Ids(g))
    BY <1>13 DEF dfsStates, White, S
  <2>2. IsFiniteSet(st.left) /\ IsFiniteSet(White(st))
    BY <2>1, AdjacencyIsFinite, FS_Subset DEF FiniteGraph
  <2>3. Cardinality(st.left) \in Nat /\ Cardinality(White(st)) \in Nat
    BY <2>2, FS_CardinalityType
  <2>4. Cardinality(White(st)) = 0 /\ Len(st.stack) = 0
    BY <1>1, <1>14, <2>1, <2>3 DEF Todo
  <2>5. White(st) = {} /\ st.stack = <<>>
    BY <2>1, <2>2, <2>4, FS_EmptySet
  <2> QED
    BY <1>9, <1>13, <2>5 DEF Finished, S
<1>15. CASE Finished(run[K])
  BY <1>9, <1>13, <1>15 DEF S
<1> QED
  BY <1>13, <1>14, <1>15

\* The depth-first search meets a gray node exactly when some nodes run in
\* circles.
LEMMA DfsFindsCycles ==
    ASSUME NEW g, FiniteGraph(g)
    PROVE  FindsCycle(g) <=> RunsInCircles(g)
<1> DEFINE st == dfs(g)
<1>1. st \in dfsStates(g) /\ DfsInv(g, st) /\ Finished(st)
  BY DfsFinishes
<1> HIDE DEF st
<1>2. FindsCycle(g) <=> st.cycle
  BY DEF FindsCycle, st
<1>3. CASE st.cycle
  BY <1>1, <1>2, <1>3 DEF DfsInv
<1>4. CASE ~st.cycle
  <2>1. Searching(Ids(g), adjacency(g), st.colour, st.stack, st.left) /\ st.stack = <<>> /\ White(st) = {}
    BY <1>1, <1>4 DEF DfsInv, Finished
  <2>2. st.colour \in [Ids(g) -> Colours]
    BY <1>1 DEF dfsStates
  <2>3. \A n \in Ids(g) : st.colour[n] = "black"
    <3>1. \A n \in Ids(g) : st.colour[n] # "gray"
      BY <2>1 DEF Searching
    <3>2. \A n \in Ids(g) : st.colour[n] # "white"
      BY <2>1, <2>2 DEF White
    <3> QED
      BY <2>2, <3>1, <3>2 DEF Colours
  <2>4. ASSUME NEW S \in SUBSET Ids(g), S # {}, \A n \in S : \E p \in S : <<n, p>> \in adjacency(g)
        PROVE  FALSE
    <3>1. S \in SUBSET {n \in Ids(g) : st.colour[n] = "black"}
      BY <2>3
    <3> QED
      BY <2>1, <2>4, <3>1 DEF Searching
  <2> QED
    BY <1>2, <1>4, <2>4 DEF RunsInCircles
<1> QED
  BY <1>3, <1>4

\* The canvas reports a cycle exactly when there is one.
LEMMA CycleIsReported ==
    ASSUME FiniteGraph(graph)
    PROVE  "CYCLE" \in validatePipeline(graph) <=> Cyclic
<1>1. "CYCLE" \in validatePipeline(graph) <=> FindsCycle(graph)
  BY DEF validatePipeline
<1>2. Cyclic <=> RunsInCircles(graph)
  <2>1. ASSUME NEW S \in SUBSET Ids(graph), NEW n \in S
        PROVE  outgoing(graph, n) \cap S # {} <=> \E p \in S : <<n, p>> \in adjacency(graph)
    BY AdjacencyEntries
  <2> QED
    BY <2>1 DEF Cyclic, RunsInCircles
<1> QED
  BY <1>1, <1>2, DfsFindsCycles

\* Among finitely many nodes that all have a predecessor among them, some all have
\* a successor among them.
LEMMA BackwardsInCircles ==
    ASSUME NEW L, IsFiniteSet(L), L # {}, NEW A, \A n \in L : \E p \in L : <<p, n>> \in A
    PROVE  \E S \in SUBSET L : S # {} /\ \A n \in S : \E p \in S : <<n, p>> \in A
<1> DEFINE F == {U \in SUBSET L : U # {} /\ \A n \in U : \E p \in U : <<p, n>> \in A}
           Sizes == {m \in Nat : \E U \in F : Cardinality(U) = m}
<1>1. L \in F
  OBVIOUS
<1>2. \A U \in F : IsFiniteSet(U) /\ Cardinality(U) \in Nat
  BY FS_Subset, FS_CardinalityType
<1>3. Sizes # {} /\ Sizes \subseteq Nat
  BY <1>1, <1>2
<1>4. PICK m \in Sizes : \A k \in Sizes : m <= k
  <2> HIDE DEF Sizes
  <2> QED
    BY <1>3, LeastElement
<1>5. PICK U \in F : Cardinality(U) = m
  OBVIOUS
<1>6. ASSUME NEW n \in U, \A p \in U : <<n, p>> \notin A PROVE FALSE
  <2> DEFINE V == U \ {n}
  <2>1. \A q \in V : \E p \in V : <<p, q>> \in A
    BY <1>6
  <2>2. V # {}
    <3>1. PICK p \in U : <<p, n>> \in A
      OBVIOUS
    <3>2. p # n
      BY <1>6, <3>1
    <3> QED
      BY <3>2
  <2>3. V \in F
    BY <2>1, <2>2
  <2>4. Cardinality(V) = Cardinality(U) - 1
    BY <1>2, FS_RemoveElement
  <2>5. Cardinality(V) \in Sizes
    BY <1>2, <2>3
  <2> QED
    <3>1. m <= Cardinality(V)
      BY <1>4, <2>5
    <3>2. m \in Nat
      OBVIOUS
    <3> HIDE DEF V
    <3> QED
      BY <1>5, <2>4, <3>1, <3>2
<1> QED
  BY <1>6

\* Without such nodes, and without self-loops, Kahn's rounds leave nothing.
LEMMA SortedWhenAcyclic ==
    ASSUME NEW g, FiniteGraph(g), SelfLoops(g) = {}, ~RunsInCircles(g)
    PROVE  Unsorted(g) = {}
<1> DEFINE K == Cardinality(Ids(g))
           S == SUBSET Ids(g)
           h == [L \in S |-> L \ Free(g, L)]
           run == CHOOSE f : f = [k \in 0..K |-> IF k = 0 THEN Ids(g) ELSE f[k - 1] \ Free(g, f[k - 1])]
<1>1. K \in Nat
  BY FS_CardinalityType DEF FiniteGraph
<1>2. Ids(g) \in S /\ h \in [S -> S]
  OBVIOUS
<1>3. \A L \in S : IsFiniteSet(L) /\ Cardinality(L) \in Nat
  BY FS_Subset, FS_CardinalityType DEF FiniteGraph
<1>4. ASSUME NEW L \in S, L # {} PROVE Cardinality(L \ Free(g, L)) + 1 <= Cardinality(L)
  <2>1. Free(g, L) # {}
    <3> SUFFICES ASSUME Free(g, L) = {} PROVE FALSE
      OBVIOUS
    <3>1. \A n \in L : \E p \in L : <<p, n>> \in adjacency(g)
      <4> SUFFICES ASSUME NEW n \in L PROVE \E p \in L : <<p, n>> \in adjacency(g)
        OBVIOUS
      <4>1. PICK e \in g.edges : e.target = n /\ e.source \in L
        BY DEF Free
      <4>2. <<e.source, e.target>> \in adjacency(g)
        BY <4>1 DEF adjacency
      <4> QED
        BY <4>1, <4>2
    <3>2. \E C \in SUBSET L : C # {} /\ \A n \in C : \E p \in C : <<n, p>> \in adjacency(g)
      BY <1>3, <1>4, <3>1, BackwardsInCircles
    <3> QED
      BY <3>2 DEF RunsInCircles
  <2>2. PICK n \in L : n \in Free(g, L)
    BY <2>1 DEF Free
  <2>3. L \ Free(g, L) \in SUBSET (L \ {n}) /\ IsFiniteSet(L \ {n}) /\ Cardinality(L \ {n}) = Cardinality(L) - 1
    BY <1>3, <2>2, FS_RemoveElement
  <2>4. Cardinality(L \ Free(g, L)) <= Cardinality(L \ {n}) /\ L \ Free(g, L) \in S
    BY <2>3, FS_Subset
  <2> QED
    BY <1>3, <2>3, <2>4
<1> HIDE DEF K, S
<1>5. \E f : f = [k \in 0..K |-> IF k = 0 THEN Ids(g) ELSE f[k - 1] \ Free(g, f[k - 1])]
  <2> HIDE DEF h
  <2>1. PICK f : IsRun(f, S, Ids(g), h, K)
    BY <1>1, <1>2, LoopRuns
  <2> USE DEF h
  <2>2. f \in [0..K -> S] /\ \A k \in 1..K : k - 1 \in 0..K /\ f[k - 1] \in S
    BY <1>1, <2>1 DEF IsRun
  <2>3. \A k \in 0..K : f[k] = IF k = 0 THEN Ids(g) ELSE f[k - 1] \ Free(g, f[k - 1])
    <3> TAKE k \in 0..K
    <3>1. CASE k = 0
      BY <2>1, <3>1 DEF IsRun
    <3>2. CASE k # 0
      <4>1. k \in 1..K
        BY <3>2
      <4> QED
        BY <2>1, <2>2, <3>2, <4>1 DEF IsRun
    <3> QED
      BY <3>1, <3>2
  <2>4. f = [k \in 0..K |-> IF k = 0 THEN Ids(g) ELSE f[k - 1] \ Free(g, f[k - 1])]
    BY <2>2, <2>3
  <2> QED
    BY <2>4
<1>6. run = [k \in 0..K |-> IF k = 0 THEN Ids(g) ELSE run[k - 1] \ Free(g, run[k - 1])]
  BY <1>5, Zenon
<1>7. Unsorted(g) = run[K]
  BY Zenon DEF Unsorted, K
<1> HIDE DEF run
<1> DEFINE T == {n \in Nat : n <= K => run[n] \in S /\ (run[n] = {} \/ Cardinality(run[n]) + n <= K)}
<1>8. 0 \in T
  <2>1. run[0] = Ids(g)
    BY <1>1, <1>6
  <2> QED
    BY <1>1, <1>2, <2>1 DEF K
<1>9. ASSUME NEW n \in Nat, n \in T PROVE n + 1 \in T
  <2> SUFFICES ASSUME n + 1 <= K
               PROVE  run[n + 1] \in S /\ (run[n + 1] = {} \/ Cardinality(run[n + 1]) + (n + 1) <= K)
    OBVIOUS
  <2>1. run[n + 1] = run[n] \ Free(g, run[n])
    <3>1. n + 1 \in 0..K /\ n + 1 # 0 /\ (n + 1) - 1 = n
      BY <1>1
    <3> QED
      BY <1>6, <3>1
  <2>2. run[n] \in S /\ (run[n] = {} \/ Cardinality(run[n]) + n <= K)
    BY <1>1, <1>9
  <2>3. run[n + 1] \in S
    BY <2>1, <2>2 DEF S
  <2>4. CASE run[n] = {}
    BY <2>1, <2>3, <2>4
  <2>5. CASE run[n] # {}
    <3>1. Cardinality(run[n + 1]) + 1 <= Cardinality(run[n])
      BY <1>4, <2>1, <2>2, <2>5
    <3>2. Cardinality(run[n + 1]) \in Nat /\ Cardinality(run[n]) \in Nat
      BY <1>3, <2>2, <2>3
    <3> QED
      BY <1>1, <2>2, <2>3, <2>5, <3>1, <3>2
  <2> QED
    BY <2>4, <2>5
<1> HIDE DEF T
<1>10. Nat \subseteq T
  BY <1>8, <1>9, SetInduction
<1>11. run[K] \in S /\ (run[K] = {} \/ Cardinality(run[K]) + K <= K)
  BY <1>1, <1>10 DEF T
<1>12. Cardinality(run[K]) = 0 => run[K] = {}
  BY <1>3, <1>11, FS_EmptySet
<1>13. Cardinality(run[K]) \in Nat
  BY <1>3, <1>11
<1> QED
  BY <1>1, <1>7, <1>11, <1>12, <1>13

-----------------------------------------------------------------------------
(* Validation of reachable graphs *)

\* The image of a finite set of links.
LEMMA LinkedIsFinite ==
    ASSUME NEW text, IsFiniteSet(text.links)
    PROVE  IsFiniteSet(linksRead(text)) /\ IsFiniteSet(Linked(text))
<1> DEFINE K == {k \in text.links : "newline" \notin k.cond}
           L == linksRead(text)
           r == [e \in K |-> stripped(e)]
           S == {e.source : e \in L}
           T == {e.target : e \in L}
           f == [e \in L |-> e.source]
           h == [e \in L |-> e.target]
<1>0. IsFiniteSet(L)
  <2>1. IsFiniteSet(K)
    BY FS_Subset
  <2>2. r \in Surjection(K, L)
    BY DEF Surjection, linksRead
  <2> QED
    BY <2>1, <2>2, FS_Surjection
<1>1. f \in Surjection(L, S) /\ h \in Surjection(L, T)
  BY DEF Surjection
<1>2. IsFiniteSet(S) /\ IsFiniteSet(T)
  BY <1>0, <1>1, FS_Surjection
<1>3. IsFiniteSet(S \cup T)
  BY <1>2, FS_Union
<1> QED
  BY <1>0, <1>3 DEF Linked

\* The graph stays finite.
LEMMA NextFinite ==
    ASSUME IInv, FiniteGraph(graph), [Next]_vars
    PROVE  FiniteGraph(graph')
<1> USE DEF FiniteGraph
<1>1. ASSUME UNCHANGED graph PROVE FiniteGraph(graph')
  BY <1>1
<1>2. ASSUME NEW s, NEW t PROVE IsFiniteSet(addEdge(graph.edges, s, t))
  BY FS_AddElement DEF addEdge
<1>3. graph = [nodes |-> graph.nodes, edges |-> graph.edges]
  BY DEF IInv, WellFormed
<1>4. ASSUME NEW act, NEW source, addNode(act, source) PROVE FiniteGraph(graph')
  <2>1. Ids(graph') = Ids(graph) \cup {nid + 1}
    BY <1>4 DEF addNode, Ids
  <2>2. graph'.edges = IF source = 0 THEN graph.edges ELSE addEdge(graph.edges, source, nid + 1)
    BY <1>4 DEF addNode
  <2> QED
    BY <1>2, <2>1, <2>2, FS_AddElement
<1>5. CASE PickFromPalette
  BY <1>4, <1>5 DEF PickFromPalette
<1>6. CASE PickFromMenu
  BY <1>4, <1>6 DEF PickFromMenu
<1>7. CASE onPaneClick
  BY <1>7 DEF onPaneClick
<1>8. ASSUME NEW s, NEW t, onConnect(s, t) PROVE FiniteGraph(graph')
  <2>1. graph' = [nodes |-> graph.nodes, edges |-> addEdge(graph.edges, s, t)]
    BY <1>3, <1>8 DEF onConnect
  <2> QED
    BY <1>2, <2>1 DEF Ids
<1>9. ASSUME NEW n, finishConnection(n) PROVE FiniteGraph(graph')
  BY <1>9 DEF finishConnection
<1>10. ASSUME NEW n, deleteNode(n) PROVE FiniteGraph(graph')
  <2>1. Ids(graph') = Ids(graph) \ {n} /\ graph'.edges \in SUBSET graph.edges
    BY <1>10 DEF deleteNode, Ids
  <2> QED
    BY <2>1, FS_Subset, FS_RemoveElement
<1>11. ASSUME NEW n, NEW l, NEW o, patchNode(n, l, o) PROVE FiniteGraph(graph')
  <2>1. Ids(graph') = Ids(graph) /\ graph'.edges = graph.edges
    BY <1>11 DEF patchNode, Ids
  <2> QED
    BY <2>1
<1>12. ASSUME NEW e, onEdgesChange(e) PROVE FiniteGraph(graph')
  <2>1. graph' = [nodes |-> graph.nodes, edges |-> graph.edges \ {e}]
    BY <1>3, <1>12 DEF onEdgesChange
  <2>2. Ids(graph') = Ids(graph) /\ graph'.edges = graph.edges \ {e}
    BY <2>1 DEF Ids
  <2> QED
    BY <2>2, FS_RemoveElement
<1>13. ASSUME NEW e, NEW c, patchEdgeCondition(e, c) PROVE FiniteGraph(graph')
  <2>1. graph' = [nodes |-> graph.nodes, edges |-> (graph.edges \ {e}) \cup {[e EXCEPT !.cond = c]}]
    BY <1>3, <1>13 DEF patchEdgeCondition
  <2>2. Ids(graph') = Ids(graph) /\ graph'.edges = (graph.edges \ {e}) \cup {[e EXCEPT !.cond = c]}
    BY <2>1 DEF Ids
  <2>3. IsFiniteSet(graph.edges \ {e})
    BY FS_RemoveElement
  <2> DEFINE new == [e EXCEPT !.cond = c]
  <2>4. Ids(graph') = Ids(graph) /\ graph'.edges = (graph.edges \ {e}) \cup {new}
    BY <2>2
  <2> HIDE DEF new
  <2> QED
    BY <2>3, <2>4, FS_AddElement
<1>14. ASSUME NEW text \in Texts \cup {Generated}, MermaidApplied(text) PROVE FiniteGraph(graph')
  <2>1. IsFiniteSet(DOMAIN text.decls) /\ IsFiniteSet(text.links)
    <3>1. CASE text \in Texts
      BY <3>1, InputsAreFinite
    <3>2. CASE text = Generated
      <4> DEFINE f == [e \in graph.edges |-> EscapedEdge(e)]
      <4>1. DOMAIN text.decls = Ids(graph) /\ text.links = {EscapedEdge(e) : e \in graph.edges}
        BY <3>2, GeneratedText
      <4>2. f \in Surjection(graph.edges, text.links)
        BY <4>1 DEF Surjection
      <4> QED
        BY <4>1, <4>2, FS_Surjection
    <3> QED
      BY <3>1, <3>2
  <2>2. Ids(graph') = DOMAIN declarations(text) \cup Linked(text) /\ graph'.edges = linksRead(text)
    <3>1. graph' = [nodes |-> [n \in DOMAIN declarations(text) \cup Linked(text) |->
                                    AppliedNode(text, n)],
                    edges |-> linksRead(text)]
      BY <1>14, AppliedText DEF MermaidApplied
    <3> QED
      BY <3>1 DEF Ids
  <2>3. IsFiniteSet(DOMAIN declarations(text))
    <3>1. IsFiniteSet(DOMAIN text.decls \cup {RecordId})
      BY <2>1, FS_AddElement
    <3> QED
      BY <3>1, DeclarationsFacts, FS_Subset
  <2> QED
    BY <2>1, <2>2, <2>3, LinkedIsFinite, FS_Union
<1>15. ASSUME NEW def \in Definitions, Replaced(def) PROVE FiniteGraph(graph')
  <2>1. Ids(graph') = DOMAIN def.nodes /\ graph'.edges = def.edges
    BY <1>15 DEF Replaced, definitionToFlow, Ids
  <2> QED
    BY <2>1, InputsAreFinite
<1>16. ASSUME NEW f, setFeature(f) PROVE FiniteGraph(graph')
  BY <1>16 DEF setFeature
<1>17. CASE Remount
  <2>1. Ids(graph') = {} /\ graph'.edges = {}
    BY <1>17 DEF Remount, Empty, Ids
  <2> QED
    BY <2>1, FS_EmptySet
<1>18. CASE UNCHANGED vars
  BY <1>18 DEF vars
<1>19. CASE Edit
  <2> HIDE DEF FiniteGraph
  <2> QED
    BY <1>5, <1>6, <1>7, <1>8, <1>9, <1>10, <1>11, <1>12, <1>13, <1>14, <1>15, <1>16, <1>19
       DEF Edit, Generated
<1> QED
  BY <1>17, <1>18, <1>19 DEF Next

\* What the canvas calls ready the API accepts.
LEMMA ReadyIsAccepted ==
    ASSUME IInv, FiniteGraph(graph), graphReady(graph), ~Hanging, ~Untyped
    PROVE  ServerAccepts(flowToDefinition(graph))
<1> DEFINE d == flowToDefinition(graph)
<1>1. /\ Ids(d) = Ids(graph) /\ d.edges = graph.edges
      /\ \A n \in Ids(graph) : d.nodes[n].type = graph.nodes[n].type /\ d.nodes[n].act = graph.nodes[n].act
  BY DEF flowToDefinition, Ids
<1> HIDE DEF d
<1>2. "SELF_LOOP" \notin validatePipeline(graph) /\ "CYCLE" \notin validatePipeline(graph)
      /\ "NO_SOURCE" \notin validatePipeline(graph)
  BY DEF graphReady
<1>3. SelfLoops(graph) = {} /\ ~FindsCycle(graph) /\ OfType(graph, "source") # {}
  BY <1>2 DEF validatePipeline
<1>4. ~RunsInCircles(graph)
  BY <1>3, DfsFindsCycles
<1>5. Unsorted(d) = {}
  <2>1. SelfLoops(d) = {} /\ FiniteGraph(d)
    BY <1>1, <1>3 DEF SelfLoops, FiniteGraph
  <2>2. adjacency(d) = adjacency(graph)
    BY <1>1 DEF adjacency, SelfLoops
  <2>3. ~RunsInCircles(d)
    BY <1>1, <1>4, <2>2 DEF RunsInCircles
  <2> QED
    BY <2>1, <2>3, SortedWhenAcyclic
<1>6. Ids(d) # {}
  BY <1>1, <1>3 DEF OfType
<1>7. \A e \in d.edges : e.source \in Ids(d) /\ e.target \in Ids(d)
  BY <1>1 DEF Hanging
<1>8. ASSUME NEW n \in Ids(d)
      PROVE  /\ d.nodes[n].type \in {"source", "transform", "sink", "fork", "merge"}
             /\ d.nodes[n].act # <<"", "">>
  <2>1. d.nodes[n].act # <<"", "">>
    BY <1>1, <1>8 DEF Untyped
  <2>2. d.nodes[n].type = defaultNodeType(d.nodes[n].act)
    BY <1>1, <2>1 DEF IInv, WellFormed, FitsActivity
  <2> QED
    BY <2>1, <2>2 DEF defaultNodeType
<1> QED
  BY <1>5, <1>6, <1>7, <1>8 DEF ServerAccepts, d

-----------------------------------------------------------------------------
(* Theorems *)

\* No node drawn from what catalogForFeatures offered asks the API for a feature
\* the workspace never had: the rules of the catalog and those of
\* pipelineFeatures agree, through every edit, text and change of features.
THEOREM OfferedIsAlwaysEntitled == Spec => []OfferedIsEntitled
<1>1. IInv => OfferedIsEntitled
  BY NeedsAreBrought DEF IInv, OfferedIsEntitled
<1> QED
  BY InitIInv, NextIInv, <1>1, PTL DEF Spec

\* applyMermaid undoes definitionToMermaid on every graph the canvas reaches, also
\* after the features that offered some of its entries were turned off.
THEOREM MermaidAlwaysKeepsGraph == Spec => []MermaidKeepsGraph
<1>1. IInv => MermaidKeepsGraph
  BY GeneratedTextKeepsGraph DEF IInv
<1> QED
  BY InitIInv, NextIInv, <1>1, PTL DEF Spec

\* The two validators agree on every graph the canvas reaches, of any size: the
\* depth-first search of validatePipeline reports a cycle exactly when some nodes
\* never run out of successors, and what the canvas calls ready passes the API's
\* checks, its topological sort included.
THEOREM SaveIsAlwaysAccepted == Spec => []SaveIsAccepted
<1> DEFINE J == IInv /\ FiniteGraph(graph)
<1>1. Init => J
  <2>1. Init => FiniteGraph(graph)
    BY FS_EmptySet DEF Init, Empty, FiniteGraph, Ids
  <2> QED
    BY <2>1, InitIInv
<1>2. J /\ [Next]_vars => J'
  <2>1. FiniteGraph(graph)' <=> FiniteGraph(graph')
    BY DEF FiniteGraph, Ids
  <2> QED
    BY <2>1, NextIInv, NextFinite
<1>3. J => SaveIsAccepted
  BY CycleIsReported, ReadyIsAccepted DEF SaveIsAccepted
<1> HIDE DEF J
<1> QED
  BY <1>1, <1>2, <1>3, PTL DEF Spec
=============================================================================
