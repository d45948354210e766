--------------------------- MODULE PipelineGraph ---------------------------
(***************************************************************************)
(* The algorithms the canvas applies to a pipeline graph: the connector    *)
(* catalog and what of it a workspace is offered, the features the API     *)
(* bills, the conversion between canvas and definition, and the Mermaid    *)
(* text in both directions.                                                *)
(*                                                                         *)
(* A graph is [nodes, edges]: nodes maps an id to [type, act, label, opt], *)
(* edges is a set of [source, target, cond].  An activity type is a pair,  *)
(* as <<"sink", "kafka">> for sink.kafka; opt is the value of the select   *)
(* field of a node that a feature or a conversion looks at, "" when unset. *)
(* A label is the text of an entry, named by its activity, NoLabel, the    *)
(* name of an activity or id, or one of these with a mark: "padded" when   *)
(* it has blanks or parentheses around it, "quoted" when it holds quotes,  *)
(* "plain" when a conversion has taken quotes and parentheses out of it.   *)
(* A condition is the set of what it is made of, {} when there is none:    *)
(* "text", "bars" (r.a || r.b), "slashes", "index" (r.a[0]), "key"         *)
(* (r["a"]), "newline" (one outside brackets).                             *)
(***************************************************************************)
EXTENDS Integers

-----------------------------------------------------------------------------
(* CATALOG *)

Sources == {<<p, "fetch">> : p \in
    {"zendesk", "gsheets", "gdrive", "excel", "http", "postgres", "mysql", "mongodb", "s3",
     "kafka", "sftp", "snowflake", "iceberg"}}
Transforms == {<<"transform", t>> : t \in
    {"map", "filter", "formula", "select", "rename", "dedupe", "flatten", "parse", "contract"}}
Flow == {<<"flow", "fork">>, <<"flow", "merge">>}
Sinks == {<<"sink", s>> : s \in
    {"postgres", "clickhouse", "mysql", "mongodb", "s3", "kafka", "sftp", "snowflake", "iceberg",
     "gsheets", "webhook", "records"}}

CATALOG == Sources \cup Transforms \cup Flow \cup Sinks

nodeType(act) ==
    IF act \in Sources THEN "source" ELSE IF act \in Transforms THEN "transform"
    ELSE IF act \in Sinks THEN "sink" ELSE act[2]

\* The label of an entry: four sinks carry that of their source.
label(act) == IF act[1] = "sink" /\ act[2] \in {"mysql", "mongodb", "s3", "kafka"}
              THEN <<act[2], "fetch">> ELSE act

AdvancedConnectors == {"sftp", "snowflake", "iceberg"}

requiredFeatureOfSources(act) ==
    {f \in {"realtime"} : act = <<"kafka", "fetch">>}
    \cup {f \in {"advancedConnectors"} : act[1] \in AdvancedConnectors
                                        \/ (act[1] = "sink" /\ act[2] \in AdvancedConnectors)}

\* The paid feature an entry asks for.
requiredFeature(act) ==
    {f \in {"realtime"} : act \in {<<"kafka", "fetch">>, <<"sink", "kafka">>}}
    \cup {f \in {"advancedConnectors"} : act[1] \in AdvancedConnectors
                                        \/ (act[1] = "sink" /\ act[2] \in AdvancedConnectors)}

\* The options of the select field of an entry that matters here.
options(act) ==
    CASE act \in {<<"postgres", "fetch">>, <<"mysql", "fetch">>, <<"mongodb", "fetch">>} -> {"cursor", "cdc"}
      [] act = <<"snowflake", "fetch">> -> {"cursor", "changes"}
      [] act = <<"transform", "dedupe">> -> {"run", "pipeline"}
      [] act \in {<<"sink", "postgres">>, <<"sink", "mysql">>, <<"sink", "mongodb">>} -> {"upsert", "apply-cdc"}
      [] act = <<"sink", "gsheets">> -> {"replace", "append"}
      [] act = <<"flow", "merge">> -> {"concat", "union", "innerJoin", "leftJoin", "outerJoin", "appendWithSourceTag"}
      [] OTHER -> {}

\* Whether a workspace with these features is offered an entry, and which of
\* its options.
entryOffered(act, features) == requiredFeature(act) \subseteq features
optionsOffered(act, features) ==
    {o \in options(act) : /\ "realtime" \in features \/ o \notin {"cdc", "apply-cdc"}
                          /\ "statefulProcessing" \in features \/ o # "pipeline"}

\* The features the API asks for when such a node is saved.
pipelineFeatures(act, opt) ==
    {f \in {"realtime"} : act \in {<<"kafka", "fetch">>, <<"sink", "kafka">>}
                          \/ opt \in {"cdc", "apply-cdc"}}
    \cup {f \in {"statefulProcessing"} : act = <<"transform", "dedupe">> /\ opt = "pipeline"}
    \cup {f \in {"advancedConnectors"} :
            act \in {<<c, "fetch">> : c \in AdvancedConnectors} \cup {<<"sink", c>> : c \in AdvancedConnectors}}

-----------------------------------------------------------------------------
(* Conversions *)

Ids(g) == DOMAIN g.nodes

\* flowToDefinition: the merge options of a node are lifted out of its config.
flowToDefinition(g) ==
    [nodes |-> [n \in Ids(g) |->
        [type |-> g.nodes[n].type, act |-> g.nodes[n].act, label |-> g.nodes[n].label,
         config |-> g.nodes[n].opt,
         mergeStrategy |-> IF g.nodes[n].act = <<"flow", "merge">> THEN g.nodes[n].opt ELSE ""]],
     edges |-> g.edges]

\* definitionToFlow: and put back.  Definitions come with the types of their
\* nodes (the API accepts no others), so the catalog's is never asked for.
definitionToFlow(def) ==
    [nodes |-> [n \in DOMAIN def.nodes |->
        LET d == def.nodes[n]
        IN  [type |-> d.type, act |-> d.act, label |-> d.label,
             opt |-> IF d.mergeStrategy # "" THEN d.mergeStrategy ELSE d.config]],
     edges |-> def.edges]

\* A label loses its parentheses to those of the activity, as the ones of most
\* sinks do, its quotes to the text's and repeated blanks; a node without a
\* label is named after its activity, one without an activity ends in ().
Bracketed == {<<"sink", s>> : s \in
    {"postgres", "sftp", "snowflake", "iceberg", "gsheets", "webhook", "records"}}
escapeLabel(l) ==
    LET text == <<l[1], l[2]>>
    IN  IF text \in Bracketed \/ l = <<l[1], l[2], "quoted">> THEN <<l[1], l[2], "plain">>
        ELSE IF l = <<l[1], l[2], "padded">> THEN text ELSE l
NoLabel == <<"", "">>
LabelText(node) ==
    LET text == IF node.label = NoLabel THEN <<"activity", node.act[1], node.act[2]>>
                ELSE escapeLabel(node.label)
    IN  IF node.act = <<"", "">> THEN <<text[1], text[2], "padded">> ELSE text

\* A condition loses its | to the delimiter of the text.
EscapeCondition(c) == (c \ {"bars"}) \cup {s \in {"slashes"} : "bars" \in c}
EscapedEdge(e) == [source |-> e.source, target |-> e.target, cond |-> EscapeCondition(e.cond)]

\* definitionToMermaid: declarations of label and activity, and links.
definitionToMermaid(def) ==
    [decls |-> [n \in DOMAIN def.nodes |-> [label |-> LabelText(def.nodes[n]), act |-> def.nodes[n].act]],
     links |-> {EscapedEdge(e) : e \in def.edges}]

defaultNodeTypeSource(act) == "source"

\* The type of an activity that the catalog does not offer, from its head; a
\* node without an activity is taken for a map.
defaultNodeType(act) ==
    IF act[1] = "flow" THEN IF act[2] = "merge" THEN "merge" ELSE "fork"
    ELSE IF act[1] \in {"", "transform"} THEN "transform"
    ELSE IF act[1] = "sink" THEN "sink" ELSE "source"

\* The shape of activity types and edges; a node that has the type of its entry,
\* or of an activity the catalog does not know.
IsActivity(act) == act = <<act[1], act[2]>>
IsTyped(node) ==
    IF node.act \in CATALOG THEN node.type = nodeType(node.act)
    ELSE node.act = <<"", "">> \/ node.type = defaultNodeType(node.act)
IsEdge(e) == e = [source |-> e.source, target |-> e.target, cond |-> e.cond]

\* The entry of a declaration: by its activity, else by its label, where the
\* later one of two entries (a sink) hides the earlier.
MermaidEntry(decl, offered) ==
    LET named == {a \in offered : label(a) = decl.label}
    IN  IF decl.act \in offered THEN {decl.act}
        ELSE IF named \cap Sinks # {} THEN named \cap Sinks ELSE named

\* The first pass finds declarations anywhere in the text, in a condition too:
\* r["a"] declares the node r.
RecordId == -1
declarations(text) ==
    LET keyed == {n \in {RecordId} : \E l \in text.links : "key" \in l.cond}
    IN  [n \in DOMAIN text.decls \cup keyed |->
            IF n \in keyed THEN [label |-> <<"key", "a">>, act |-> <<"", "">>] ELSE text.decls[n]]

\* The second drops all that is in brackets and looks for a link in every line.
stripped(l) == [source |-> l.source, target |-> l.target, cond |-> l.cond \ {"index", "key"}]
linksRead(text) == {stripped(l) : l \in {k \in text.links : "newline" \notin k.cond}}

\* mermaidToDefinition: declared nodes, then the ones only a link mentions.
mermaidToDefinition(text, offered) ==
    LET decls == declarations(text)
        links == linksRead(text)
        linked == {e.source : e \in links} \cup {e.target : e \in links}
        declared(n) ==
            LET decl == decls[n]
                entry == MermaidEntry(decl, offered)
                act == IF entry = {} THEN decl.act ELSE CHOOSE a \in entry : TRUE
            IN  [type |-> IF entry = {} THEN defaultNodeType(act) ELSE nodeType(act), act |-> act,
                 label |-> IF decl.label # NoLabel THEN decl.label
                           ELSE IF entry = {} THEN <<"id", n>> ELSE label(act),
                 config |-> "", mergeStrategy |-> ""]
        mentioned(n) == [type |-> "transform", act |-> <<"", "">>, label |-> <<"id", n>>,
                         config |-> "", mergeStrategy |-> ""]
    IN  [nodes |-> [n \in DOMAIN decls \cup linked |->
                        IF n \in DOMAIN decls THEN declared(n) ELSE mentioned(n)],
         edges |-> links]

\* applyMermaid: a node keeps the config of the node that had its id.
applyMermaid(g, text, offered) ==
    LET flow == definitionToFlow(mermaidToDefinition(text, offered))
    IN  [nodes |-> [n \in Ids(flow) |->
            [type |-> flow.nodes[n].type, act |-> flow.nodes[n].act, label |-> flow.nodes[n].label,
             opt |-> IF n \in Ids(g) THEN g.nodes[n].opt ELSE flow.nodes[n].opt]],
         edges |-> flow.edges]
=============================================================================
