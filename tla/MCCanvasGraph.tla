--------------------------- MODULE MCCanvasGraph ---------------------------
(* Three ids, a source and a sink under one label that a feature opens. *)
EXTENDS CanvasValidation

MCPalette == {<<"flow", "merge">>, <<"kafka", "fetch">>, <<"sink", "kafka">>, <<"sink", "postgres">>}
MCOptions == {"apply-cdc", "union"}
MCLabels == {<<"flow", "merge">>, <<"kafka", "fetch", "padded">>, <<"sink", "kafka", "quoted">>, <<"", "", "padded">>, NoLabel}
MCConditions == {{}, {"text", "bars"}, {"text", "index", "bars"}, {"text", "newline"}, {"text", "key"}}
Link(s, t) == [source |-> s, target |-> t, cond |-> {}]

\* A loop of declared nodes, and a link to a node that is not declared.
MCTexts == {
    [decls |-> [n \in {1, 2} |-> [label |-> <<"flow", "merge">>, act |-> <<"flow", "merge">>]],
     links |-> {Link(1, 2), Link(2, 1)}],
    [decls |-> [n \in {1} |-> [label |-> <<"kafka", "fetch">>, act |-> <<"", "">>]],
     links |-> {Link(2, 1)}]}

\* A source into a merge.
MCDefinitions == {
    [nodes |-> [n \in {11, 12} |->
        LET act == IF n = 11 THEN <<"postgres", "fetch">> ELSE <<"flow", "merge">>
        IN  [type |-> nodeType(act), act |-> act, label |-> label(act), config |-> "",
             mergeStrategy |-> IF n = 12 THEN "union" ELSE ""]],
     edges |-> {Link(11, 12)}]}
MCFeatures == {{}, {"realtime"}}
=============================================================================
