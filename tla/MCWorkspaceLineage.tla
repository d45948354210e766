------------------------ MODULE MCWorkspaceLineage ------------------------
(* A file of orders cleaned under a contract, in production and as a draft, *)
(* and a report on the result.                                              *)
EXTENDS WorkspaceLineage

MCSlots == <<<<"orders", "prod">>, <<"report", "prod">>, <<"orders", "test">>>>
MCHealth == <<"critical", "healthy", "unmonitored">>

Spec0 == [kind |-> "text", schema |-> NoSchema, pairs |-> NoSchema]
Node(id, type, act, place, tier, spec) ==
    [id |-> id, type |-> type, act |-> act, place |-> place, layer |-> tier, spec |-> spec]
Read(id, place, tier) == Node(id, "source", <<"s3", "fetch">>, place, tier, Spec0)
Write(id, place, tier) == Node(id, "sink", <<"sink", "s3">>, place, tier, Spec0)
Step(id, kind, spec) == Node(id, "transform", <<"transform", kind>>, <<Nil, Nil>>, Nil, spec)

Raw == <<"lake", "raw">>
Orders == <<"lake", "orders">>
Unset == <<Nil, Nil>>

\* A contract on the fields id and, if it has it, total.
Contract(kind, fields, idType, nullable) ==
    Step("c", "contract", [kind |-> kind, pairs |-> NoSchema,
        schema |-> [f \in fields |-> [type |-> IF f = "id" THEN idType ELSE "int",
                                      nullable |-> f = "total" /\ nullable]]])
Renamed == Step("m", "map", [kind |-> "text", schema |-> NoSchema, pairs |-> [f \in {"key"} |-> "id"]])

\* The nodes of a row are joined in their order, listed from the last.
Row(nodes, domain) ==
    [nodes |-> Reverse(nodes), edges |-> [k \in 1..(Len(nodes) - 1) |-> <<nodes[k].id, nodes[k + 1].id>>],
     domain |-> domain]

\* A file, a contract, a transform that drops duplicates, and a file.
Clean(contract) ==
    Row(<<Read("src", Raw, "bronze"), contract, Step("d", "dedupe", Spec0), Write("out", Orders, "silver")>>, "sales")
Both == {"id", "total"}

\* Two branches, of which the chain takes the one that is not under contract,
\* and a sink that also feeds a topic.
Branched ==
    [nodes |-> <<Read("src", Raw, "bronze"), Contract("object", {"id"}, "string", FALSE), Step("d", "dedupe", Spec0),
                 Write("out", Orders, "silver"), Node("topic", "sink", <<"sink", "kafka">>, Unset, Nil, Spec0)>>,
     edges |-> <<<<"src", "c">>, <<"src", "d">>, <<"c", "out">>, <<"d", "out">>, <<"out", "topic">>>>,
     domain |-> "sales"]

\* A report with renamed fields; one that writes back to where the orders came
\* from; one that fills the same file without the orders; and one between
\* systems whose connectors have no bucket.
Report == Row(<<Read("in", Orders, "silver"), Contract("text", Both, "string", TRUE), Renamed,
                Write("out", <<"lake", "gold">>, "gold")>>, "finance")
Direct == Row(<<Read("src", Raw, "bronze"), Write("out", <<"lake", "gold">>, "gold")>>, "sales")
WriteBack == Row(<<Read("in", Orders, "silver"), Write("out", Raw, "bronze")>>, "finance")
Copy == Row(<<Node("in", "source", <<"postgres", "fetch">>, Unset, Nil, Spec0),
              Node("out", "sink", <<"sink", "kafka">>, Unset, Nil, Spec0)>>, "Unassigned")

MCDrafts == <<{Clean(Contract("object", Both, "string", FALSE)), Clean(Contract("object", Both, "string", TRUE)),
               Clean(Contract("object", Both, "int", FALSE)), Clean(Contract("object", {"id"}, "string", FALSE)),
               Clean(Contract("text", Both, "string", FALSE)), Branched},
              {Report, WriteBack, Copy},
              {Clean(Contract("text", Both, "string", FALSE)), Direct}>>
MCLayers == {"", "external", "silver"}
MCDomains == {"", "finance"}
MCQueries == {"", "raw"}
=============================================================================
