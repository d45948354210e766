---------------------------- MODULE MCDynamicDag ----------------------------
(* Definitions for model-checking DynamicDag.                              *)
EXTENDS DynamicDag

CONSTANTS a, b, c, d

MCNodeID == {a, b, c, d}

E(u, v) == [source |-> u, target |-> v, condition |-> FALSE]
If(u, v) == [source |-> u, target |-> v, condition |-> TRUE]

(* A definition with the given nodes and edges: its sources, merge and     *)
(* fork nodes are listed, the others are tasks.                            *)
Pipeline(ns, es, sources, merges, forks, dedupes, withPayload) ==
  [nodes |-> ns, edges |-> es, dedupe |-> dedupes, payload |-> withPayload,
   type |-> [n \in MCNodeID |->
     CASE n \in sources -> "source" [] n \in merges -> "merge" [] n \in forks -> "fork"
       [] OTHER -> "task"]]

MCDefinitions ==
  { \* branches under conditions, joined by a merge
    Pipeline({a, b, c, d}, {If(a, b), If(a, c), E(b, d), E(c, d)}, {a}, {d}, {}, {}, FALSE),
    \* two sources into a deduplicating task
    Pipeline({a, b, c}, {E(a, c), E(b, c)}, {a, b}, {}, {}, {c}, FALSE),
    \* a level wider than a batch into a fork, started with a payload
    Pipeline({a, b, c, d}, {E(a, d), E(b, d), E(c, d)}, {}, {}, {d}, {a, c}, TRUE),
    \* a fork behind a condition and an edge that skips a level
    Pipeline({a, b, c}, {E(a, b), If(b, c), E(a, c)}, {a}, {}, {c}, {b}, FALSE),
    \* a cycle behind a root
    Pipeline({a, b, c}, {E(a, b), E(b, c), E(c, b)}, {a}, {}, {}, {}, FALSE),
    \* an edge from an unknown node
    Pipeline({a, b}, {E(a, b), E(d, b)}, {a}, {}, {}, {}, FALSE) }
=============================================================================
