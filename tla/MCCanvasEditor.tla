--------------------------- MODULE MCCanvasEditor ---------------------------
(* One stored pipeline and room for two versions, or two pipelines and room *)
(* for one. *)
EXTENDS CanvasEditor

MCBodies == {"blank", "a", "b"}
MCInvalid == {"blank"}
Integration == [key |-> 1, body |-> "a", status |-> "active", env |-> "test"]
Draft == [key |-> 2, body |-> "b", status |-> "draft", env |-> "test"]
MCTables == {<<Integration>>, <<Integration, Draft>>}
MCSlots == 1..2
=============================================================================
