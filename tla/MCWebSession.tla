---------------------------- MODULE MCWebSession ----------------------------
(* One tab with two calls under way beside its timer and a logout. *)
EXTENDS WebSession

MCTabs == {"tab"}
MCPages == {"list"}
=============================================================================
