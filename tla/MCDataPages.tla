---------------------------- MODULE MCDataPages -----------------------------
(* Every data page with two filters, two changes and two pages of rows. *)
EXTENDS DataPages

MCPages == Components
=============================================================================
