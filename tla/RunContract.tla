---------------------------- MODULE RunContract ----------------------------
(***************************************************************************)
(* What an execution of a pipeline promises, whatever the order its nodes  *)
(* run in: results are final and follow the edges, checkpoints become      *)
(* durable only when the whole graph is clean, and the phase reported to   *)
(* users is reported once and is the truth.                                *)
(***************************************************************************)
CONSTANTS NodeID, Definitions

VARIABLES
  def,        \* the pipeline definition of the run
  settled,    \* result of each node, or none
  committed,  \* whether cursors or dedupe keys have become durable
  reported    \* the phase users see: open until it is terminal

cvars == <<def, settled, committed, reported>>

UpstreamOf(n) == {e.source : e \in {e \in def.edges : e.target = n}}

Clean == \A n \in def.nodes : settled[n] \in {"success", "skipped"}

Init ==
  /\ def \in Definitions
  /\ settled = [n \in NodeID |-> "none"]
  /\ committed = FALSE
  /\ reported = "open"

(* A node settles once, after its upstream nodes, and not without work     *)
(* unless none of them succeeded or a condition excluded it.               *)
Settle(n, status) ==
  /\ reported = "open" /\ ~committed
  /\ n \in def.nodes /\ settled[n] = "none"
  /\ \A u \in UpstreamOf(n) : settled[u] # "none"
  /\ status # "skipped" /\ UpstreamOf(n) # {} => \E u \in UpstreamOf(n) : settled[u] = "success"
  /\ UpstreamOf(n) = {} => status # "skipped"
  /\ settled' = [settled EXCEPT ![n] = status]
  /\ UNCHANGED <<def, committed, reported>>

Commit ==
  /\ reported = "open" /\ ~committed /\ Clean
  /\ committed' = TRUE
  /\ UNCHANGED <<def, settled, reported>>

Report(verdict) ==
  /\ reported = "open"
  /\ verdict = "completed" => Clean
  /\ verdict = "failed" => \E n \in def.nodes : settled[n] = "failed"
  /\ verdict = "cancelled" => ~committed
  /\ reported' = verdict
  /\ UNCHANGED <<def, settled, committed>>

Next ==
  \/ \E n \in NodeID, status \in {"success", "failed", "skipped"} : Settle(n, status)
  \/ Commit
  \/ \E verdict \in {"completed", "failed", "cancelled"} : Report(verdict)

Spec == Init /\ [][Next]_cvars
=============================================================================
