---------------------------- MODULE CanvasEditor ----------------------------
(***************************************************************************)
(* The pipeline canvas of the web application and the versions it stores:  *)
(* opening, editing, saving, activating, promoting and running a pipeline  *)
(* while the answers of earlier requests are still under way.              *)
(*                                                                         *)
(* A body is everything a definition holds besides its key: nodes, edges,  *)
(* name, trigger, engine and policy (module CanvasGraph looks inside).     *)
(* Every body without nodes is Blank.  A row is a version in the           *)
(* pipelines table, and its index is its id; a request occupies a slot     *)
(* from the click to its answer.                                           *)
(***************************************************************************)
EXTENDS Naturals, Sequences, FiniteSets

CONSTANTS
    Bodies,       \* the bodies of definitions
    Blank,        \* a canvas without nodes
    Invalid,      \* the bodies validatePipeline finds fault with
    Tables,       \* what the table may hold when the page is opened
    Slots,        \* requests under way at once
    MaxRows       \* versions the table may hold

VARIABLES
    rows,         \* the pipelines table, in the order of insertion
    addresses,    \* the rows this browser opens, 0 for a new canvas
    entry,        \* the one the address of the page names
    canvas,       \* the state of the page
    req,          \* per slot, the request under way
    catalog,      \* whether the catalog has been answered
    disturbed,    \* whether lifecycle requests overlapped, or one failed after its effect
    coincided     \* whether a load found its very definition on the canvas

vars == <<rows, addresses, entry, canvas, req, catalog, disturbed, coincided>>

None == "none"
NoPrint == [key |-> 0, body |-> None]
RowId == 1..MaxRows
Key == 0..MaxRows
Prints == [key: Key, body: Bodies]
Stages == {"draft", "testing", "production", "archived"}
Lifecycle == {"save", "activate", "promote"}

Free == [kind |-> "free", at |-> "sent", live |-> FALSE, key |-> 0, body |-> Blank, row |-> 0]

Row == [key: Key \ {0}, body: Bodies, status: {"draft", "active", "archived"},
        env: {"test", "prod"}]
Request == [kind: {"free", "load", "save", "activate", "promote", "override", "run"},
            at: {"sent", "done", "breaking"}, live: BOOLEAN,
            key: Key, body: Bodies, row: 0..MaxRows]

\* The state of a page that has just been mounted.
Mounted == [hydrated |-> 0, key |-> 0, body |-> Blank, row |-> 0, print |-> NoPrint,
            clean |-> FALSE, stage |-> "draft", wait |-> "no"]

ASSUME CanvasAssumption ==
    /\ Blank \in Invalid /\ Invalid \subseteq Bodies
    /\ IsFiniteSet(Slots)
    /\ MaxRows \in Nat /\ \A t \in Tables : t \in Seq(Row) /\ Len(t) <= MaxRows

TypeOK ==
    /\ rows \in Seq(Row) /\ Len(rows) <= MaxRows
    /\ addresses \subseteq 0..MaxRows /\ entry \in addresses
    /\ canvas \in [hydrated: 0..MaxRows, key: Key, body: Bodies, row: 0..MaxRows,
                   print: Prints \cup {NoPrint}, clean: BOOLEAN, stage: Stages,
                   wait: {"no", "load", "failed", "back"}]
    /\ req \in [Slots -> Request]
    /\ {catalog, disturbed, coincided} \subseteq BOOLEAN

-----------------------------------------------------------------------------
(* What the page derives from its state *)

deriveStageRaw(status, env) == status

\* deriveStage of a row's status and environment.
deriveStage(status, env) ==
    CASE status = "active" /\ env = "prod" -> "production"
      [] status = "active" /\ env = "test" -> "testing"
      [] status = "archived"               -> "archived"
      [] OTHER                             -> "draft"

\* definitionFingerprint: the definition that Save would send now.
Fingerprint(c) == [key |-> c.key, body |-> c.body]

HasUnsavedChanges(c) == c.row # 0 /\ c.print # Fingerprint(c)

graphReady(c) == c.body \notin Invalid

\* The effect on definitionFingerprint, which runs after every change of the
\* page: the first fingerprint after a hydration counts as saved.
Settle(before, after) ==
    IF after.clean /\ Fingerprint(after) # Fingerprint(before)
    THEN [after EXCEPT !.clean = FALSE, !.print = Fingerprint(after)]
    ELSE after

Update(after) == canvas' = Settle(canvas, after)

-----------------------------------------------------------------------------
(* Requests *)

Busy(kinds) == \E s \in Slots : req[s].kind \in kinds

\* The lowest free slot.
Vacant(pending, s) == pending[s] = Free /\ \A t \in Slots : pending[t] = Free => s <= t

Send(s, r) ==
    /\ Vacant(req, s)
    /\ req' = [req EXCEPT ![s] = r]

\* A request for the row of the page.
ForRow(kind, c) == [Free EXCEPT !.kind = kind, !.live = TRUE, !.row = c.row]

\* The table has room for the versions already asked for and one more.
Room ==
    Len(rows) + Cardinality({s \in Slots : req[s].kind \in {"save", "promote", "override"}})
        < MaxRows

\* The fetch of the row an address names.
LoadOf(e) == [Free EXCEPT !.kind = "load", !.live = TRUE, !.row = e]

\* A lifecycle request meets another, or the fetch of a row.
Changing == Busy(Lifecycle \cup {"override"})
Disturb == disturbed' = (disturbed \/ Changing \/ Busy({"load"}))

-----------------------------------------------------------------------------
(* Opening a pipeline *)

\* The cleanup of the effect cancels a load; the other answers still reach a
\* page that stays mounted.  One that is left drops every answer, but what was
\* sent still reaches the API.
Cancelled(r) == IF r.kind = "load" THEN Free ELSE r
Orphaned(r) == IF r.kind \in Lifecycle \cup {"override"} /\ r.at = "sent"
               THEN [r EXCEPT !.live = FALSE] ELSE Free

Forget(c) == [c EXCEPT !.row = 0, !.print = NoPrint, !.body = Blank, !.wait = "load"]

BeginLoadHydrated(c, e) == [Forget(c) EXCEPT !.hydrated = e]

\* The page before an answer: no row, no fingerprint and no nodes, but still
\* the key and the stage of whatever it showed.
BeginLoad(c, e) == Forget(c)

\* The hydration effect: nothing to do without a row in the address or when
\* that row is the one hydrated last; otherwise the canvas is emptied and the
\* row is fetched.
Hydrate(c, e, pending) ==
    IF e = 0 \/ c.hydrated = e
    THEN /\ canvas' = c
         /\ req' = pending
    ELSE \E s \in Slots :
            /\ Vacant(pending, s)
            /\ canvas' = Settle(c, BeginLoad(c, e))
            /\ req' = [pending EXCEPT ![s] = LoadOf(e)]

\* The page is left and opened again at a row, or at "+ New".
Open(e) ==
    /\ entry' = e
    /\ Hydrate(Mounted, e, [s \in Slots |-> Orphaned(req[s])])
    /\ disturbed' = Changing
    /\ coincided' = FALSE
    /\ UNCHANGED <<rows, addresses, catalog>>

\* A page that was loading another row, or none.
Interrupted(c) == [c EXCEPT !.wait = IF c.wait = "load" THEN "back" ELSE c.wait]

\* A jump in the history of the browser between two addresses of the canvas:
\* the page stays mounted and the effect runs again.  A jump back to the row
\* hydrated before, while another is loading, finds the canvas emptied and
\* fetches nothing: the page waits for good.
Jump(e) ==
    /\ e # entry
    /\ entry' = e
    /\ Hydrate(Interrupted(canvas), e, [s \in Slots |-> Cancelled(req[s])])
    /\ disturbed' = (disturbed \/ Changing)
    /\ UNCHANGED <<rows, addresses, catalog, coincided>>

\* The catalog is answered: byType changes, and the effect runs again.
CatalogLoaded ==
    /\ ~catalog
    /\ catalog' = TRUE
    /\ Hydrate(canvas, entry, [s \in Slots |-> Cancelled(req[s])])
    /\ disturbed' = (disturbed \/ Changing)
    /\ UNCHANGED <<rows, addresses, entry, coincided>>

-----------------------------------------------------------------------------
(* The canvas *)

\* Any edit: nodes, edges, a condition, the Mermaid text, a proposal of the AI
\* or its undo, name, trigger, engine or policy.
Edit(b) ==
    /\ b # canvas.body
    /\ Update([canvas EXCEPT !.body = b])
    /\ UNCHANGED <<rows, addresses, entry, req, catalog, disturbed, coincided>>

-----------------------------------------------------------------------------
(* The buttons *)

Save(s) ==
    /\ graphReady(canvas) /\ Room
    /\ Send(s, [Free EXCEPT !.kind = "save", !.live = TRUE,
                            !.key = canvas.key, !.body = canvas.body])
    /\ Disturb
    /\ UNCHANGED <<rows, addresses, entry, canvas, catalog, coincided>>

\* Activate is a button of the action bar, and of the stage menu of a draft.
Activate(s) ==
    /\ canvas.row # 0 /\ ~HasUnsavedChanges(canvas)
    /\ graphReady(canvas) \/ canvas.stage = "draft"
    /\ Send(s, ForRow("activate", canvas))
    /\ Disturb
    /\ UNCHANGED <<rows, addresses, entry, canvas, catalog, coincided>>

\* Promote is offered by the stage menu, in Integration, to the owner.
Promote(s) ==
    /\ canvas.stage = "testing"
    /\ canvas.row # 0 /\ ~HasUnsavedChanges(canvas)
    /\ Room
    /\ Send(s, ForRow("promote", canvas))
    /\ Disturb
    /\ UNCHANGED <<rows, addresses, entry, canvas, catalog, coincided>>

Run(s) ==
    /\ canvas.row # 0 /\ ~HasUnsavedChanges(canvas) /\ graphReady(canvas)
    /\ Send(s, ForRow("run", canvas))
    /\ UNCHANGED <<rows, addresses, entry, canvas, catalog, disturbed, coincided>>

-----------------------------------------------------------------------------
(* The API *)

Keys == {rows[i].key : i \in DOMAIN rows}
NewKey == CHOOSE k \in Key \ ({0} \cup Keys) : TRUE

\* Active versions of a key in an environment make way for another.
Archive(table, key, env) ==
    [i \in DOMAIN table |->
        IF table[i].key = key /\ table[i].env = env /\ table[i].status = "active"
        THEN [table[i] EXCEPT !.status = "archived"] ELSE table[i]]

\* POST /api/pipelines: a new draft of the key, or of a new key.
pipelineCreate(r) ==
    Append(rows, [key |-> IF r.key = 0 THEN NewKey ELSE r.key, body |-> r.body,
                  status |-> "draft", env |-> "test"])

pipelineActivate(r) ==
    LET row == rows[r.row]
    IN  [Archive(rows, row.key, row.env) EXCEPT ![r.row].status = "active"]

\* createProductionVersion: the content of an Integration version as a new,
\* active production version.
createProductionVersion(r) ==
    LET row == rows[r.row]
    IN  Append(Archive(rows, row.key, "prod"), [row EXCEPT !.status = "active", !.env = "prod"])

\* A promotion needs an Integration version (whose completed run is the other
\* gate, see Refuse); a contract broken with the live version needs the override.
Promotable(r) == rows[r.row].env = "test"
Live(key) == \E i \in DOMAIN rows : rows[i].key = key /\ rows[i].env = "prod" /\ rows[i].status = "active"

\* The API performs a request; its answer arrives later, or it is lost and
\* the error leaves only a message.
Serve(s, lost) ==
    LET r == req[s]
        answered(id) == IF lost THEN Free ELSE [r EXCEPT !.at = "done", !.row = id]
    IN  /\ r.at = "sent"
        /\ \/ /\ r.kind = "save"
              /\ rows' = pipelineCreate(r)
              /\ req' = [req EXCEPT ![s] = answered(Len(rows) + 1)]
           \/ /\ r.kind = "activate"
              /\ rows' = pipelineActivate(r)
              /\ req' = [req EXCEPT ![s] = answered(r.row)]
           \/ /\ r.kind \in {"promote", "override"} /\ Promotable(r)
              /\ rows' = createProductionVersion(r)
              /\ req' = [req EXCEPT ![s] = answered(r.row)]
        /\ disturbed' = (disturbed \/ lost)
        /\ UNCHANGED <<addresses, entry, canvas, catalog, coincided>>

\* A request is refused, or lost before it takes effect.
Refuse(s) ==
    LET r == req[s]
    IN  /\ r.at = "sent" /\ r.kind # "free"
        /\ \/ /\ req' = [req EXCEPT ![s] = Free]
              /\ canvas' = IF r.kind = "load" THEN [canvas EXCEPT !.wait = "failed"] ELSE canvas
           \/ /\ r.kind = "promote" /\ Promotable(r) /\ Live(rows[r.row].key)
              /\ req' = [req EXCEPT ![s].at = "breaking"]
              /\ UNCHANGED canvas
        /\ UNCHANGED <<rows, addresses, entry, catalog, disturbed, coincided>>

-----------------------------------------------------------------------------
(* Answers *)

SavedNow(r, c) == Fingerprint([c EXCEPT !.key = rows[r.row].key])

\* The fingerprint of the definition that was sent, under its new key.
SavedAs(r, c) == [key |-> rows[r.row].key, body |-> r.body]

ContinueKeepStage(r, c) ==
    CASE r.kind = "save" -> [c EXCEPT !.row = r.row, !.key = rows[r.row].key, !.print = SavedAs(r, c)]
      [] r.kind = "activate" -> [c EXCEPT !.stage = deriveStage("active", rows[r.row].env)]
      [] r.kind \in {"promote", "override"} -> [c EXCEPT !.stage = "production"]
      [] OTHER -> c

\* What the continuation of a request makes of the page.
Continue(r, c) ==
    CASE r.kind = "save" ->
            [c EXCEPT !.row = r.row, !.key = rows[r.row].key, !.print = SavedAs(r, c),
                      !.stage = deriveStage("inactive", "test")]
      [] r.kind = "activate" -> [c EXCEPT !.stage = deriveStage("active", rows[r.row].env)]
      [] r.kind \in {"promote", "override"} -> [c EXCEPT !.stage = "production"]
      [] OTHER -> c

\* An answer reaches the page that asked.
Answer(s) ==
    LET r == req[s]
    IN  /\ r.at = "done"
        /\ IF r.live THEN Update(Continue(r, canvas)) ELSE UNCHANGED canvas
        /\ req' = [req EXCEPT ![s] = Free]
        /\ UNCHANGED <<rows, addresses, entry, catalog, disturbed, coincided>>

\* The answer to a run shows its execution, and leaves the rest of the page.
Started(s) ==
    /\ req[s].kind = "run"
    /\ req' = [req EXCEPT ![s] = Free]
    /\ UNCHANGED <<rows, addresses, entry, canvas, catalog, disturbed, coincided>>

\* The breaking contract is confirmed and promoted with the override, or not.
Confirm(s) ==
    /\ req[s].at = "breaking"
    /\ \/ /\ req[s].live
          /\ req' = [req EXCEPT ![s].kind = "override", ![s].at = "sent"]
       \/ req' = [req EXCEPT ![s] = Free]
    /\ UNCHANGED <<rows, addresses, entry, canvas, catalog, disturbed, coincided>>

\* The row of the address arrives: hydrateFromDefinition.
Loaded(s) ==
    LET r == req[s]
        row == rows[r.row]
    IN  /\ r.kind = "load" /\ r.at = "sent"
        /\ coincided' = (coincided \/ Fingerprint(canvas) = [key |-> row.key, body |-> row.body])
        /\ Update([canvas EXCEPT !.hydrated = r.row, !.clean = TRUE, !.key = row.key,
                                 !.body = row.body, !.row = r.row, !.wait = "no",
                                 !.stage = deriveStage(row.status, row.env)])
        /\ req' = [req EXCEPT ![s] = Free]
        /\ UNCHANGED <<rows, addresses, entry, catalog, disturbed>>

-----------------------------------------------------------------------------

\* The address of an opened row, or of a new canvas.
Init ==
    /\ rows \in Tables
    /\ addresses = 0..Len(rows)
    /\ entry \in addresses
    /\ canvas = [Mounted EXCEPT !.wait = IF entry = 0 THEN "no" ELSE "load"]
    /\ \E first \in Slots :
        /\ \A t \in Slots : first <= t
        /\ req = [s \in Slots |-> IF entry # 0 /\ s = first THEN LoadOf(entry) ELSE Free]
    /\ catalog = FALSE
    /\ disturbed = FALSE
    /\ coincided = FALSE

Respond(s) ==
    \/ \E lost \in BOOLEAN : Serve(s, lost)
    \/ Refuse(s) \/ Answer(s) \/ Started(s) \/ Confirm(s) \/ Loaded(s)

Next ==
    \/ \E e \in addresses : Open(e) \/ Jump(e)
    \/ CatalogLoaded
    \/ \E b \in Bodies : Edit(b)
    \/ \E s \in Slots : Save(s) \/ Activate(s) \/ Promote(s) \/ Run(s) \/ Respond(s)

Spec == Init /\ [][Next]_vars

-----------------------------------------------------------------------------
(* Properties *)

\* Activate, Promote and Run act on a stored row, never on the canvas: when
\* the page offers them (a row, and no unsaved changes), that row holds
\* exactly the definition the canvas shows, whatever was edited, loaded,
\* applied or answered late in between.
ShownIsStored ==
    ~coincided /\ canvas.row # 0 /\ ~HasUnsavedChanges(canvas)
        => LET row == rows[canvas.row] IN [key |-> row.key, body |-> row.body] = Fingerprint(canvas)

\* As long as lifecycle requests follow one another and none fails after its
\* effect, the stage badge tells the truth about the row of the page: that
\* row's stage, or production when its content is live there.
BadgeIsTrue ==
    ~disturbed /\ canvas.row # 0 /\ ~Changing =>
        LET row == rows[canvas.row]
        IN  \/ canvas.stage = deriveStage(row.status, row.env)
            \/ canvas.stage = "production" /\
               \E i \in DOMAIN rows : /\ rows[i].key = row.key /\ rows[i].body = row.body
                                      /\ rows[i].env = "prod" /\ rows[i].status = "active"

\* A page that says it is loading has a fetch of the row of its address under
\* way, although the catalog may arrive meanwhile and cancel the first one:
\* no opened pipeline is forgotten between a cancelled effect and the next.
LoadingIsUnderWay ==
    canvas.wait = "load" => \E s \in Slots : req[s].kind = "load" /\ req[s].row = entry
=============================================================================
