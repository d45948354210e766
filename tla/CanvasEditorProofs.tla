------------------------- MODULE CanvasEditorProofs -------------------------
(***************************************************************************)
(* Proofs about CanvasEditor for every set of bodies, every initial table  *)
(* and every number of requests under way.  Each property has a part of    *)
(* the inductive invariant of its own; all rest on the types and on RefInv,*)
(* which says that what a request or the page names is in the table.       *)
(***************************************************************************)
EXTENDS CanvasEditor, FiniteSetTheorems, SequenceTheorems, TLAPS

CanvasState == [hydrated: 0..MaxRows, key: Key, body: Bodies, row: 0..MaxRows,
                print: Prints \cup {NoPrint}, clean: BOOLEAN, stage: Stages,
                wait: {"no", "load", "failed", "back"}]

LC == Lifecycle \cup {"override"}
Creates == {"save", "promote", "override"}
Stored(t, id) == [key |-> t[id].key, body |-> t[id].body]

\* The versions that requests under way may still add.
Asked(pending) == {s \in Slots : pending[s].kind \in Creates /\ pending[s].at # "done"}

\* The table has room for them.
RoomInv == Len(rows) + Cardinality(Asked(req)) <= MaxRows

\* The rows that page, addresses and requests name are in the table, and the
\* row of an answered save holds what was sent.
RequestOK(t, r) ==
    /\ r.kind \in {"load", "activate", "promote", "override", "run"} => r.row \in 1..Len(t)
    /\ r.kind = "save" /\ r.at = "done" => r.row \in 1..Len(t) /\ t[r.row].body = r.body
    /\ r.at = "done" => r.kind \in LC
    /\ r.at = "breaking" => r.kind = "promote"

RefInv ==
    /\ addresses \subseteq 0..Len(rows)
    /\ canvas.row \in 0..Len(rows)
    /\ \A s \in Slots : RequestOK(rows, req[s])

Core == TypeOK /\ RoomInv /\ RefInv

\* The fingerprint the page compares with is that of its row, and it waits for
\* no other.
StoredInv ==
    ~coincided => /\ ~canvas.clean
                  /\ canvas.row # 0 => canvas.print = Stored(rows, canvas.row)

\* A page that waits for its row has not hydrated it before, so the hydration
\* effect fetches it again whenever it runs again.
LoadInv ==
    canvas.wait = "load" =>
        /\ entry # 0 /\ canvas.hydrated # entry
        /\ \E s \in Slots : req[s].kind = "load" /\ req[s].row = entry

IsLive(t, key, body) ==
    \E i \in 1..Len(t) : /\ t[i].key = key /\ t[i].body = body
                         /\ t[i].env = "prod" /\ t[i].status = "active"

\* A stage is a true one for a row of the table.
StageOK(t, id, stage) ==
    \/ stage = deriveStage(t[id].status, t[id].env)
    \/ stage = "production" /\ IsLive(t, t[id].key, t[id].body)

\* What an answer on its way will find in the table.
AnswerOK(t, r) ==
    /\ r.kind = "save" => t[r.row].status = "draft" /\ t[r.row].env = "test"
    /\ r.kind = "activate" => t[r.row].status = "active"
    /\ r.kind \in {"promote", "override"} => IsLive(t, t[r.row].key, t[r.row].body)

\* As long as nothing is disturbed there is one lifecycle request or one fetch,
\* the request is for the row of the page, and the badge is true unless its
\* answer is on the way.
Alone ==
    \A s, t \in Slots :
        req[s].kind \in LC \cup {"load"} /\ req[t].kind \in LC \cup {"load"} => s = t
OfThePage ==
    \A s \in Slots : req[s].kind \in LC =>
        /\ req[s].live
        /\ req[s].kind # "save" => req[s].row = canvas.row
        /\ req[s].at = "done" => AnswerOK(rows, req[s])
Shown ==
    canvas.row # 0 /\ (\A s \in Slots : req[s].at # "done") => StageOK(rows, canvas.row, canvas.stage)

BadgeInv == ~disturbed => Alone /\ OfThePage /\ Shown

-----------------------------------------------------------------------------
(* The table *)

\* What an archived table keeps: every version with its key, its body and its
\* environment, and the status of all but the active versions of the key.
LEMMA ArchiveKeeps ==
    ASSUME NEW t \in Seq(Row), NEW k, NEW e
    PROVE  /\ Archive(t, k, e) \in Seq(Row)
           /\ Len(Archive(t, k, e)) = Len(t)
           /\ \A i \in 1..Len(t) :
                /\ Archive(t, k, e)[i] \in Row
                /\ Archive(t, k, e)[i].key = t[i].key
                /\ Archive(t, k, e)[i].body = t[i].body
                /\ Archive(t, k, e)[i].env = t[i].env
                /\ ~(t[i].key = k /\ t[i].env = e) => Archive(t, k, e)[i] = t[i]
  <1> DEFINE A == Archive(t, k, e)
  <1>0. Len(t) \in Nat /\ DOMAIN t = 1..Len(t) /\ \A i \in 1..Len(t) : t[i] \in Row
    BY LenProperties, ElementOfSeq
  <1>1. A = [i \in 1..Len(t) |->
              IF t[i].key = k /\ t[i].env = e /\ t[i].status = "active"
              THEN [t[i] EXCEPT !.status = "archived"] ELSE t[i]]
    BY <1>0 DEF Archive
  <1>2. ASSUME NEW i \in 1..Len(t)
        PROVE  /\ A[i] \in Row
               /\ A[i].key = t[i].key /\ A[i].body = t[i].body /\ A[i].env = t[i].env
               /\ ~(t[i].key = k /\ t[i].env = e) => A[i] = t[i]
    <2>1. t[i] \in Row
      BY <1>0
    <2>2. A[i] = t[i] \/ A[i] = [t[i] EXCEPT !.status = "archived"]
      BY <1>1
    <2>3. [t[i] EXCEPT !.status = "archived"] \in Row
      BY <2>1 DEF Row
    <2>4. /\ [t[i] EXCEPT !.status = "archived"].key = t[i].key
          /\ [t[i] EXCEPT !.status = "archived"].body = t[i].body
          /\ [t[i] EXCEPT !.status = "archived"].env = t[i].env
      BY <2>1 DEF Row
    <2>5. ~(t[i].key = k /\ t[i].env = e) => A[i] = t[i]
      BY <1>1
    <2> QED
      BY <2>1, <2>2, <2>3, <2>4, <2>5
  <1>3. A \in [1..Len(t) -> Row]
    BY <1>1, <1>2
  <1>4. A \in Seq(Row) /\ Len(A) = Len(t)
    BY <1>0, <1>3, SMT
  <1> QED
    BY <1>2, <1>4

\* A version is added, and the others stay.
LEMMA AppendKeeps ==
    ASSUME NEW t \in Seq(Row), NEW v \in Row
    PROVE  /\ Append(t, v) \in Seq(Row)
           /\ Len(Append(t, v)) = Len(t) + 1
           /\ Append(t, v)[Len(t) + 1] = v
           /\ \A i \in 1..Len(t) : Append(t, v)[i] = t[i]
  BY AppendProperties, LenProperties

LEMMA IntervalCard ==
    ASSUME NEW n \in Nat
    PROVE  IsFiniteSet(1..n) /\ Cardinality(1..n) = n
  <1>1. /\ IsFiniteSet(1..n)
        /\ Cardinality(1..n) = IF 1 > n THEN 0 ELSE n - 1 + 1
    BY FS_Interval
  <1> QED
    BY <1>1

\* There is a key for a new pipeline as long as there is room for its version.
LEMMA NewKeyExists ==
    ASSUME CanvasAssumption, rows \in Seq(Row), Len(rows) < MaxRows
    PROVE  NewKey \in Key \ {0}
  <1>0. MaxRows \in Nat /\ Len(rows) \in Nat /\ DOMAIN rows = 1..Len(rows)
    BY LenProperties DEF CanvasAssumption
  <1>1. IsFiniteSet(1..Len(rows)) /\ Cardinality(1..Len(rows)) = Len(rows)
    BY <1>0, IntervalCard
  <1>2. IsFiniteSet(1..MaxRows) /\ Cardinality(1..MaxRows) = MaxRows
    BY <1>0, IntervalCard
  <1>3. IsFiniteSet(Keys) /\ Cardinality(Keys) <= Len(rows)
    <2> DEFINE f == [i \in 1..Len(rows) |-> rows[i].key]
    <2>1. f \in Surjection(1..Len(rows), Keys)
      BY <1>0 DEF Surjection, Keys
    <2> QED
      BY <2>1, <1>1, FS_Surjection
  <1>4. ~(1..MaxRows \subseteq Keys)
    <2> SUFFICES ASSUME 1..MaxRows \subseteq Keys PROVE FALSE
      OBVIOUS
    <2>1. Cardinality(1..MaxRows) <= Cardinality(Keys)
      BY <1>3, FS_Subset
    <2>2. Cardinality(Keys) \in Nat
      BY <1>3, FS_CardinalityType
    <2> QED
      BY <2>1, <2>2, <1>0, <1>2, <1>3
  <1>5. \E k : k \in Key \ ({0} \cup Keys)
    BY <1>0, <1>4 DEF Key
  <1> QED
    BY <1>5 DEF NewKey

-----------------------------------------------------------------------------
(* The page *)

LEMMA FingerprintType ==
    ASSUME NEW c \in CanvasState
    PROVE  Fingerprint(c) \in Prints
  BY DEF CanvasState, Fingerprint, Prints

LEMMA StageType ==
    ASSUME NEW s, NEW e
    PROVE  deriveStage(s, e) \in Stages
  BY DEF deriveStage, Stages

\* The effect on the fingerprint changes nothing but clean and print.
LEMMA SettleFacts ==
    ASSUME NEW b, NEW c \in CanvasState
    PROVE  /\ Settle(b, c) \in CanvasState
           /\ Settle(b, c).hydrated = c.hydrated
           /\ Settle(b, c).row = c.row
           /\ Settle(b, c).stage = c.stage
           /\ Settle(b, c).wait = c.wait
           /\ ~c.clean => Settle(b, c) = c
           /\ c.clean /\ Fingerprint(c) # Fingerprint(b)
                => ~Settle(b, c).clean /\ Settle(b, c).print = Fingerprint(c)
  <1> DEFINE d == [c EXCEPT !.clean = FALSE, !.print = Fingerprint(c)]
  <1>1. d \in CanvasState
    BY FingerprintType DEF CanvasState
  <1>2. /\ d.hydrated = c.hydrated /\ d.row = c.row /\ d.stage = c.stage /\ d.wait = c.wait
        /\ ~d.clean /\ d.print = Fingerprint(c)
    BY DEF CanvasState
  <1>3. CASE c.clean /\ Fingerprint(c) # Fingerprint(b)
    <2>1. Settle(b, c) = d
      BY <1>3 DEF Settle
    <2> QED
      BY <1>1, <1>2, <1>3, <2>1
  <1>4. CASE ~(c.clean /\ Fingerprint(c) # Fingerprint(b))
    <2>1. Settle(b, c) = c
      BY <1>4 DEF Settle
    <2> QED
      BY <1>4, <2>1
  <1> QED
    BY <1>3, <1>4

LEMMA ForgetFacts ==
    ASSUME CanvasAssumption, NEW c \in CanvasState
    PROVE  /\ Forget(c) \in CanvasState
           /\ Forget(c).row = 0 /\ Forget(c).wait = "load"
           /\ Forget(c).hydrated = c.hydrated /\ Forget(c).clean = c.clean
  <1>1. Blank \in Bodies /\ 0 \in 0..MaxRows
    BY DEF CanvasAssumption
  <1> QED
    BY <1>1 DEF Forget, CanvasState

LEMMA RequestTypes ==
    ASSUME CanvasAssumption, NEW e \in 0..MaxRows
    PROVE  /\ Free \in Request
           /\ LoadOf(e) \in Request
           /\ LoadOf(e).kind = "load" /\ LoadOf(e).at = "sent" /\ LoadOf(e).row = e
           /\ Free.kind = "free" /\ Free.at = "sent"
  <1>1. Blank \in Bodies /\ 0 \in 0..MaxRows
    BY DEF CanvasAssumption
  <1>2. Free \in Request
    BY <1>1 DEF Free, Request, Key
  <1> QED
    BY <1>1, <1>2 DEF LoadOf, Free, Request

\* The hydration effect does nothing, or forgets the page and takes a free
\* slot for the fetch.
LEMMA HydrateFacts ==
    ASSUME CanvasAssumption, NEW c \in CanvasState, NEW e \in 0..MaxRows,
           NEW p \in [Slots -> Request], Hydrate(c, e, p)
    PROVE  /\ canvas' \in CanvasState
           /\ req' \in [Slots -> Request]
           /\ \/ (e = 0 \/ c.hydrated = e) /\ canvas' = c /\ req' = p
              \/ /\ e # 0 /\ c.hydrated # e
                 /\ canvas'.row = 0 /\ canvas'.wait = "load" /\ canvas'.hydrated = c.hydrated
                 /\ ~c.clean => ~canvas'.clean
                 /\ \E s \in Slots : p[s] = Free /\ req' = [p EXCEPT ![s] = LoadOf(e)]
  <1>1. CASE e = 0 \/ c.hydrated = e
    BY <1>1 DEF Hydrate
  <1>2. CASE ~(e = 0 \/ c.hydrated = e)
    <2>1. PICK s \in Slots : /\ p[s] = Free
                             /\ canvas' = Settle(c, Forget(c))
                             /\ req' = [p EXCEPT ![s] = LoadOf(e)]
      BY <1>2 DEF Hydrate, BeginLoad, Vacant
    <2>2. req' \in [Slots -> Request]
      BY <2>1, RequestTypes
    <2>3. /\ Forget(c) \in CanvasState
          /\ Forget(c).row = 0 /\ Forget(c).wait = "load"
          /\ Forget(c).hydrated = c.hydrated /\ Forget(c).clean = c.clean
      BY ForgetFacts
    <2>4. /\ canvas' \in CanvasState /\ canvas'.row = 0 /\ canvas'.wait = "load"
          /\ canvas'.hydrated = c.hydrated
          /\ ~c.clean => ~canvas'.clean
      BY <2>1, <2>3, SettleFacts
    <2> QED
      BY <1>2, <2>1, <2>2, <2>4
  <1> QED
    BY <1>1, <1>2

-----------------------------------------------------------------------------
(* The API *)

\* Versions are added, and keep their key, body and environment for good.
Grows(t, u) ==
    /\ u \in Seq(Row) /\ Len(t) <= Len(u)
    /\ \A i \in 1..Len(t) : u[i].key = t[i].key /\ u[i].body = t[i].body /\ u[i].env = t[i].env

\* A save adds a draft of what was sent.
LEMMA CreateFacts ==
    ASSUME CanvasAssumption, rows \in Seq(Row), Len(rows) < MaxRows, NEW r \in Request
    PROVE  /\ Grows(rows, pipelineCreate(r))
           /\ Len(pipelineCreate(r)) = Len(rows) + 1
           /\ pipelineCreate(r)[Len(rows) + 1].body = r.body
           /\ pipelineCreate(r)[Len(rows) + 1].status = "draft"
           /\ pipelineCreate(r)[Len(rows) + 1].env = "test"
  <1> DEFINE v == [key |-> IF r.key = 0 THEN NewKey ELSE r.key, body |-> r.body,
                   status |-> "draft", env |-> "test"]
  <1>0. Len(rows) \in Nat
    BY LenProperties
  <1>1. (IF r.key = 0 THEN NewKey ELSE r.key) \in Key \ {0} /\ r.body \in Bodies
    BY NewKeyExists DEF Request
  <1>2. v \in Row
    BY <1>1 DEF Row
  <1>3. v.body = r.body /\ v.status = "draft" /\ v.env = "test"
    OBVIOUS
  <1>4. pipelineCreate(r) = Append(rows, v)
    BY DEF pipelineCreate
  <1> HIDE DEF v
  <1> QED
    BY <1>0, <1>2, <1>3, <1>4, AppendKeeps DEF Grows

\* An activation changes statuses only, and activates the row.
LEMMA ActivateFacts ==
    ASSUME rows \in Seq(Row), NEW r \in Request, r.row \in 1..Len(rows)
    PROVE  /\ Grows(rows, pipelineActivate(r))
           /\ Len(pipelineActivate(r)) = Len(rows)
           /\ pipelineActivate(r)[r.row].status = "active"
  <1> DEFINE A == Archive(rows, rows[r.row].key, rows[r.row].env)
             v == [A[r.row] EXCEPT !.status = "active"]
             u == [A EXCEPT ![r.row] = v]
  <1>0. Len(rows) \in Nat
    BY LenProperties
  <1>1. /\ A \in Seq(Row) /\ Len(A) = Len(rows)
        /\ \A i \in 1..Len(rows) : /\ A[i] \in Row /\ A[i].key = rows[i].key
                                   /\ A[i].body = rows[i].body /\ A[i].env = rows[i].env
    BY ArchiveKeeps
  <1>2. pipelineActivate(r) = u
    BY DEF pipelineActivate
  <1>3. /\ v \in Row /\ v.key = A[r.row].key /\ v.body = A[r.row].body
        /\ v.env = A[r.row].env /\ v.status = "active"
    BY <1>1 DEF Row
  <1> HIDE DEF v, A
  <1>4. /\ u \in Seq(Row) /\ Len(u) = Len(A)
        /\ \A i \in 1..Len(A) : u[i] = IF i = r.row THEN v ELSE A[i]
    BY <1>1, <1>3, ExceptSeq
  <1> HIDE DEF u
  <1> QED
    BY <1>0, <1>1, <1>2, <1>3, <1>4 DEF Grows

\* A promotion adds the content of the row as the live version of its key.
LEMMA PromoteFacts ==
    ASSUME rows \in Seq(Row), NEW r \in Request, r.row \in 1..Len(rows)
    PROVE  /\ Grows(rows, createProductionVersion(r))
           /\ Len(createProductionVersion(r)) = Len(rows) + 1
           /\ IsLive(createProductionVersion(r), rows[r.row].key, rows[r.row].body)
  <1> DEFINE A == Archive(rows, rows[r.row].key, "prod")
             v == [rows[r.row] EXCEPT !.status = "active", !.env = "prod"]
             u == Append(A, v)
  <1>0. Len(rows) \in Nat /\ rows[r.row] \in Row
    BY LenProperties, ElementOfSeq
  <1>1. /\ A \in Seq(Row) /\ Len(A) = Len(rows)
        /\ \A i \in 1..Len(rows) : /\ A[i] \in Row /\ A[i].key = rows[i].key
                                   /\ A[i].body = rows[i].body /\ A[i].env = rows[i].env
    BY ArchiveKeeps
  <1>2. createProductionVersion(r) = u
    BY DEF createProductionVersion
  <1>3. /\ v \in Row /\ v.key = rows[r.row].key /\ v.body = rows[r.row].body
        /\ v.env = "prod" /\ v.status = "active"
    BY <1>0 DEF Row
  <1> HIDE DEF v, A
  <1>4. /\ u \in Seq(Row) /\ Len(u) = Len(rows) + 1 /\ u[Len(rows) + 1] = v
        /\ \A i \in 1..Len(rows) : u[i] = A[i]
    BY <1>1, <1>3, AppendKeeps
  <1> HIDE DEF u
  <1>5. Grows(rows, u)
    BY <1>0, <1>1, <1>4 DEF Grows
  <1>6. IsLive(u, rows[r.row].key, rows[r.row].body)
    BY <1>0, <1>3, <1>4 DEF IsLive
  <1> QED
    BY <1>2, <1>4, <1>5, <1>6

\* A request that names rows of a table names rows of a longer one.
LEMMA RequestKept ==
    ASSUME NEW t \in Seq(Row), NEW u, Grows(t, u), NEW r \in Request, RequestOK(t, r)
    PROVE  RequestOK(u, r)
  <1>1. Len(t) \in Nat /\ Len(u) \in Nat /\ Len(t) <= Len(u)
    BY LenProperties DEF Grows
  <1> QED
    BY <1>1 DEF RequestOK, Grows

LEMMA GrowsItself ==
    ASSUME NEW t \in Seq(Row)
    PROVE  Grows(t, t)
  BY LenProperties DEF Grows

-----------------------------------------------------------------------------
(* Room *)

LEMMA AskedShrinks ==
    ASSUME CanvasAssumption, NEW p, NEW q, Asked(p) \subseteq Asked(q)
    PROVE  /\ Cardinality(Asked(p)) \in Nat /\ Cardinality(Asked(q)) \in Nat
           /\ Cardinality(Asked(p)) <= Cardinality(Asked(q))
  <1>1. IsFiniteSet(Asked(q))
    BY FS_Subset DEF Asked, CanvasAssumption
  <1> QED
    BY <1>1, FS_Subset, FS_CardinalityType

\* A version that is added is no longer asked for.
LEMMA AskedServed ==
    ASSUME CanvasAssumption, NEW p, NEW q, NEW s \in Asked(q), Asked(p) \subseteq Asked(q) \ {s}
    PROVE  /\ Cardinality(Asked(p)) \in Nat /\ Cardinality(Asked(q)) \in Nat
           /\ Cardinality(Asked(p)) + 1 <= Cardinality(Asked(q))
  <1>1. IsFiniteSet(Asked(q))
    BY FS_Subset DEF Asked, CanvasAssumption
  <1>2. IsFiniteSet(Asked(q) \ {s}) /\ Cardinality(Asked(q) \ {s}) = Cardinality(Asked(q)) - 1
    BY <1>1, FS_RemoveElement
  <1>3. /\ Cardinality(Asked(p)) <= Cardinality(Asked(q) \ {s})
        /\ IsFiniteSet(Asked(p))
    BY <1>2, FS_Subset
  <1> QED
    BY <1>1, <1>2, <1>3, FS_CardinalityType

\* One more is asked for.
LEMMA AskedMore ==
    ASSUME CanvasAssumption, NEW p, NEW q, NEW s, Asked(p) \subseteq Asked(q) \cup {s}
    PROVE  /\ Cardinality(Asked(p)) \in Nat /\ Cardinality(Asked(q)) \in Nat
           /\ Cardinality(Asked(p)) <= Cardinality(Asked(q)) + 1
  <1>1. IsFiniteSet(Asked(q))
    BY FS_Subset DEF Asked, CanvasAssumption
  <1>2. /\ IsFiniteSet(Asked(q) \cup {s})
        /\ Cardinality(Asked(q) \cup {s}) \in {Cardinality(Asked(q)), Cardinality(Asked(q)) + 1}
    BY <1>1, FS_AddElement
  <1>3. /\ Cardinality(Asked(p)) <= Cardinality(Asked(q) \cup {s})
        /\ IsFiniteSet(Asked(p))
    BY <1>2, FS_Subset
  <1>4. Cardinality(Asked(p)) \in Nat /\ Cardinality(Asked(q)) \in Nat
    BY <1>1, <1>3, FS_CardinalityType
  <1> QED
    BY <1>2, <1>3, <1>4

-----------------------------------------------------------------------------
(* Types, room and references *)

LEMMA CoreFacts ==
    ASSUME CanvasAssumption, Core
    PROVE  /\ rows \in Seq(Row) /\ Len(rows) \in Nat /\ MaxRows \in Nat /\ Len(rows) <= MaxRows
           /\ addresses \subseteq 0..Len(rows) /\ entry \in addresses /\ entry \in 0..MaxRows
           /\ canvas \in CanvasState /\ canvas.row \in 0..Len(rows)
           /\ req \in [Slots -> Request] /\ \A s \in Slots : req[s] \in Request /\ RequestOK(rows, req[s])
           /\ catalog \in BOOLEAN /\ disturbed \in BOOLEAN /\ coincided \in BOOLEAN
           /\ Cardinality(Asked(req)) \in Nat /\ Len(rows) + Cardinality(Asked(req)) <= MaxRows
           /\ Grows(rows, rows)
           /\ Blank \in Bodies
  <1>1. rows \in Seq(Row) /\ Len(rows) \in Nat /\ Grows(rows, rows)
    BY LenProperties, GrowsItself DEF Core, TypeOK
  <1>2. Cardinality(Asked(req)) \in Nat
    BY AskedShrinks
  <1> QED
    BY <1>1, <1>2 DEF Core, TypeOK, RoomInv, RefInv, CanvasAssumption, CanvasState

\* A step that writes one slot.
LEMMA CoreUpdate ==
    ASSUME CanvasAssumption, Core, Grows(rows, rows'),
           NEW s \in Slots, NEW r \in Request, req' = [req EXCEPT ![s] = r],
           RequestOK(rows', r), Len(rows') + Cardinality(Asked(req')) <= MaxRows,
           canvas' \in CanvasState, canvas'.row \in 0..Len(rows'),
           UNCHANGED <<addresses, entry>>,
           catalog' \in BOOLEAN, disturbed' \in BOOLEAN, coincided' \in BOOLEAN
    PROVE  Core'
  <1>1. /\ rows \in Seq(Row) /\ Len(rows) \in Nat /\ MaxRows \in Nat
        /\ addresses \subseteq 0..Len(rows) /\ entry \in addresses
        /\ req \in [Slots -> Request] /\ \A q \in Slots : req[q] \in Request /\ RequestOK(rows, req[q])
    BY CoreFacts
  <1>2. rows' \in Seq(Row) /\ Len(rows') \in Nat /\ Len(rows) <= Len(rows')
    BY LenProperties DEF Grows
  <1>3. req' \in [Slots -> Request]
    BY <1>1
  <1>4. \A q \in Slots : RequestOK(rows', req[q])
    BY <1>1, RequestKept
  <1>5. \A q \in Slots : RequestOK(rows', req'[q])
    BY <1>1, <1>4
  <1>6. Cardinality(Asked(req')) \in Nat
    BY AskedShrinks
  <1>7. TypeOK'
    BY <1>1, <1>2, <1>3, <1>6 DEF TypeOK, CanvasState
  <1> QED
    BY <1>1, <1>2, <1>5, <1>7 DEF Core, RoomInv, RefInv

\* What serving a request does, apart from the page.
LEMMA ServeFacts ==
    ASSUME CanvasAssumption, Core, NEW s \in Slots, NEW lost \in BOOLEAN, Serve(s, lost)
    PROVE  /\ req[s].at = "sent" /\ req[s].kind \in LC
           /\ Grows(rows, rows')
           /\ \E r \in Request :
                /\ req' = [req EXCEPT ![s] = r] /\ RequestOK(rows', r)
                /\ lost => r = Free
                /\ ~lost => /\ r.kind = req[s].kind /\ r.at = "done" /\ r.live = req[s].live
                            /\ r.kind # "save" => r.row = req[s].row
                            /\ AnswerOK(rows', r)
           /\ Len(rows') + Cardinality(Asked(req')) <= MaxRows
  <1> DEFINE q == req[s]
             done(id) == [q EXCEPT !.at = "done", !.row = id]
             ans(id) == IF lost THEN Free ELSE done(id)
  <1>0. /\ rows \in Seq(Row) /\ Len(rows) \in Nat /\ MaxRows \in Nat
        /\ req \in [Slots -> Request] /\ q \in Request /\ RequestOK(rows, q)
        /\ Cardinality(Asked(req)) \in Nat /\ Len(rows) + Cardinality(Asked(req)) <= MaxRows
    BY CoreFacts
  <1>1. q.at = "sent"
    BY DEF Serve
  <1>2. Free \in Request /\ Free.kind = "free" /\ Free.at = "sent"
    BY <1>0, RequestTypes
  <1>3. ASSUME NEW id \in 0..MaxRows
        PROVE  /\ done(id) \in Request /\ done(id).kind = q.kind /\ done(id).at = "done"
               /\ done(id).live = q.live /\ done(id).row = id /\ done(id).body = q.body
    BY <1>0 DEF Request
  <1>4. RequestOK(rows', Free)
    BY <1>2 DEF RequestOK
  <1>5. ASSUME NEW r, r.at = "done" \/ r = Free, req' = [req EXCEPT ![s] = r], s \in Asked(req)
        PROVE  Cardinality(Asked(req')) \in Nat /\ Cardinality(Asked(req')) + 1 <= Cardinality(Asked(req))
    <2>1. s \notin Asked(req')
      BY <1>5, <1>0, <1>2 DEF Asked, Creates
    <2>2. Asked(req') \subseteq Asked(req) \ {s}
      BY <2>1, <1>5, <1>0 DEF Asked
    <2> QED
      BY <2>2, <1>5, AskedServed
  <1>6. q.kind \in Creates => s \in Asked(req) /\ Len(rows) + 1 <= MaxRows
    <2> SUFFICES ASSUME q.kind \in Creates PROVE s \in Asked(req) /\ Len(rows) + 1 <= MaxRows
      OBVIOUS
    <2>1. s \in Asked(req)
      BY <1>1 DEF Asked
    <2>2. IsFiniteSet(Asked(req))
      BY FS_Subset DEF Asked, CanvasAssumption
    <2>3. Cardinality(Asked(req)) # 0
      BY <2>1, <2>2, FS_EmptySet
    <2> QED
      BY <2>1, <2>3, <1>0
  <1>7. CASE /\ q.kind = "save" /\ rows' = pipelineCreate(q)
             /\ req' = [req EXCEPT ![s] = ans(Len(rows) + 1)]
    <2>1. s \in Asked(req) /\ Len(rows) < MaxRows /\ Len(rows) + 1 \in 0..MaxRows
      BY <1>0, <1>6, <1>7 DEF Creates
    <2>2. /\ Grows(rows, rows') /\ Len(rows') = Len(rows) + 1
          /\ rows'[Len(rows) + 1].body = q.body /\ rows'[Len(rows) + 1].status = "draft"
          /\ rows'[Len(rows) + 1].env = "test"
      BY <1>0, <1>7, <2>1, CreateFacts
    <2>3. /\ done(Len(rows) + 1) \in Request /\ done(Len(rows) + 1).kind = "save"
          /\ done(Len(rows) + 1).at = "done"
          /\ done(Len(rows) + 1).live = q.live /\ done(Len(rows) + 1).row = Len(rows) + 1
          /\ done(Len(rows) + 1).body = q.body
      BY <1>3, <1>7, <2>1
    <2> HIDE DEF done
    <2>4. RequestOK(rows', done(Len(rows) + 1)) /\ AnswerOK(rows', done(Len(rows) + 1))
      BY <1>0, <2>2, <2>3 DEF RequestOK, AnswerOK, LC, Lifecycle
    <2>5. Cardinality(Asked(req')) \in Nat /\ Cardinality(Asked(req')) + 1 <= Cardinality(Asked(req))
      BY <1>5, <1>7, <2>1, <2>3
    <2>6. q.kind \in LC
      BY <1>7 DEF LC, Lifecycle
    <2>7. Len(rows') + Cardinality(Asked(req')) <= MaxRows
      BY <1>0, <2>2, <2>5
    <2> HIDE DEF q
    <2>8. CASE lost
      BY <1>1, <1>2, <1>4, <1>7, <2>2, <2>6, <2>7, <2>8 DEF q
    <2>9. CASE ~lost
      BY <1>1, <1>7, <2>2, <2>3, <2>4, <2>6, <2>7, <2>9 DEF q
    <2> QED
      BY <2>8, <2>9
  <1>8. CASE /\ q.kind = "activate" /\ rows' = pipelineActivate(q)
             /\ req' = [req EXCEPT ![s] = ans(q.row)]
    <2>1. q.row \in 1..Len(rows) /\ q.row \in 0..MaxRows
      BY <1>0, <1>8 DEF RequestOK, Request
    <2>2. Grows(rows, rows') /\ Len(rows') = Len(rows) /\ rows'[q.row].status = "active"
      BY <1>0, <1>8, <2>1, ActivateFacts
    <2>3. /\ done(q.row) \in Request /\ done(q.row).kind = "activate" /\ done(q.row).at = "done"
          /\ done(q.row).live = q.live /\ done(q.row).row = q.row
      BY <1>3, <1>8, <2>1
    <2> HIDE DEF done
    <2>4. RequestOK(rows', done(q.row)) /\ AnswerOK(rows', done(q.row))
      BY <1>0, <2>1, <2>2, <2>3 DEF RequestOK, AnswerOK, LC, Lifecycle
    <2>5. Asked(req') \subseteq Asked(req)
      BY <1>0, <1>2, <1>8, <2>3 DEF Asked, Creates
    <2>6. q.kind \in LC
      BY <1>8 DEF LC, Lifecycle
    <2>7. Len(rows') + Cardinality(Asked(req')) <= MaxRows
      <3>1. Cardinality(Asked(req')) \in Nat /\ Cardinality(Asked(req')) <= Cardinality(Asked(req))
        BY <2>5, AskedShrinks
      <3> QED
        BY <1>0, <2>2, <3>1
    <2> HIDE DEF q
    <2>8. CASE lost
      BY <1>1, <1>2, <1>4, <1>8, <2>2, <2>6, <2>7, <2>8 DEF q
    <2>9. CASE ~lost
      BY <1>1, <1>8, <2>2, <2>3, <2>4, <2>6, <2>7, <2>9 DEF q
    <2> QED
      BY <2>8, <2>9
  <1>9. CASE /\ q.kind \in {"promote", "override"} /\ rows' = createProductionVersion(q)
             /\ req' = [req EXCEPT ![s] = ans(q.row)]
    <2>1. q.row \in 1..Len(rows) /\ q.row \in 0..MaxRows
      BY <1>0, <1>9 DEF RequestOK, Request
    <2>2. /\ Grows(rows, rows') /\ Len(rows') = Len(rows) + 1
          /\ IsLive(rows', rows[q.row].key, rows[q.row].body)
      BY <1>0, <1>9, <2>1, PromoteFacts
    <2>3. /\ done(q.row) \in Request /\ done(q.row).kind \in {"promote", "override"}
          /\ done(q.row).kind = q.kind /\ done(q.row).at = "done"
          /\ done(q.row).live = q.live /\ done(q.row).row = q.row
      BY <1>3, <1>9, <2>1
    <2> HIDE DEF done
    <2>a. rows'[q.row].key = rows[q.row].key /\ rows'[q.row].body = rows[q.row].body
      BY <2>1, <2>2 DEF Grows
    <2>4. RequestOK(rows', done(q.row))
      BY <1>0, <2>1, <2>2, <2>3 DEF RequestOK, LC, Lifecycle
    <2>b. AnswerOK(rows', done(q.row))
      BY <2>2, <2>3, <2>a DEF AnswerOK
    <2>5. Cardinality(Asked(req')) \in Nat /\ Cardinality(Asked(req')) + 1 <= Cardinality(Asked(req))
      BY <1>5, <1>6, <1>9, <2>3 DEF Creates
    <2>6. q.kind \in LC
      BY <1>9 DEF LC, Lifecycle
    <2>7. Len(rows') + Cardinality(Asked(req')) <= MaxRows
      BY <1>0, <2>2, <2>5
    <2> HIDE DEF q
    <2>8. CASE lost
      BY <1>1, <1>2, <1>4, <1>9, <2>2, <2>6, <2>7, <2>8 DEF q
    <2>9. CASE ~lost
      BY <1>1, <1>9, <2>2, <2>3, <2>4, <2>b, <2>6, <2>7, <2>9 DEF q
    <2> QED
      BY <2>8, <2>9
  <1> QED
    BY <1>7, <1>8, <1>9 DEF Serve

\* A page that is left, and one that stays, keep of a request at most itself.
LEMMA DroppedFacts ==
    ASSUME CanvasAssumption, NEW t, NEW r \in Request, RequestOK(t, r)
    PROVE  /\ Orphaned(r) \in Request /\ RequestOK(t, Orphaned(r))
           /\ Orphaned(r) = Free \/ (Orphaned(r).kind = r.kind /\ Orphaned(r).at = r.at /\ r.kind \in LC)
           /\ Cancelled(r) \in Request /\ RequestOK(t, Cancelled(r))
           /\ Cancelled(r) = Free \/ (Cancelled(r) = r /\ r.kind # "load")
  <1>1. Free \in Request /\ Free.kind = "free" /\ Free.at = "sent"
    BY RequestTypes DEF CanvasAssumption
  <1>2. RequestOK(t, Free)
    BY <1>1 DEF RequestOK
  <1>3. /\ [r EXCEPT !.live = FALSE] \in Request
        /\ [r EXCEPT !.live = FALSE].kind = r.kind /\ [r EXCEPT !.live = FALSE].at = r.at
        /\ [r EXCEPT !.live = FALSE].row = r.row /\ [r EXCEPT !.live = FALSE].body = r.body
    BY DEF Request
  <1>4. RequestOK(t, [r EXCEPT !.live = FALSE])
    BY <1>3 DEF RequestOK
  <1>5. Orphaned(r) = Free \/ (Orphaned(r) = [r EXCEPT !.live = FALSE] /\ r.kind \in LC)
    BY DEF Orphaned, LC
  <1>6. Cancelled(r) = Free \/ (Cancelled(r) = r /\ r.kind # "load")
    BY DEF Cancelled
  <1>7. /\ Orphaned(r) \in Request /\ RequestOK(t, Orphaned(r))
        /\ Orphaned(r) = Free \/ (Orphaned(r).kind = r.kind /\ Orphaned(r).at = r.at /\ r.kind \in LC)
    BY <1>1, <1>2, <1>3, <1>4, <1>5
  <1> QED
    BY <1>1, <1>2, <1>6, <1>7

LEMMA MountedFacts ==
    ASSUME CanvasAssumption
    PROVE  /\ Mounted \in CanvasState
           /\ Mounted.row = 0 /\ Mounted.hydrated = 0 /\ ~Mounted.clean /\ Mounted.wait = "no"
  <1>1. Blank \in Bodies /\ 0 \in 0..MaxRows
    BY DEF CanvasAssumption
  <1> QED
    BY <1>1 DEF Mounted, CanvasState, Key, Stages

LEMMA InterruptedFacts ==
    ASSUME NEW c \in CanvasState
    PROVE  /\ Interrupted(c) \in CanvasState
           /\ Interrupted(c).row = c.row /\ Interrupted(c).hydrated = c.hydrated
           /\ Interrupted(c).clean = c.clean /\ Interrupted(c).print = c.print
           /\ Interrupted(c).stage = c.stage
           /\ Interrupted(c).wait # "load"
  BY DEF Interrupted, CanvasState

\* The hydration effect, with what is left of the requests.
LEMMA CoreHydrate ==
    ASSUME CanvasAssumption, Core, NEW c \in CanvasState, c.row \in 0..Len(rows),
           NEW e \in addresses, NEW p \in [Slots -> Request],
           \A s \in Slots : RequestOK(rows, p[s]), Asked(p) \subseteq Asked(req),
           Hydrate(c, e, p), entry' = e, UNCHANGED <<rows, addresses>>,
           catalog' \in BOOLEAN, disturbed' \in BOOLEAN, coincided' \in BOOLEAN
    PROVE  Core'
  <1>1. /\ rows \in Seq(Row) /\ Len(rows) \in Nat /\ MaxRows \in Nat /\ Len(rows) <= MaxRows
        /\ addresses \subseteq 0..Len(rows) /\ e \in 0..MaxRows
        /\ Cardinality(Asked(req)) \in Nat /\ Len(rows) + Cardinality(Asked(req)) <= MaxRows
    BY CoreFacts
  <1>2. /\ canvas' \in CanvasState /\ req' \in [Slots -> Request]
        /\ \/ canvas' = c /\ req' = p
           \/ /\ e # 0 /\ canvas'.row = 0
              /\ \E s \in Slots : req' = [p EXCEPT ![s] = LoadOf(e)]
    BY <1>1, HydrateFacts
  <1>3. LoadOf(e).kind = "load" /\ LoadOf(e).at = "sent" /\ LoadOf(e).row = e
    BY <1>1, RequestTypes
  <1>4. e # 0 => RequestOK(rows, LoadOf(e))
    BY <1>1, <1>3 DEF RequestOK
  <1>5. \A s \in Slots : RequestOK(rows, req'[s])
    BY <1>2, <1>4
  <1>6. Asked(req') \subseteq Asked(req)
    BY <1>2, <1>3 DEF Asked, Creates
  <1>7. Cardinality(Asked(req')) \in Nat /\ Cardinality(Asked(req')) <= Cardinality(Asked(req))
    BY <1>6, AskedShrinks
  <1>8. canvas'.row \in 0..Len(rows)
    BY <1>1, <1>2
  <1>9. TypeOK'
    BY <1>1, <1>2 DEF TypeOK, CanvasState
  <1> QED
    BY <1>1, <1>5, <1>7, <1>8, <1>9 DEF Core, RoomInv, RefInv

\* A new request takes a free slot.
LEMMA CoreSend ==
    ASSUME CanvasAssumption, Core, NEW s \in Slots, NEW r \in Request, Send(s, r),
           RequestOK(rows, r), r.kind \in Creates => Room,
           UNCHANGED <<rows, addresses, entry, canvas, catalog, coincided>>, disturbed' \in BOOLEAN
    PROVE  Core'
  <1>1. /\ rows \in Seq(Row) /\ Len(rows) \in Nat /\ MaxRows \in Nat
        /\ req \in [Slots -> Request] /\ canvas \in CanvasState /\ canvas.row \in 0..Len(rows)
        /\ catalog \in BOOLEAN /\ coincided \in BOOLEAN /\ Grows(rows, rows)
        /\ Cardinality(Asked(req)) \in Nat /\ Len(rows) + Cardinality(Asked(req)) <= MaxRows
    BY CoreFacts
  <1>2. req' = [req EXCEPT ![s] = r]
    BY DEF Send
  <1>3. Len(rows) + Cardinality(Asked(req')) <= MaxRows
    <2>1. CASE r.kind \notin Creates
      <3>1. Asked(req') \subseteq Asked(req)
        BY <1>1, <1>2, <2>1 DEF Asked
      <3>2. /\ Cardinality(Asked(req')) \in Nat
            /\ Cardinality(Asked(req')) <= Cardinality(Asked(req))
        BY <3>1, AskedShrinks
      <3> QED
        BY <1>1, <3>2
    <2>2. CASE r.kind \in Creates
      <3> DEFINE C == {t \in Slots : req[t].kind \in {"save", "promote", "override"}}
      <3>1. IsFiniteSet(C)
        BY FS_Subset DEF CanvasAssumption
      <3>2. Asked(req) \subseteq C
        BY DEF Asked, Creates
      <3>3. Cardinality(Asked(req)) <= Cardinality(C) /\ Cardinality(C) \in Nat
        BY <3>1, <3>2, FS_Subset, FS_CardinalityType
      <3>4. Len(rows) + Cardinality(C) < MaxRows
        BY <2>2 DEF Room
      <3>5. Asked(req') \subseteq Asked(req) \cup {s}
        BY <1>1, <1>2 DEF Asked
      <3>6. /\ Cardinality(Asked(req')) \in Nat
            /\ Cardinality(Asked(req')) <= Cardinality(Asked(req)) + 1
        BY <3>5, AskedMore
      <3> HIDE DEF C
      <3> QED
        BY <1>1, <3>3, <3>4, <3>6
    <2> QED
      BY <2>1, <2>2
  <1> QED
    BY <1>1, <1>2, <1>3, CoreUpdate

\* A request ends or takes another step, and adds none.
LEMMA CoreSettle ==
    ASSUME CanvasAssumption, Core, NEW s \in Slots, NEW r \in Request, req' = [req EXCEPT ![s] = r],
           RequestOK(rows, r), r.kind \in Creates /\ r.at # "done" => s \in Asked(req),
           canvas' \in CanvasState, canvas'.row \in 0..Len(rows),
           UNCHANGED <<rows, addresses, entry, catalog, disturbed>>, coincided' \in BOOLEAN
    PROVE  Core'
  <1>1. /\ Len(rows) \in Nat /\ MaxRows \in Nat /\ req \in [Slots -> Request]
        /\ catalog \in BOOLEAN /\ disturbed \in BOOLEAN /\ Grows(rows, rows)
        /\ Cardinality(Asked(req)) \in Nat /\ Len(rows) + Cardinality(Asked(req)) <= MaxRows
    BY CoreFacts
  <1>2. Asked(req') \subseteq Asked(req)
    BY <1>1 DEF Asked
  <1>3. Cardinality(Asked(req')) \in Nat /\ Cardinality(Asked(req')) <= Cardinality(Asked(req))
    BY <1>2, AskedShrinks
  <1>4. rows' = rows /\ UNCHANGED <<addresses, entry>> /\ catalog' = catalog /\ disturbed' = disturbed
    OBVIOUS
  <1>5. /\ RequestOK(rows', r) /\ Grows(rows, rows') /\ canvas'.row \in 0..Len(rows')
        /\ Len(rows') + Cardinality(Asked(req')) <= MaxRows
    BY <1>1, <1>3, <1>4
  <1>6. catalog' \in BOOLEAN /\ disturbed' \in BOOLEAN
    BY <1>1, <1>4
  <1> QED
    BY <1>4, <1>5, <1>6, CoreUpdate

\* What an answer makes of the page.
LEMMA ContinueFacts ==
    ASSUME CanvasAssumption, rows \in Seq(Row), Len(rows) <= MaxRows,
           NEW r \in Request, RequestOK(rows, r), r.at = "done", NEW c \in CanvasState
    PROVE  /\ Continue(r, c) \in CanvasState
           /\ Continue(r, c).hydrated = c.hydrated /\ Continue(r, c).wait = c.wait
           /\ Continue(r, c).clean = c.clean
           /\ r.kind = "save" => /\ r.row \in 1..Len(rows) /\ Continue(r, c).row = r.row
                                 /\ Continue(r, c).print = Stored(rows, r.row)
                                 /\ Continue(r, c).stage = "draft"
           /\ r.kind # "save" => Continue(r, c).row = c.row /\ Continue(r, c).print = c.print
           /\ r.kind = "activate" => Continue(r, c).stage = deriveStage("active", rows[r.row].env)
           /\ r.kind \in {"promote", "override"} => Continue(r, c).stage = "production"
  <1>0. Len(rows) \in Nat /\ MaxRows \in Nat
    BY LenProperties DEF CanvasAssumption
  <1>1. r.kind \in {"save", "activate", "promote", "override"}
    BY DEF RequestOK, LC, Lifecycle
  <1>2. CASE r.kind = "save"
    <2> DEFINE row == rows[r.row]
               d == [c EXCEPT !.row = r.row, !.key = row.key, !.print = SavedAs(r, c),
                              !.stage = deriveStage("inactive", "test")]
    <2>1. r.row \in 1..Len(rows) /\ r.row \in 0..MaxRows /\ rows[r.row].body = r.body
      BY <1>0, <1>2 DEF RequestOK, Request
    <2>2. row \in Row
      BY <2>1, ElementOfSeq
    <2>3. SavedAs(r, c) = Stored(rows, r.row) /\ SavedAs(r, c) \in Prints /\ row.key \in Key
      BY <2>1, <2>2 DEF SavedAs, Stored, Prints, Row
    <2>4. deriveStage("inactive", "test") = "draft" /\ "draft" \in Stages
      BY DEF deriveStage, Stages
    <2>5. Continue(r, c) = d
      BY <1>2 DEF Continue
    <2> HIDE DEF row
    <2>6. d \in CanvasState
      BY <2>1, <2>3, <2>4 DEF CanvasState
    <2>7. /\ d.hydrated = c.hydrated /\ d.wait = c.wait /\ d.clean = c.clean
          /\ d.row = r.row /\ d.print = SavedAs(r, c) /\ d.stage = deriveStage("inactive", "test")
      BY DEF CanvasState
    <2> QED
      BY <1>2, <2>1, <2>3, <2>4, <2>5, <2>6, <2>7
  <1>3. CASE r.kind = "activate"
    <2> DEFINE d == [c EXCEPT !.stage = deriveStage("active", rows[r.row].env)]
    <2>1. Continue(r, c) = d
      BY <1>3 DEF Continue
    <2>2. d \in CanvasState
      BY StageType DEF CanvasState
    <2>3. /\ d.hydrated = c.hydrated /\ d.wait = c.wait /\ d.clean = c.clean
          /\ d.row = c.row /\ d.print = c.print /\ d.stage = deriveStage("active", rows[r.row].env)
      BY DEF CanvasState
    <2> QED
      BY <1>3, <2>1, <2>2, <2>3
  <1>4. CASE r.kind \in {"promote", "override"}
    <2> DEFINE d == [c EXCEPT !.stage = "production"]
    <2>1. Continue(r, c) = d
      BY <1>4 DEF Continue
    <2>2. d \in CanvasState
      BY DEF CanvasState, Stages
    <2>3. /\ d.hydrated = c.hydrated /\ d.wait = c.wait /\ d.clean = c.clean
          /\ d.row = c.row /\ d.print = c.print /\ d.stage = "production"
      BY DEF CanvasState
    <2> QED
      BY <1>4, <2>1, <2>2, <2>3
  <1> QED
    BY <1>1, <1>2, <1>3, <1>4

\* An answer settles one slot.
LEMMA AnswerFacts ==
    ASSUME CanvasAssumption, Core, NEW s \in Slots, Answer(s)
    PROVE  /\ req[s].at = "done" /\ req[s].kind \in LC /\ req' = [req EXCEPT ![s] = Free]
           /\ req[s].live => canvas' = Settle(canvas, Continue(req[s], canvas))
           /\ ~req[s].live => canvas' = canvas
           /\ canvas' \in CanvasState /\ canvas'.row \in 0..Len(rows)
           /\ canvas'.wait = canvas.wait /\ canvas'.hydrated = canvas.hydrated
           /\ UNCHANGED <<rows, addresses, entry, catalog, disturbed, coincided>>
  <1> DEFINE r == req[s]
  <1>1. /\ rows \in Seq(Row) /\ Len(rows) \in Nat /\ Len(rows) <= MaxRows
        /\ canvas \in CanvasState /\ canvas.row \in 0..Len(rows)
        /\ r \in Request /\ RequestOK(rows, r)
    BY CoreFacts
  <1>2. /\ r.at = "done" /\ req' = [req EXCEPT ![s] = Free]
        /\ r.live => canvas' = Settle(canvas, Continue(r, canvas))
        /\ ~r.live => canvas' = canvas
        /\ UNCHANGED <<rows, addresses, entry, catalog, disturbed, coincided>>
    BY DEF Answer, Update
  <1>3. r.kind \in LC
    BY <1>1, <1>2 DEF RequestOK
  <1> HIDE DEF r
  <1>4. /\ Continue(r, canvas) \in CanvasState /\ Continue(r, canvas).row \in 0..Len(rows)
        /\ Continue(r, canvas).wait = canvas.wait /\ Continue(r, canvas).hydrated = canvas.hydrated
    BY <1>1, <1>2, ContinueFacts
  <1>5. LET d == Settle(canvas, Continue(r, canvas))
        IN  /\ d \in CanvasState /\ d.row \in 0..Len(rows)
            /\ d.wait = canvas.wait /\ d.hydrated = canvas.hydrated
    BY <1>4, SettleFacts
  <1>6. r.live \in BOOLEAN
    BY <1>1 DEF Request
  <1>7. /\ canvas' \in CanvasState /\ canvas'.row \in 0..Len(rows)
        /\ canvas'.wait = canvas.wait /\ canvas'.hydrated = canvas.hydrated
    BY <1>1, <1>2, <1>5, <1>6
  <1> QED
    BY <1>2, <1>3, <1>7 DEF r

\* The row of the address arrives.
Hydrated(c, id) ==
    [c EXCEPT !.hydrated = id, !.clean = TRUE, !.key = rows[id].key, !.body = rows[id].body,
              !.row = id, !.wait = "no", !.stage = deriveStage(rows[id].status, rows[id].env)]

LEMMA LoadedFacts ==
    ASSUME CanvasAssumption, Core, NEW s \in Slots, Loaded(s)
    PROVE  /\ req[s].kind = "load" /\ req[s].at = "sent" /\ req' = [req EXCEPT ![s] = Free]
           /\ req[s].row \in 1..Len(rows)
           /\ canvas' \in CanvasState /\ canvas'.row = req[s].row /\ canvas'.wait = "no"
           /\ canvas'.stage = deriveStage(rows[req[s].row].status, rows[req[s].row].env)
           /\ coincided' \in BOOLEAN
           /\ ~coincided' => ~canvas'.clean /\ canvas'.print = Stored(rows, req[s].row)
           /\ UNCHANGED <<rows, addresses, entry, catalog, disturbed>>
  <1> DEFINE id == req[s].row
             d == Hydrated(canvas, id)
  <1>1. /\ rows \in Seq(Row) /\ Len(rows) \in Nat /\ Len(rows) <= MaxRows /\ MaxRows \in Nat
        /\ canvas \in CanvasState /\ coincided \in BOOLEAN
        /\ req[s] \in Request /\ RequestOK(rows, req[s])
    BY CoreFacts
  <1>2. /\ req[s].kind = "load" /\ req[s].at = "sent" /\ req' = [req EXCEPT ![s] = Free]
        /\ coincided' = (coincided \/ Fingerprint(canvas) = Stored(rows, id))
        /\ canvas' = Settle(canvas, d)
        /\ UNCHANGED <<rows, addresses, entry, catalog, disturbed>>
    BY DEF Loaded, Update, Hydrated, Stored
  <1>3. id \in 1..Len(rows) /\ id \in 0..MaxRows
    BY <1>1, <1>2 DEF RequestOK
  <1>4. rows[id] \in Row
    BY <1>1, <1>3, ElementOfSeq
  <1> HIDE DEF id
  <1>5. rows[id].key \in Key /\ rows[id].body \in Bodies
    BY <1>4 DEF Row
  <1>6. d \in CanvasState
    BY <1>1, <1>3, <1>5, StageType DEF CanvasState, Hydrated
  <1>7. /\ d.row = id /\ d.wait = "no" /\ d.clean = TRUE
        /\ d.stage = deriveStage(rows[id].status, rows[id].env)
        /\ d.key = rows[id].key /\ d.body = rows[id].body
    BY <1>1 DEF CanvasState, Hydrated
  <1>8. Fingerprint(d) = Stored(rows, id)
    BY <1>7 DEF Fingerprint, Stored
  <1> HIDE DEF d
  <1>9. /\ canvas' \in CanvasState /\ canvas'.row = id /\ canvas'.wait = "no"
        /\ canvas'.stage = deriveStage(rows[id].status, rows[id].env)
        /\ Fingerprint(d) # Fingerprint(canvas)
            => ~canvas'.clean /\ canvas'.print = Fingerprint(d)
    BY <1>2, <1>6, <1>7, SettleFacts
  <1>10. coincided' \in BOOLEAN /\ (~coincided' => Fingerprint(d) # Fingerprint(canvas))
    BY <1>1, <1>2, <1>8
  <1> QED
    BY <1>2, <1>3, <1>8, <1>9, <1>10 DEF id

\* An edit changes the body of the page, and its fingerprint may settle.
LEMMA EditFacts ==
    ASSUME CanvasAssumption, Core, NEW b \in Bodies, Edit(b)
    PROVE  /\ canvas' \in CanvasState /\ canvas'.row = canvas.row
           /\ canvas'.hydrated = canvas.hydrated /\ canvas'.wait = canvas.wait
           /\ canvas'.stage = canvas.stage
           /\ ~canvas.clean => ~canvas'.clean /\ canvas'.print = canvas.print
           /\ UNCHANGED <<rows, addresses, entry, req, catalog, disturbed, coincided>>
  <1> DEFINE d == [canvas EXCEPT !.body = b]
  <1>1. canvas \in CanvasState
    BY CoreFacts
  <1>2. /\ d \in CanvasState /\ d.row = canvas.row /\ d.hydrated = canvas.hydrated
        /\ d.wait = canvas.wait /\ d.stage = canvas.stage /\ d.clean = canvas.clean
        /\ d.print = canvas.print
    BY <1>1 DEF CanvasState
  <1>3. canvas' = Settle(canvas, d)
    BY DEF Edit, Update
  <1> HIDE DEF d
  <1>4. /\ canvas' \in CanvasState /\ canvas'.row = canvas.row
        /\ canvas'.hydrated = canvas.hydrated /\ canvas'.wait = canvas.wait
        /\ canvas'.stage = canvas.stage
        /\ ~canvas.clean => canvas' = d
    BY <1>2, <1>3, SettleFacts
  <1> QED
    BY <1>2, <1>4 DEF Edit

\* What the buttons send.
LEMMA ButtonFacts ==
    ASSUME CanvasAssumption, Core, NEW s \in Slots,
           Save(s) \/ Activate(s) \/ Promote(s) \/ Run(s)
    PROVE  /\ UNCHANGED <<rows, addresses, entry, canvas, catalog, coincided>>
           /\ \E r \in Request :
                /\ Send(s, r) /\ RequestOK(rows, r) /\ (r.kind \in Creates => Room)
                /\ r.live /\ r.at = "sent" /\ r.kind \in {"save", "activate", "promote", "run"}
                /\ r.kind # "save" => r.row = canvas.row
                /\ r.kind = "run" => disturbed' = disturbed
                /\ r.kind # "run" => disturbed' = (disturbed \/ Changing \/ Busy({"load"}))
  <1>1. /\ Len(rows) \in Nat /\ MaxRows \in Nat /\ Len(rows) <= MaxRows
        /\ canvas \in CanvasState /\ canvas.row \in 0..Len(rows) /\ Free \in Request
    BY CoreFacts, RequestTypes
  <1>2. ASSUME NEW k \in {"activate", "promote", "run"}, canvas.row # 0
        PROVE  /\ ForRow(k, canvas) \in Request /\ RequestOK(rows, ForRow(k, canvas))
               /\ ForRow(k, canvas).live /\ ForRow(k, canvas).at = "sent"
               /\ ForRow(k, canvas).kind = k /\ ForRow(k, canvas).row = canvas.row
    <2> DEFINE f == ForRow(k, canvas)
    <2>a. canvas.row \in 0..MaxRows /\ f = [Free EXCEPT !.kind = k, !.live = TRUE, !.row = canvas.row]
      BY <1>1 DEF ForRow
    <2>b. f \in Request
      BY <1>1, <2>a DEF Request
    <2>c. f.live /\ f.at = "sent" /\ f.kind = k /\ f.row = canvas.row
      BY <2>a DEF Free
    <2>1. f \in Request /\ f.live /\ f.at = "sent" /\ f.kind = k /\ f.row = canvas.row
      BY <2>b, <2>c
    <2> HIDE DEF f
    <2>2. RequestOK(rows, f)
      BY <1>1, <1>2, <2>1 DEF RequestOK
    <2> QED
      BY <2>1, <2>2 DEF f
  <1>3. CASE Save(s)
    <2> DEFINE r == [Free EXCEPT !.kind = "save", !.live = TRUE, !.key = canvas.key, !.body = canvas.body]
    <2>1. r \in Request /\ r.live /\ r.at = "sent" /\ r.kind = "save"
      BY <1>1 DEF Request, Free, CanvasState
    <2>2. Send(s, r) /\ Room /\ Disturb /\ UNCHANGED <<rows, addresses, entry, canvas, catalog, coincided>>
      BY <1>3 DEF Save
    <2> HIDE DEF r
    <2>3. RequestOK(rows, r)
      BY <2>1 DEF RequestOK
    <2> QED
      BY <2>1, <2>2, <2>3 DEF Disturb
  <1>4. CASE Activate(s)
    <2>1. /\ canvas.row # 0 /\ Send(s, ForRow("activate", canvas)) /\ Disturb
          /\ UNCHANGED <<rows, addresses, entry, canvas, catalog, coincided>>
      BY <1>4 DEF Activate
    <2> QED
      BY <1>2, <2>1 DEF Disturb, Creates
  <1>5. CASE Promote(s)
    <2>1. /\ canvas.row # 0 /\ Room /\ Send(s, ForRow("promote", canvas)) /\ Disturb
          /\ UNCHANGED <<rows, addresses, entry, canvas, catalog, coincided>>
      BY <1>5 DEF Promote
    <2> QED
      BY <1>2, <2>1 DEF Disturb
  <1>6. CASE Run(s)
    <2>1. /\ canvas.row # 0 /\ Send(s, ForRow("run", canvas)) /\ disturbed' = disturbed
          /\ UNCHANGED <<rows, addresses, entry, canvas, catalog, coincided>>
      BY <1>6 DEF Run
    <2> QED
      BY <1>2, <2>1 DEF Creates
  <1> QED
    BY <1>3, <1>4, <1>5, <1>6

\* A request that is refused, confirmed or ends without an effect.
LEMMA EndFacts ==
    ASSUME CanvasAssumption, Core, NEW s \in Slots, Refuse(s) \/ Started(s) \/ Confirm(s)
    PROVE  /\ req[s].at # "done"
           /\ \E r \in Request :
                /\ req' = [req EXCEPT ![s] = r] /\ RequestOK(rows, r) /\ r.at # "done"
                /\ \/ r = Free
                   \/ /\ r.kind \in {"promote", "override"} /\ req[s].kind = "promote"
                      /\ r.row = req[s].row /\ r.live = req[s].live
           /\ \/ canvas' = canvas /\ req[s].kind # "load"
              \/ canvas' = [canvas EXCEPT !.wait = "failed"]
           /\ UNCHANGED <<rows, addresses, entry, catalog, disturbed, coincided>>
  <1>1. req[s] \in Request /\ RequestOK(rows, req[s]) /\ req \in [Slots -> Request]
    BY CoreFacts
  <1>2. Free \in Request /\ Free.at = "sent" /\ RequestOK(rows, Free)
    <2>1. Free \in Request /\ Free.kind = "free" /\ Free.at = "sent"
      BY RequestTypes DEF CanvasAssumption
    <2> QED
      BY <2>1 DEF RequestOK
  <1>3. CASE Refuse(s)
    <2>1. req[s].at = "sent" /\ UNCHANGED <<rows, addresses, entry, catalog, disturbed, coincided>>
      BY <1>3 DEF Refuse
    <2>2. CASE /\ req' = [req EXCEPT ![s] = Free]
               /\ canvas' = IF req[s].kind = "load" THEN [canvas EXCEPT !.wait = "failed"] ELSE canvas
      BY <1>2, <2>1, <2>2
    <2>3. CASE req[s].kind = "promote" /\ req' = [req EXCEPT ![s].at = "breaking"] /\ UNCHANGED canvas
      <3> DEFINE r == [req[s] EXCEPT !.at = "breaking"]
      <3>1. r \in Request /\ r.kind = "promote" /\ r.row = req[s].row /\ r.live = req[s].live
            /\ r.at = "breaking"
        BY <1>1, <2>3 DEF Request
      <3>2. req' = [req EXCEPT ![s] = r]
        BY <1>1, <2>3
      <3> HIDE DEF r
      <3>3. RequestOK(rows, r)
        BY <1>1, <2>3, <3>1 DEF RequestOK
      <3> QED
        BY <2>1, <2>3, <3>1, <3>2, <3>3
    <2> QED
      BY <1>3, <2>2, <2>3 DEF Refuse
  <1>4. CASE Started(s)
    <2>1. /\ req[s].kind = "run" /\ req' = [req EXCEPT ![s] = Free]
          /\ UNCHANGED <<rows, addresses, entry, canvas, catalog, disturbed, coincided>>
      BY <1>4 DEF Started
    <2>2. req[s].at # "done"
      BY <1>1, <2>1 DEF RequestOK, LC, Lifecycle
    <2> QED
      BY <1>2, <2>1, <2>2
  <1>5. CASE Confirm(s)
    <2>1. /\ req[s].at = "breaking" /\ UNCHANGED <<rows, addresses, entry, canvas, catalog, disturbed, coincided>>
      BY <1>5 DEF Confirm
    <2>2. req[s].kind = "promote"
      BY <1>1, <2>1 DEF RequestOK
    <2>3. CASE req' = [req EXCEPT ![s] = Free]
      BY <1>2, <2>1, <2>2, <2>3
    <2>4. CASE req' = [req EXCEPT ![s].kind = "override", ![s].at = "sent"]
      <3> DEFINE r == [req[s] EXCEPT !.kind = "override", !.at = "sent"]
      <3>1. r \in Request /\ r.kind = "override" /\ r.row = req[s].row /\ r.live = req[s].live
            /\ r.at = "sent"
        BY <1>1 DEF Request
      <3>2. req' = [req EXCEPT ![s] = r]
        BY <1>1, <2>4
      <3> HIDE DEF r
      <3>3. RequestOK(rows, r)
        BY <1>1, <2>2, <3>1 DEF RequestOK
      <3> QED
        BY <2>1, <2>2, <3>1, <3>2, <3>3
    <2> QED
      BY <1>5, <2>3, <2>4 DEF Confirm
  <1> QED
    BY <1>3, <1>4, <1>5

\* The steps of the hydration effect: from a fresh page, an interrupted one or
\* the same one, and with what is left of the requests.
LEMMA OpenFacts ==
    ASSUME CanvasAssumption, Core, NEW e \in addresses, Open(e)
    PROVE  \E p \in [Slots -> Request] :
             /\ \A s \in Slots : RequestOK(rows, p[s])
             /\ \A s \in Slots : p[s] = Free \/ (p[s].kind = req[s].kind /\ p[s].at = req[s].at /\ req[s].kind \in LC)
             /\ Hydrate(Mounted, e, p)
             /\ entry' = e /\ disturbed' = Changing /\ coincided' = FALSE
             /\ UNCHANGED <<rows, addresses, catalog>>
  <1> DEFINE p == [s \in Slots |-> Orphaned(req[s])]
  <1>1. \A s \in Slots : req[s] \in Request /\ RequestOK(rows, req[s])
    BY CoreFacts
  <1>2. \A s \in Slots : /\ p[s] \in Request /\ RequestOK(rows, p[s])
                         /\ p[s] = Free \/ (p[s].kind = req[s].kind /\ p[s].at = req[s].at /\ req[s].kind \in LC)
    BY <1>1, DroppedFacts
  <1>3. p \in [Slots -> Request]
    BY <1>2
  <1>4. /\ Hydrate(Mounted, e, p) /\ entry' = e /\ disturbed' = Changing /\ coincided' = FALSE
        /\ UNCHANGED <<rows, addresses, catalog>>
    BY DEF Open
  <1> HIDE DEF p
  <1> QED
    BY <1>2, <1>3, <1>4

LEMMA StayFacts ==
    ASSUME CanvasAssumption, Core, (\E x \in addresses : Jump(x)) \/ CatalogLoaded
    PROVE  \E p \in [Slots -> Request], c \in {canvas, Interrupted(canvas)}, e \in addresses :
             /\ \A s \in Slots : RequestOK(rows, p[s])
             /\ \A s \in Slots : p[s] = Free \/ (p[s] = req[s] /\ req[s].kind # "load")
             /\ Hydrate(c, e, p)
             /\ entry' = e /\ (c.wait = "load" => c = canvas /\ e = entry) /\ catalog' \in BOOLEAN
             /\ disturbed' = (disturbed \/ Changing)
             /\ UNCHANGED <<rows, addresses, coincided>>
  <1> DEFINE p == [s \in Slots |-> Cancelled(req[s])]
  <1>1. /\ \A s \in Slots : req[s] \in Request /\ RequestOK(rows, req[s])
        /\ entry \in addresses /\ catalog \in BOOLEAN /\ canvas \in CanvasState
    BY CoreFacts
  <1>2. \A s \in Slots : /\ p[s] \in Request /\ RequestOK(rows, p[s])
                         /\ p[s] = Free \/ (p[s] = req[s] /\ req[s].kind # "load")
    BY <1>1, DroppedFacts
  <1>3. p \in [Slots -> Request]
    BY <1>2
  <1>4. CASE CatalogLoaded
    <2>1. /\ Hydrate(canvas, entry, p) /\ entry' = entry /\ catalog' = TRUE
          /\ disturbed' = (disturbed \/ Changing) /\ UNCHANGED <<rows, addresses, coincided>>
      BY <1>4 DEF CatalogLoaded
    <2> HIDE DEF p
    <2> QED
      BY <1>1, <1>2, <1>3, <2>1
  <1>5. ASSUME NEW x \in addresses, Jump(x)
        PROVE  /\ Hydrate(Interrupted(canvas), x, p) /\ entry' = x /\ catalog' = catalog
               /\ disturbed' = (disturbed \/ Changing) /\ UNCHANGED <<rows, addresses, coincided>>
    BY <1>5 DEF Jump
  <1>6. Interrupted(canvas).wait # "load"
    BY <1>1, InterruptedFacts
  <1>7. CASE \E x \in addresses : Jump(x)
    <2>1. PICK x \in addresses : Jump(x)
      BY <1>7
    <2>2. /\ Hydrate(Interrupted(canvas), x, p) /\ entry' = x /\ catalog' = catalog
          /\ disturbed' = (disturbed \/ Changing) /\ UNCHANGED <<rows, addresses, coincided>>
      BY <1>5, <2>1
    <2> HIDE DEF p
    <2> QED
      BY <1>1, <1>2, <1>3, <1>6, <2>2
  <1> QED
    BY <1>4, <1>7

LEMMA CoreInit ==
    ASSUME CanvasAssumption, Init
    PROVE  Core
  <1>1. /\ rows \in Seq(Row) /\ Len(rows) \in Nat /\ MaxRows \in Nat /\ Len(rows) <= MaxRows
        /\ addresses = 0..Len(rows) /\ entry \in addresses
        /\ catalog = FALSE /\ disturbed = FALSE /\ coincided = FALSE
    BY LenProperties DEF Init, CanvasAssumption
  <1>2. canvas \in CanvasState /\ canvas.row = 0
    BY MountedFacts DEF Init, CanvasState
  <1>3. PICK first \in Slots :
            req = [s \in Slots |-> IF entry # 0 /\ s = first THEN LoadOf(entry) ELSE Free]
    BY DEF Init
  <1>4. entry \in 0..MaxRows
    BY <1>1
  <1>5. /\ Free \in Request /\ LoadOf(entry) \in Request
        /\ LoadOf(entry).kind = "load" /\ LoadOf(entry).at = "sent" /\ LoadOf(entry).row = entry
        /\ Free.kind = "free" /\ Free.at = "sent"
    BY <1>4, RequestTypes
  <1>6. RequestOK(rows, Free) /\ (entry # 0 => RequestOK(rows, LoadOf(entry)))
    BY <1>1, <1>5 DEF RequestOK
  <1>7. req \in [Slots -> Request] /\ \A s \in Slots : RequestOK(rows, req[s])
    BY <1>3, <1>5, <1>6
  <1>8. Asked(req) = {}
    BY <1>3, <1>5 DEF Asked, Creates
  <1>9. Cardinality(Asked(req)) = 0
    BY <1>8, FS_EmptySet
  <1>10. TypeOK
    <2>1. addresses \subseteq 0..MaxRows
      BY <1>1
    <2>2. {catalog, disturbed, coincided} \subseteq BOOLEAN
      BY <1>1
    <2> QED
      BY <1>1, <1>2, <1>7, <2>1, <2>2 DEF TypeOK, CanvasState
  <1> QED
    BY <1>1, <1>2, <1>7, <1>9, <1>10 DEF Core, RoomInv, RefInv

LEMMA CoreStep ==
    ASSUME CanvasAssumption, Core, [Next]_vars
    PROVE  Core'
  <1>1. /\ Len(rows) \in Nat /\ canvas \in CanvasState /\ canvas.row \in 0..Len(rows)
        /\ req \in [Slots -> Request] /\ addresses \subseteq 0..Len(rows)
        /\ \A s \in Slots : req[s] \in Request /\ RequestOK(rows, req[s])
        /\ catalog \in BOOLEAN /\ disturbed \in BOOLEAN /\ coincided \in BOOLEAN
    BY CoreFacts
  <1>2. Free \in Request /\ Free.kind = "free" /\ Free.at = "sent" /\ RequestOK(rows, Free)
    <2>1. Free \in Request /\ Free.kind = "free" /\ Free.at = "sent"
      BY RequestTypes DEF CanvasAssumption
    <2> QED
      BY <2>1 DEF RequestOK
  <1>3. Changing \in BOOLEAN /\ Busy({"load"}) \in BOOLEAN
    BY DEF Changing, Busy
  <1>4. ASSUME NEW e \in addresses, Open(e) PROVE Core'
    <2>1. PICK p \in [Slots -> Request] :
             /\ \A s \in Slots : RequestOK(rows, p[s])
             /\ \A s \in Slots : p[s] = Free \/ (p[s].kind = req[s].kind /\ p[s].at = req[s].at /\ req[s].kind \in LC)
             /\ Hydrate(Mounted, e, p)
             /\ entry' = e /\ disturbed' = Changing /\ coincided' = FALSE
             /\ UNCHANGED <<rows, addresses, catalog>>
      BY <1>4, OpenFacts
    <2>2. Asked(p) \subseteq Asked(req)
      BY <1>2, <2>1 DEF Asked, Creates
    <2>3. catalog' \in BOOLEAN /\ disturbed' \in BOOLEAN /\ coincided' \in BOOLEAN
      BY <1>1, <1>3, <2>1
    <2>4. Mounted \in CanvasState /\ Mounted.row \in 0..Len(rows)
      BY <1>1, MountedFacts
    <2> QED
      BY <2>1, <2>2, <2>3, <2>4, CoreHydrate
  <1>5. CASE (\E x \in addresses : Jump(x)) \/ CatalogLoaded
    <2>1. PICK p \in [Slots -> Request], c \in {canvas, Interrupted(canvas)}, e \in addresses :
             /\ \A s \in Slots : RequestOK(rows, p[s])
             /\ \A s \in Slots : p[s] = Free \/ (p[s] = req[s] /\ req[s].kind # "load")
             /\ Hydrate(c, e, p) /\ entry' = e /\ catalog' \in BOOLEAN
             /\ disturbed' = (disturbed \/ Changing) /\ UNCHANGED <<rows, addresses, coincided>>
      BY <1>5, StayFacts
    <2>2. Asked(p) \subseteq Asked(req)
      BY <1>2, <2>1 DEF Asked, Creates
    <2>3. disturbed' \in BOOLEAN /\ coincided' \in BOOLEAN
      BY <1>1, <1>3, <2>1
    <2>4. c \in CanvasState /\ c.row \in 0..Len(rows)
      BY <1>1, InterruptedFacts
    <2> QED
      BY <2>1, <2>2, <2>3, <2>4, CoreHydrate
  <1>6. ASSUME NEW b \in Bodies, Edit(b) PROVE Core'
    <2>1. /\ canvas' \in CanvasState /\ canvas'.row = canvas.row
          /\ UNCHANGED <<rows, addresses, entry, req, catalog, disturbed, coincided>>
      BY <1>6, EditFacts
    <2>2. TypeOK'
      BY <2>1 DEF Core, TypeOK, CanvasState
    <2>3. RoomInv' /\ RefInv'
      BY <1>1, <2>1 DEF Core, RoomInv, RefInv
    <2> QED
      BY <2>2, <2>3 DEF Core
  <1>7. ASSUME NEW s \in Slots, Save(s) \/ Activate(s) \/ Promote(s) \/ Run(s) PROVE Core'
    <2>1. /\ UNCHANGED <<rows, addresses, entry, canvas, catalog, coincided>>
          /\ \E r \in Request :
                /\ Send(s, r) /\ RequestOK(rows, r) /\ (r.kind \in Creates => Room)
                /\ r.kind = "run" => disturbed' = disturbed
                /\ r.kind # "run" => disturbed' = (disturbed \/ Changing \/ Busy({"load"}))
      BY <1>7, ButtonFacts
    <2>2. disturbed' \in BOOLEAN
      BY <1>1, <1>3, <2>1
    <2> QED
      BY <2>1, <2>2, CoreSend
  <1>8. ASSUME NEW s \in Slots, NEW lost \in BOOLEAN, Serve(s, lost) PROVE Core'
    <2>1. /\ Grows(rows, rows')
          /\ \E r \in Request : req' = [req EXCEPT ![s] = r] /\ RequestOK(rows', r)
          /\ Len(rows') + Cardinality(Asked(req')) <= MaxRows
      BY <1>8, ServeFacts
    <2>2. /\ UNCHANGED <<addresses, entry>> /\ canvas' = canvas /\ catalog' = catalog
          /\ coincided' = coincided /\ disturbed' = (disturbed \/ lost)
      BY <1>8 DEF Serve
    <2>3. canvas' \in CanvasState /\ canvas'.row \in 0..Len(rows')
      <3>1. Len(rows') \in Nat /\ Len(rows) <= Len(rows')
        BY <2>1, LenProperties DEF Grows
      <3> QED
        BY <1>1, <2>2, <3>1
    <2>4. catalog' \in BOOLEAN /\ disturbed' \in BOOLEAN /\ coincided' \in BOOLEAN
      BY <1>1, <2>2
    <2>5. PICK r \in Request : req' = [req EXCEPT ![s] = r] /\ RequestOK(rows', r)
      BY <2>1
    <2> QED
      BY <2>1, <2>2, <2>3, <2>4, <2>5, CoreUpdate
  <1>9. ASSUME NEW s \in Slots, Refuse(s) \/ Started(s) \/ Confirm(s) PROVE Core'
    <2>1. PICK r \in Request :
                /\ req' = [req EXCEPT ![s] = r] /\ RequestOK(rows, r) /\ r.at # "done"
                /\ r = Free \/ (r.kind \in {"promote", "override"} /\ req[s].kind = "promote")
      BY <1>9, EndFacts
    <2>2. /\ req[s].at # "done"
          /\ canvas' = canvas \/ canvas' = [canvas EXCEPT !.wait = "failed"]
          /\ UNCHANGED <<rows, addresses, entry, catalog, disturbed, coincided>>
      BY <1>9, EndFacts
    <2>3. r.kind \in Creates /\ r.at # "done" => s \in Asked(req)
      BY <1>2, <2>1, <2>2 DEF Asked, Creates
    <2>4. /\ [canvas EXCEPT !.wait = "failed"] \in CanvasState
          /\ [canvas EXCEPT !.wait = "failed"].row = canvas.row
      BY <1>1 DEF CanvasState
    <2>5. canvas' \in CanvasState /\ canvas'.row \in 0..Len(rows)
      BY <1>1, <2>2, <2>4
    <2>6. coincided' \in BOOLEAN /\ UNCHANGED <<rows, addresses, entry, catalog, disturbed>>
      BY <1>1, <2>2
    <2> QED
      BY <2>1, <2>3, <2>5, <2>6, CoreSettle
  <1>10. ASSUME NEW s \in Slots, Answer(s) PROVE Core'
    <2>1. /\ req' = [req EXCEPT ![s] = Free] /\ canvas' \in CanvasState /\ canvas'.row \in 0..Len(rows)
          /\ UNCHANGED <<rows, addresses, entry, catalog, disturbed>> /\ coincided' = coincided
      BY <1>10, AnswerFacts
    <2>2. Free.kind \in Creates /\ Free.at # "done" => s \in Asked(req)
      BY <1>2 DEF Creates
    <2>3. coincided' \in BOOLEAN
      BY <1>1, <2>1
    <2> QED
      BY <1>2, <2>1, <2>2, <2>3, CoreSettle
  <1>11. ASSUME NEW s \in Slots, Loaded(s) PROVE Core'
    <2>1. /\ req' = [req EXCEPT ![s] = Free] /\ canvas' \in CanvasState /\ canvas'.row \in 0..Len(rows)
          /\ UNCHANGED <<rows, addresses, entry, catalog, disturbed>> /\ coincided' \in BOOLEAN
      BY <1>1, <1>11, LoadedFacts
    <2>2. Free.kind \in Creates /\ Free.at # "done" => s \in Asked(req)
      BY <1>2 DEF Creates
    <2> QED
      BY <1>2, <2>1, <2>2, CoreSettle
  <1>12. CASE UNCHANGED vars
    BY <1>12 DEF vars, Core, TypeOK, RoomInv, RefInv, RequestOK, Asked
  <1> QED
    BY <1>4, <1>5, <1>6, <1>7, <1>8, <1>9, <1>10, <1>11, <1>12 DEF Next, Respond

-----------------------------------------------------------------------------
(* What is shown is what is stored *)

LEMMA StoredStep ==
    ASSUME CanvasAssumption, Core, StoredInv, [Next]_vars
    PROVE  StoredInv'
  <1>1. /\ rows \in Seq(Row) /\ Len(rows) \in Nat /\ MaxRows \in Nat /\ Len(rows) <= MaxRows
        /\ canvas \in CanvasState /\ canvas.row \in 0..Len(rows)
        /\ addresses \subseteq 0..MaxRows
        /\ \A s \in Slots : req[s] \in Request /\ RequestOK(rows, req[s])
        /\ coincided \in BOOLEAN
    BY CoreFacts
  <1>2. ASSUME NEW e \in addresses, Open(e) PROVE StoredInv'
    <2>1. PICK p \in [Slots -> Request] : Hydrate(Mounted, e, p)
      BY <1>2, OpenFacts
    <2>2. /\ Mounted \in CanvasState /\ Mounted.row = 0 /\ ~Mounted.clean
      BY MountedFacts
    <2>3. canvas'.row = 0 /\ ~canvas'.clean
      BY <1>1, <2>1, <2>2, HydrateFacts
    <2> QED
      BY <2>3 DEF StoredInv
  <1>3. CASE (\E x \in addresses : Jump(x)) \/ CatalogLoaded
    <2>1. PICK p \in [Slots -> Request], c \in {canvas, Interrupted(canvas)}, e \in addresses :
             Hydrate(c, e, p) /\ UNCHANGED <<rows, coincided>>
      BY <1>3, StayFacts
    <2>2. c \in CanvasState /\ c.row = canvas.row /\ c.clean = canvas.clean /\ c.print = canvas.print
      BY <1>1, InterruptedFacts
    <2>3. \/ canvas' = c
          \/ canvas'.row = 0 /\ (~c.clean => ~canvas'.clean)
      BY <1>1, <2>1, <2>2, HydrateFacts
    <2> QED
      BY <2>1, <2>2, <2>3 DEF StoredInv, Stored
  <1>4. ASSUME NEW b \in Bodies, Edit(b) PROVE StoredInv'
    <2>1. /\ canvas'.row = canvas.row /\ UNCHANGED <<rows, coincided>>
          /\ ~canvas.clean => ~canvas'.clean /\ canvas'.print = canvas.print
      BY <1>4, EditFacts
    <2> QED
      BY <2>1 DEF StoredInv, Stored
  <1>5. ASSUME NEW s \in Slots, Save(s) \/ Activate(s) \/ Promote(s) \/ Run(s) PROVE StoredInv'
    <2>1. UNCHANGED <<rows, canvas, coincided>>
      BY <1>5, ButtonFacts
    <2> QED
      BY <2>1 DEF StoredInv, Stored
  <1>6. ASSUME NEW s \in Slots, NEW lost \in BOOLEAN, Serve(s, lost) PROVE StoredInv'
    <2>1. Grows(rows, rows')
      BY <1>6, ServeFacts
    <2>2. UNCHANGED <<canvas, coincided>>
      BY <1>6 DEF Serve
    <2>3. canvas.row # 0 => Stored(rows', canvas.row) = Stored(rows, canvas.row)
      BY <1>1, <2>1 DEF Grows, Stored
    <2> QED
      BY <2>2, <2>3 DEF StoredInv
  <1>7. ASSUME NEW s \in Slots, Refuse(s) \/ Started(s) \/ Confirm(s) PROVE StoredInv'
    <2>1. /\ canvas' = canvas \/ canvas' = [canvas EXCEPT !.wait = "failed"]
          /\ UNCHANGED <<rows, coincided>>
      BY <1>7, EndFacts
    <2>2. canvas'.row = canvas.row /\ canvas'.clean = canvas.clean /\ canvas'.print = canvas.print
      BY <1>1, <2>1 DEF CanvasState
    <2> QED
      BY <2>1, <2>2 DEF StoredInv, Stored
  <1>8. ASSUME NEW s \in Slots, Answer(s) PROVE StoredInv'
    <2> DEFINE r == req[s]
    <2>1. /\ r.at = "done" /\ UNCHANGED <<rows, coincided>>
          /\ r.live => canvas' = Settle(canvas, Continue(r, canvas))
          /\ ~r.live => canvas' = canvas
      BY <1>8, AnswerFacts
    <2>2. r \in Request /\ RequestOK(rows, r)
      BY <1>1
    <2> HIDE DEF r
    <2>3. /\ Continue(r, canvas) \in CanvasState /\ Continue(r, canvas).clean = canvas.clean
          /\ r.kind = "save" => /\ Continue(r, canvas).row = r.row
                                /\ Continue(r, canvas).print = Stored(rows, r.row)
          /\ r.kind # "save" => Continue(r, canvas).row = canvas.row /\ Continue(r, canvas).print = canvas.print
      BY <1>1, <2>1, <2>2, ContinueFacts
    <2>4. ~canvas.clean /\ r.live => canvas' = Continue(r, canvas)
      BY <2>1, <2>3, SettleFacts
    <2>5. rows' = rows /\ coincided' = coincided
      BY <2>1
    <2> QED
      BY <2>1, <2>3, <2>4, <2>5 DEF StoredInv
  <1>9. ASSUME NEW s \in Slots, Loaded(s) PROVE StoredInv'
    <2>1. /\ canvas'.row = req[s].row /\ rows' = rows
          /\ ~coincided' => ~canvas'.clean /\ canvas'.print = Stored(rows, req[s].row)
      BY <1>9, LoadedFacts
    <2> QED
      BY <2>1 DEF StoredInv
  <1>10. CASE UNCHANGED vars
    BY <1>10 DEF vars, StoredInv, Stored
  <1> QED
    BY <1>2, <1>3, <1>4, <1>5, <1>6, <1>7, <1>8, <1>9, <1>10 DEF Next, Respond

-----------------------------------------------------------------------------
(* A loading page has its fetch under way *)

LEMMA LoadStep ==
    ASSUME CanvasAssumption, Core, LoadInv, [Next]_vars
    PROVE  LoadInv'
  <1>1. /\ MaxRows \in Nat /\ canvas \in CanvasState /\ entry \in addresses
        /\ req \in [Slots -> Request] /\ Len(rows) \in Nat /\ Len(rows) <= MaxRows
        /\ addresses \subseteq 0..MaxRows
        /\ \A s \in Slots : req[s] \in Request /\ RequestOK(rows, req[s])
    BY CoreFacts
  <1>2. ASSUME NEW c \in CanvasState, NEW e \in addresses, NEW p \in [Slots -> Request],
               Hydrate(c, e, p), entry' = e,
               c.wait = "load" => e # 0 /\ c.hydrated # e
        PROVE  LoadInv'
    <2>1. \/ (e = 0 \/ c.hydrated = e) /\ canvas' = c
          \/ /\ e # 0 /\ c.hydrated # e /\ canvas'.hydrated = c.hydrated
             /\ \E s \in Slots : req' = [p EXCEPT ![s] = LoadOf(e)]
      BY <1>1, <1>2, HydrateFacts
    <2>2. LoadOf(e).kind = "load" /\ LoadOf(e).row = e
      BY <1>1, RequestTypes
    <2>3. CASE (e = 0 \/ c.hydrated = e) /\ canvas' = c
      BY <1>2, <2>3 DEF LoadInv
    <2>4. CASE /\ e # 0 /\ c.hydrated # e /\ canvas'.hydrated = c.hydrated
               /\ \E s \in Slots : req' = [p EXCEPT ![s] = LoadOf(e)]
      <3>1. PICK s \in Slots : req' = [p EXCEPT ![s] = LoadOf(e)]
        BY <2>4
      <3>2. req'[s] = LoadOf(e)
        BY <3>1
      <3> QED
        BY <1>2, <2>2, <2>4, <3>2 DEF LoadInv
    <2> QED
      BY <2>1, <2>3, <2>4
  <1>3. ASSUME NEW e \in addresses, Open(e) PROVE LoadInv'
    <2>1. PICK p \in [Slots -> Request] : Hydrate(Mounted, e, p) /\ entry' = e
      BY <1>3, OpenFacts
    <2>2. Mounted \in CanvasState /\ Mounted.wait = "no"
      BY MountedFacts
    <2> QED
      BY <1>2, <2>1, <2>2
  <1>4. CASE (\E x \in addresses : Jump(x)) \/ CatalogLoaded
    <2>1. PICK p \in [Slots -> Request], c \in {canvas, Interrupted(canvas)}, e \in addresses :
             /\ Hydrate(c, e, p) /\ entry' = e
             /\ c.wait = "load" => c = canvas /\ e = entry
      BY <1>4, StayFacts
    <2>2. c \in CanvasState
      BY <1>1, InterruptedFacts
    <2>3. c.wait = "load" => e # 0 /\ c.hydrated # e
      BY <2>1 DEF LoadInv
    <2> QED
      BY <1>2, <2>1, <2>2, <2>3
  \* Any other step leaves a load in its slot, or the page stops waiting.
  <1>5. ASSUME NEW s \in Slots, NEW r, req' = [req EXCEPT ![s] = r], req[s].kind # "load",
               entry' = entry, canvas'.wait = canvas.wait, canvas'.hydrated = canvas.hydrated
        PROVE  LoadInv'
    BY <1>1, <1>5 DEF LoadInv
  <1>6. ASSUME NEW b \in Bodies, Edit(b) PROVE LoadInv'
    <2>1. canvas'.wait = canvas.wait /\ canvas'.hydrated = canvas.hydrated /\ UNCHANGED <<entry, req>>
      BY <1>6, EditFacts
    <2> QED
      BY <2>1 DEF LoadInv
  <1>7. ASSUME NEW s \in Slots, Save(s) \/ Activate(s) \/ Promote(s) \/ Run(s) PROVE LoadInv'
    <2>1. UNCHANGED <<entry, canvas>> /\ \E r \in Request : Send(s, r)
      BY <1>7, ButtonFacts
    <2>2. req[s] = Free /\ Free.kind = "free"
      BY <2>1 DEF Send, Vacant, Free
    <2>3. PICK r \in Request : req' = [req EXCEPT ![s] = r]
      BY <2>1 DEF Send
    <2> QED
      BY <1>5, <2>1, <2>2, <2>3
  <1>8. ASSUME NEW s \in Slots, NEW lost \in BOOLEAN, Serve(s, lost) PROVE LoadInv'
    <2>1. PICK r \in Request : req' = [req EXCEPT ![s] = r]
      BY <1>8, ServeFacts
    <2>2. req[s].kind # "load" /\ UNCHANGED <<entry, canvas>>
      <3>1. req[s].kind \in LC
        BY <1>8, ServeFacts
      <3>2. UNCHANGED <<entry, canvas>>
        BY <1>8 DEF Serve
      <3> QED
        BY <3>1, <3>2 DEF LC, Lifecycle
    <2> QED
      BY <1>5, <2>1, <2>2
  <1>9. ASSUME NEW s \in Slots, Refuse(s) \/ Started(s) \/ Confirm(s) PROVE LoadInv'
    <2>1. /\ \E r \in Request : req' = [req EXCEPT ![s] = r]
          /\ \/ canvas' = canvas /\ req[s].kind # "load"
             \/ canvas' = [canvas EXCEPT !.wait = "failed"]
          /\ entry' = entry
      BY <1>9, EndFacts
    <2>2. CASE canvas' = canvas /\ req[s].kind # "load"
      BY <1>5, <2>1, <2>2
    <2>3. CASE canvas' = [canvas EXCEPT !.wait = "failed"]
      <3>1. canvas'.wait = "failed"
        BY <1>1, <2>3 DEF CanvasState
      <3> QED
        BY <3>1 DEF LoadInv
    <2> QED
      BY <2>1, <2>2, <2>3
  <1>10. ASSUME NEW s \in Slots, Answer(s) PROVE LoadInv'
    <2>1. /\ req[s].kind \in LC /\ req' = [req EXCEPT ![s] = Free] /\ entry' = entry
          /\ canvas'.wait = canvas.wait /\ canvas'.hydrated = canvas.hydrated
      BY <1>10, AnswerFacts
    <2>2. req[s].kind # "load"
      BY <2>1 DEF LC, Lifecycle
    <2> QED
      BY <1>5, <2>1, <2>2
  <1>11. ASSUME NEW s \in Slots, Loaded(s) PROVE LoadInv'
    <2>1. canvas'.wait = "no"
      BY <1>11, LoadedFacts
    <2> QED
      BY <2>1 DEF LoadInv
  <1>12. CASE UNCHANGED vars
    BY <1>12 DEF vars, LoadInv
  <1> QED
    BY <1>3, <1>4, <1>6, <1>7, <1>8, <1>9, <1>10, <1>11, <1>12 DEF Next, Respond

-----------------------------------------------------------------------------
(* The badge *)

\* A stage that is true of a row stays so on a page that keeps both, as long
\* as no answer is on the way before or after.
LEMMA BadgeKept ==
    ASSUME BadgeInv, UNCHANGED <<rows>>, ~disturbed' => ~disturbed,
           canvas'.row = canvas.row, canvas'.stage = canvas.stage,
           ~disturbed /\ (\A s \in Slots : req'[s].at # "done") => \A s \in Slots : req[s].at # "done"
    PROVE  ~disturbed' => Shown'
  BY DEF BadgeInv, Shown, StageOK, IsLive

\* Nothing is changing: no lifecycle request is under way, nor its answer.
LEMMA QuietFacts ==
    ASSUME CanvasAssumption, Core, ~Changing
    PROVE  \A s \in Slots : req[s].kind \notin LC /\ req[s].at # "done"
  <1>1. \A s \in Slots : RequestOK(rows, req[s])
    BY CoreFacts
  <1>2. \A s \in Slots : req[s].kind \notin LC
    BY DEF Changing, Busy, LC
  <1> QED
    BY <1>1, <1>2 DEF RequestOK

\* The hydration effect on a page without lifecycle requests: what is left is
\* at most the new fetch.
LEMMA BadgeHydrate ==
    ASSUME CanvasAssumption, Core, BadgeInv, NEW c \in CanvasState, NEW e \in 0..MaxRows,
           NEW p \in [Slots -> Request], Hydrate(c, e, p), rows' = rows,
           ~disturbed' => \A s \in Slots : p[s].kind \notin LC \cup {"load"} /\ p[s].at # "done",
           c.row = 0 \/ (c.row = canvas.row /\ c.stage = canvas.stage /\ (~disturbed' => ~disturbed /\ ~Changing))
    PROVE  BadgeInv'
  <1> SUFFICES ASSUME ~disturbed' PROVE (Alone /\ OfThePage /\ Shown)'
    BY DEF BadgeInv
  <1>1. \/ canvas' = c /\ req' = p
        \/ /\ canvas'.row = 0
           /\ \E s \in Slots : req' = [p EXCEPT ![s] = LoadOf(e)]
    BY HydrateFacts
  <1>2. LoadOf(e).kind = "load"
    BY RequestTypes
  <1>3. "load" \notin LC
    BY DEF LC, Lifecycle
  <1>4. \A s \in Slots : p[s].kind \notin LC \cup {"load"}
    OBVIOUS
  <1>5. Alone'
    BY <1>1, <1>4 DEF Alone
  <1>6. OfThePage'
    <2>1. \A s \in Slots : req'[s].kind \notin LC
      BY <1>1, <1>2, <1>3, <1>4
    <2> QED
      BY <2>1 DEF OfThePage
  <1>7. Shown'
    <2>1. CASE canvas'.row = 0
      BY <2>1 DEF Shown
    <2>2. CASE canvas' = c /\ c.row # 0
      <3>1. /\ c.row = canvas.row /\ c.stage = canvas.stage /\ ~disturbed /\ ~Changing
        BY <2>2
      <3>2. \A s \in Slots : req[s].at # "done"
        BY <3>1, QuietFacts
      <3>3. StageOK(rows, canvas.row, canvas.stage)
        BY <2>2, <3>1, <3>2 DEF BadgeInv, Shown
      <3> QED
        BY <2>2, <3>1, <3>3 DEF Shown
    <2> QED
      BY <1>1, <2>1, <2>2
  <1> QED
    BY <1>5, <1>6, <1>7

\* One slot changes, to a request that is neither an answer nor another one.
LEMMA AloneUpdate ==
    ASSUME BadgeInv, req \in [Slots -> Request], NEW s \in Slots, NEW r, req' = [req EXCEPT ![s] = r], ~disturbed,
           r.kind \in LC \cup {"load"} => req[s].kind \in LC \cup {"load"}
    PROVE  Alone'
  <1>1. Alone
    BY DEF BadgeInv
  <1>2. \A t \in Slots : req'[t].kind \in LC \cup {"load"} => req[t].kind \in LC \cup {"load"}
    <2> TAKE t \in Slots
    <2>1. CASE t = s
      BY <2>1
    <2>2. CASE t # s
      BY <2>2
    <2> QED
      BY <2>1, <2>2
  <1> QED
    BY <1>1, <1>2 DEF Alone

LEMMA BadgeStep ==
    ASSUME CanvasAssumption, Core, BadgeInv, [Next]_vars
    PROVE  BadgeInv'
  <1>1. /\ rows \in Seq(Row) /\ Len(rows) \in Nat /\ MaxRows \in Nat /\ Len(rows) <= MaxRows
        /\ canvas \in CanvasState /\ canvas.row \in 0..Len(rows)
        /\ addresses \subseteq 0..MaxRows /\ req \in [Slots -> Request]
        /\ \A s \in Slots : req[s] \in Request /\ RequestOK(rows, req[s])
        /\ disturbed \in BOOLEAN
    BY CoreFacts
  <1>2. Free.kind = "free" /\ Free.at = "sent" /\ "free" \notin LC /\ "load" \notin LC /\ "run" \notin LC
    BY DEF Free, LC, Lifecycle
  <1>a. ~Changing => \A s \in Slots : req[s].kind \notin LC /\ req[s].at # "done"
    BY QuietFacts
  <1>3. ASSUME NEW e \in addresses, Open(e) PROVE BadgeInv'
    <2>1. PICK p \in [Slots -> Request] :
             /\ \A s \in Slots : p[s] = Free \/ (p[s].kind = req[s].kind /\ p[s].at = req[s].at /\ req[s].kind \in LC)
             /\ Hydrate(Mounted, e, p) /\ disturbed' = Changing /\ rows' = rows
      BY <1>3, OpenFacts
    <2>2. ~disturbed' => \A s \in Slots : p[s].kind \notin LC \cup {"load"} /\ p[s].at # "done"
      BY <1>2, <1>a, <2>1
    <2>3. Mounted \in CanvasState /\ Mounted.row = 0
      BY MountedFacts
    <2> QED
      BY <1>1, <2>1, <2>2, <2>3, BadgeHydrate
  <1>4. CASE (\E x \in addresses : Jump(x)) \/ CatalogLoaded
    <2>1. PICK p \in [Slots -> Request], c \in {canvas, Interrupted(canvas)}, e \in addresses :
             /\ \A s \in Slots : p[s] = Free \/ (p[s] = req[s] /\ req[s].kind # "load")
             /\ Hydrate(c, e, p) /\ disturbed' = (disturbed \/ Changing) /\ rows' = rows
      BY <1>4, StayFacts
    <2>2. ~disturbed' => \A s \in Slots : p[s].kind \notin LC \cup {"load"} /\ p[s].at # "done"
      BY <1>2, <1>a, <2>1
    <2>3. c \in CanvasState /\ c.row = canvas.row /\ c.stage = canvas.stage
      BY <1>1, InterruptedFacts
    <2>4. ~disturbed' => ~disturbed /\ ~Changing
      BY <2>1
    <2> QED
      BY <1>1, <2>1, <2>2, <2>3, <2>4, BadgeHydrate
  <1>5. ASSUME NEW b \in Bodies, Edit(b) PROVE BadgeInv'
    <2>1. canvas'.row = canvas.row /\ canvas'.stage = canvas.stage /\ UNCHANGED <<rows, req, disturbed>>
      BY <1>5, EditFacts
    <2>2. ~disturbed' => Shown'
      BY <2>1, BadgeKept
    <2>3. BadgeInv => (~disturbed' => Alone' /\ OfThePage')
      BY <2>1 DEF BadgeInv, Alone, OfThePage, AnswerOK, IsLive
    <2> QED
      BY <2>2, <2>3 DEF BadgeInv
  <1>6. ASSUME NEW s \in Slots, Save(s) \/ Activate(s) \/ Promote(s) \/ Run(s) PROVE BadgeInv'
    <2>1. UNCHANGED <<rows, canvas>>
      BY <1>6, ButtonFacts
    <2>2. PICK r \in Request :
                /\ Send(s, r) /\ r.live /\ r.at = "sent" /\ r.kind \in {"save", "activate", "promote", "run"}
                /\ r.kind # "save" => r.row = canvas.row
                /\ r.kind = "run" => disturbed' = disturbed
                /\ r.kind # "run" => disturbed' = (disturbed \/ Changing \/ Busy({"load"}))
      BY <1>6, ButtonFacts
    <2>3. req[s] = Free /\ req' = [req EXCEPT ![s] = r]
      BY <2>2 DEF Send, Vacant
    <2> SUFFICES ASSUME ~disturbed' PROVE (Alone /\ OfThePage /\ Shown)'
      BY DEF BadgeInv
    <2>4. ~disturbed
      BY <2>2
    <2>5. Alone /\ OfThePage
      BY <2>4 DEF BadgeInv
    <2>6. Shown'
      <3>1. (\A t \in Slots : req'[t].at # "done") => \A t \in Slots : req[t].at # "done"
        BY <1>1, <1>2, <2>3
      <3> QED
        BY <2>1, <2>4, <3>1, BadgeKept
    <2>7. OfThePage'
      <3> SUFFICES ASSUME NEW t \in Slots, req'[t].kind \in LC
                   PROVE  /\ req'[t].live
                          /\ req'[t].kind # "save" => req'[t].row = canvas'.row
                          /\ req'[t].at = "done" => AnswerOK(rows', req'[t])
        BY DEF OfThePage
      <3>1. CASE t = s
        BY <1>1, <2>1, <2>2, <2>3, <3>1
      <3>2. CASE t # s
        <4>1. req'[t] = req[t]
          BY <1>1, <2>3, <3>2
        <4> QED
          BY <2>1, <2>5, <4>1 DEF OfThePage
      <3> QED
        BY <3>1, <3>2
    <2>8. Alone'
      <3>1. CASE r.kind = "run"
        BY <1>1, <1>2, <2>3, <2>4, <3>1, AloneUpdate
      <3>2. CASE r.kind # "run"
        <4>1. \A t \in Slots : req[t].kind \notin LC \cup {"load"}
          BY <1>a, <2>2, <3>2 DEF Busy
        <4> QED
          BY <1>1, <2>3, <4>1 DEF Alone
      <3> QED
        BY <3>1, <3>2
    <2> QED
      BY <2>6, <2>7, <2>8
  <1>7. ASSUME NEW s \in Slots, NEW lost \in BOOLEAN, Serve(s, lost) PROVE BadgeInv'
    <2>1. req[s].kind \in LC
      BY <1>7, ServeFacts
    <2>2. PICK r \in Request :
                /\ req' = [req EXCEPT ![s] = r]
                /\ ~lost => /\ r.kind = req[s].kind /\ r.at = "done" /\ r.live = req[s].live
                            /\ r.kind # "save" => r.row = req[s].row
                            /\ AnswerOK(rows', r)
      BY <1>7, ServeFacts
    <2>3. canvas' = canvas /\ disturbed' = (disturbed \/ lost)
      BY <1>7 DEF Serve
    <2> SUFFICES ASSUME ~disturbed' PROVE (Alone /\ OfThePage /\ Shown)'
      BY DEF BadgeInv
    <2>4. ~disturbed /\ ~lost
      BY <2>3
    <2>5. Alone /\ OfThePage
      BY <2>4 DEF BadgeInv
    <2>6. req'[s] = r
      BY <1>1, <2>2
    <2>7. Shown'
      BY <2>2, <2>4, <2>6 DEF Shown
    <2>8. Alone'
      BY <1>1, <2>1, <2>2, <2>4, AloneUpdate
    <2>9. OfThePage'
      <3> SUFFICES ASSUME NEW t \in Slots, req'[t].kind \in LC
                   PROVE  /\ req'[t].live
                          /\ req'[t].kind # "save" => req'[t].row = canvas'.row
                          /\ req'[t].at = "done" => AnswerOK(rows', req'[t])
        BY DEF OfThePage
      <3>1. req'[s].kind \in LC
        BY <2>1, <2>2, <2>4, <2>6
      <3>2. t = s
        BY <2>8, <3>1 DEF Alone
      <3>3. req[s].live /\ (req[s].kind # "save" => req[s].row = canvas.row)
        BY <2>1, <2>5 DEF OfThePage
      <3> QED
        BY <2>2, <2>3, <2>4, <2>6, <3>2, <3>3
    <2> QED
      BY <2>7, <2>8, <2>9
  <1>8. ASSUME NEW s \in Slots, Refuse(s) \/ Started(s) \/ Confirm(s) PROVE BadgeInv'
    <2>1. PICK r \in Request :
                /\ req' = [req EXCEPT ![s] = r] /\ r.at # "done"
                /\ \/ r = Free
                   \/ /\ r.kind \in {"promote", "override"} /\ req[s].kind = "promote"
                      /\ r.row = req[s].row /\ r.live = req[s].live
      BY <1>8, EndFacts
    <2>2. /\ req[s].at # "done" /\ UNCHANGED <<rows, disturbed>>
          /\ canvas' = canvas \/ canvas' = [canvas EXCEPT !.wait = "failed"]
      BY <1>8, EndFacts
    <2>3. canvas'.row = canvas.row /\ canvas'.stage = canvas.stage
      BY <1>1, <2>2 DEF CanvasState
    <2> SUFFICES ASSUME ~disturbed' PROVE (Alone /\ OfThePage /\ Shown)'
      BY DEF BadgeInv
    <2>4. ~disturbed
      BY <2>2
    <2>5. Alone /\ OfThePage
      BY <2>4 DEF BadgeInv
    <2>6. Shown'
      <3>1. (\A t \in Slots : req'[t].at # "done") => \A t \in Slots : req[t].at # "done"
        BY <1>1, <2>1, <2>2
      <3> QED
        BY <2>2, <2>3, <2>4, <3>1, BadgeKept
    <2>b. "promote" \in LC /\ "override" \in LC
      BY DEF LC, Lifecycle
    <2>7. Alone'
      <3>1. r.kind \in LC \cup {"load"} => req[s].kind \in LC \cup {"load"}
        BY <1>2, <2>1, <2>b
      <3> QED
        BY <1>1, <2>1, <2>4, <3>1, AloneUpdate
    <2>8. OfThePage'
      <3> SUFFICES ASSUME NEW t \in Slots, req'[t].kind \in LC
                   PROVE  /\ req'[t].live
                          /\ req'[t].kind # "save" => req'[t].row = canvas'.row
                          /\ req'[t].at = "done" => AnswerOK(rows', req'[t])
        BY DEF OfThePage
      <3>1. CASE t = s
        <4>1. req'[t] = r /\ r # Free
          BY <1>1, <1>2, <2>1, <3>1
        <4>2. req[s].live /\ req[s].row = canvas.row
          BY <2>1, <2>5, <2>b, <4>1 DEF OfThePage
        <4> QED
          BY <2>1, <2>3, <4>1, <4>2
      <3>2. CASE t # s
        <4>1. req'[t] = req[t]
          BY <1>1, <2>1, <3>2
        <4> QED
          BY <2>2, <2>3, <2>5, <4>1 DEF OfThePage
      <3> QED
        BY <3>1, <3>2
    <2> QED
      BY <2>6, <2>7, <2>8
  <1>9. ASSUME NEW s \in Slots, Answer(s) PROVE BadgeInv'
    <2> DEFINE r == req[s]
               d == Continue(r, canvas)
    <2>1. /\ r.at = "done" /\ r.kind \in LC /\ req' = [req EXCEPT ![s] = Free]
          /\ r.live => canvas' = Settle(canvas, d)
          /\ UNCHANGED <<rows, disturbed>>
      BY <1>9, AnswerFacts
    <2>2. r \in Request /\ RequestOK(rows, r)
      BY <1>1
    <2> SUFFICES ASSUME ~disturbed' PROVE (Alone /\ OfThePage /\ Shown)'
      BY DEF BadgeInv
    <2>3. ~disturbed
      BY <2>1
    <2>4. Alone /\ OfThePage
      BY <2>3 DEF BadgeInv
    <2>5. r.live /\ (r.kind # "save" => r.row = canvas.row) /\ AnswerOK(rows, r)
      BY <2>1, <2>4 DEF OfThePage
    <2>6. Alone'
      BY <1>1, <1>2, <2>1, <2>3, AloneUpdate
    <2>7. OfThePage'
      <3>1. \A t \in Slots : req'[t].kind \notin LC
        <4> TAKE t \in Slots
        <4>1. CASE t = s
          BY <1>1, <1>2, <2>1, <4>1
        <4>2. CASE t # s
          BY <1>1, <2>1, <2>4, <4>2 DEF Alone
        <4> QED
          BY <4>1, <4>2
      <3> QED
        BY <3>1 DEF OfThePage
    <2> HIDE DEF r
    <2>8. /\ d \in CanvasState
          /\ r.kind = "save" => r.row \in 1..Len(rows) /\ d.row = r.row /\ d.stage = "draft"
          /\ r.kind # "save" => d.row = canvas.row
          /\ r.kind = "activate" => d.stage = deriveStage("active", rows[r.row].env)
          /\ r.kind \in {"promote", "override"} => d.stage = "production"
      BY <1>1, <2>1, <2>2, ContinueFacts
    <2> HIDE DEF d
    <2>9. canvas'.row = d.row /\ canvas'.stage = d.stage
      BY <2>1, <2>5, <2>8, SettleFacts
    <2>10. StageOK(rows, d.row, d.stage)
      <3>1. CASE r.kind = "save"
        BY <2>5, <2>8, <3>1 DEF AnswerOK, StageOK, deriveStage
      <3>2. CASE r.kind = "activate"
        BY <2>5, <2>8, <3>2 DEF AnswerOK, StageOK
      <3>3. CASE r.kind \in {"promote", "override"}
        BY <2>5, <2>8, <3>3 DEF AnswerOK, StageOK
      <3> QED
        BY <2>1, <3>1, <3>2, <3>3 DEF LC, Lifecycle
    <2>11. Shown'
      BY <2>1, <2>9, <2>10 DEF Shown, StageOK, IsLive
    <2> QED
      BY <2>6, <2>7, <2>11
  <1>10. ASSUME NEW s \in Slots, Loaded(s) PROVE BadgeInv'
    <2>1. /\ req[s].kind = "load" /\ req' = [req EXCEPT ![s] = Free]
          /\ canvas'.row = req[s].row
          /\ canvas'.stage = deriveStage(rows[req[s].row].status, rows[req[s].row].env)
          /\ UNCHANGED <<rows, disturbed>>
      BY <1>10, LoadedFacts
    <2> SUFFICES ASSUME ~disturbed' PROVE (Alone /\ OfThePage /\ Shown)'
      BY DEF BadgeInv
    <2>2. ~disturbed
      BY <2>1
    <2>3. Alone
      BY <2>2 DEF BadgeInv
    <2>4. Alone'
      BY <1>1, <1>2, <2>1, <2>2, AloneUpdate
    <2>5. OfThePage'
      <3>1. \A t \in Slots : req'[t].kind \notin LC
        <4> TAKE t \in Slots
        <4>1. CASE t = s
          BY <1>1, <1>2, <2>1, <4>1
        <4>2. CASE t # s
          BY <1>1, <2>1, <2>3, <4>2 DEF Alone
        <4> QED
          BY <4>1, <4>2
      <3> QED
        BY <3>1 DEF OfThePage
    <2>6. Shown'
      BY <2>1 DEF Shown, StageOK
    <2> QED
      BY <2>4, <2>5, <2>6
  <1>11. CASE UNCHANGED vars
    BY <1>11 DEF vars, BadgeInv, Alone, OfThePage, Shown, AnswerOK, StageOK, IsLive
  <1> QED
    BY <1>3, <1>4, <1>5, <1>6, <1>7, <1>8, <1>9, <1>10, <1>11 DEF Next, Respond

-----------------------------------------------------------------------------
(* The theorems *)

LEMMA PartsInit ==
    ASSUME CanvasAssumption, Init
    PROVE  StoredInv /\ LoadInv /\ BadgeInv
  <1>1. PICK first \in Slots :
            req = [s \in Slots |-> IF entry # 0 /\ s = first THEN LoadOf(entry) ELSE Free]
    BY DEF Init
  <1>2. /\ canvas.row = 0 /\ ~canvas.clean /\ canvas.hydrated = 0
        /\ canvas.wait = IF entry = 0 THEN "no" ELSE "load"
    BY DEF Init, Mounted
  <1>3. LoadOf(entry).kind = "load" /\ LoadOf(entry).row = entry /\ Free.kind = "free"
    BY DEF LoadOf, Free
  <1>4. StoredInv
    BY <1>2 DEF StoredInv
  <1>5. LoadInv
    BY <1>1, <1>2, <1>3 DEF LoadInv
  <1>6. "free" \notin LC /\ "load" \notin LC
    BY DEF LC, Lifecycle
  <1>7. Alone /\ OfThePage
    BY <1>1, <1>3, <1>6 DEF Alone, OfThePage
  <1>8. Shown
    BY <1>2 DEF Shown
  <1> QED
    BY <1>4, <1>5, <1>7, <1>8 DEF BadgeInv

\* The page, its requests and the table keep their types, and there is always
\* room for the versions asked for: what a button sent, what the API stored
\* and what an answer named never leave the table.
THEOREM CanvasTypeCorrect == Spec => []TypeOK
  <1>1. Init => Core
    BY CanvasAssumption, CoreInit
  <1>2. Core /\ [Next]_vars => Core'
    BY CanvasAssumption, CoreStep
  <1>3. Core => TypeOK
    BY DEF Core
  <1> QED
    BY <1>1, <1>2, <1>3, PTL DEF Spec

\* Activate, Promote and Run act on a row that holds what the canvas shows,
\* however edits, loads and late answers interleave: handleSave compares with
\* the definition it sent, not with the canvas it finds.
THEOREM ShownIsAlwaysStored == Spec => []ShownIsStored
  <1>1. Init => Core /\ StoredInv
    BY CanvasAssumption, CoreInit, PartsInit
  <1>2. Core /\ StoredInv /\ [Next]_vars => (Core /\ StoredInv)'
    BY CanvasAssumption, CoreStep, StoredStep
  <1>3. StoredInv => ShownIsStored
    BY DEF StoredInv, ShownIsStored, HasUnsavedChanges, Stored
  <1> QED
    BY <1>1, <1>2, <1>3, PTL DEF Spec

\* The stage badge is true as long as lifecycle requests do not overlap and
\* none fails after its effect.
THEOREM BadgeIsAlwaysTrue == Spec => []BadgeIsTrue
  <1>1. Init => Core /\ BadgeInv
    BY CanvasAssumption, CoreInit, PartsInit
  <1>2. Core /\ BadgeInv /\ [Next]_vars => (Core /\ BadgeInv)'
    BY CanvasAssumption, CoreStep, BadgeStep
  <1>3. Core /\ BadgeInv => BadgeIsTrue
    <2> SUFFICES ASSUME Core, BadgeInv, ~disturbed, canvas.row # 0, ~Changing
                 PROVE  LET row == rows[canvas.row]
                        IN  \/ canvas.stage = deriveStage(row.status, row.env)
                            \/ canvas.stage = "production" /\
                               \E i \in DOMAIN rows : /\ rows[i].key = row.key /\ rows[i].body = row.body
                                                      /\ rows[i].env = "prod" /\ rows[i].status = "active"
      BY DEF BadgeIsTrue
    <2>1. \A s \in Slots : req[s].at # "done"
      BY CanvasAssumption, QuietFacts
    <2>2. StageOK(rows, canvas.row, canvas.stage)
      BY <2>1 DEF BadgeInv, Shown
    <2>3. DOMAIN rows = 1..Len(rows)
      BY CanvasAssumption, CoreFacts, LenProperties
    <2> QED
      BY <2>2, <2>3 DEF StageOK, IsLive
  <1> QED
    BY <1>1, <1>2, <1>3, PTL DEF Spec

\* A page that waits for its row has the fetch of it under way, whatever the
\* catalog's answer and the history of the browser cancelled before.
THEOREM LoadingIsAlwaysUnderWay == Spec => []LoadingIsUnderWay
  <1>1. Init => Core /\ LoadInv
    BY CanvasAssumption, CoreInit, PartsInit
  <1>2. Core /\ LoadInv /\ [Next]_vars => (Core /\ LoadInv)'
    BY CanvasAssumption, CoreStep, LoadStep
  <1>3. LoadInv => LoadingIsUnderWay
    BY DEF LoadInv, LoadingIsUnderWay
  <1> QED
    BY <1>1, <1>2, <1>3, PTL DEF Spec
=============================================================================
