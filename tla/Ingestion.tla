------------------------------ MODULE Ingestion ------------------------------
(***************************************************************************)
(* The runs of one pipeline that reads a partitioned topic, may remove     *)
(* records that earlier runs have seen, and writes to a sink. The runs     *)
(* share the cursor in connector_state and the keys in dedupe_keys, and    *)
(* may overlap: manual runs, retries and triggers do not wait for each     *)
(* other. Translated from runSource (workflows/dynamic_dag.go), kafkaFetch *)
(* (connectors/streams.go), filterCrossRunDedupe, CommitSourceCursors and  *)
(* CommitDedupeKeys (activities/activities.go).                            *)
(*                                                                         *)
(* A position counts the records consumed of a partition; 0 stands for a   *)
(* partition that is absent from an offsets map, since a map only holds    *)
(* partitions of which a record was read.                                  *)
(***************************************************************************)
EXTENDS Integers, FiniteSets

CONSTANTS
  Runs,        (* executions of the pipeline                                *)
  Partitions,  (* partitions of the topic                                   *)
  MaxRecords,  (* bound on the records of a partition                       *)
  PageSize,    (* records a page holds at most                              *)
  MaxPages     (* pages a run may fetch (50 in the code)                    *)

ASSUME SetsFinite == IsFiniteSet(Runs) /\ IsFiniteSet(Partitions)
ASSUME LimitsAssumption ==
  MaxRecords \in Nat /\ PageSize \in Nat \ {0} /\ MaxPages \in Nat \ {0}

VARIABLES
  log, dedupe, latest,      \* records of each partition; is there a dedupe node;
                            \* is startPosition "latest" rather than "earliest"
  pc, pages, cp, got,       \* each run: position, pages, checkpoint, records read
  from,                     \* each run: the ends it began at for want of a cursor
  fresh,                    \* each run: records its dedupe node lets through
  found, existing,          \* each run: did the commit find a row, and its offsets
  stored, saved,            \* connector_state: is there a row, its offsets
  keys, sink,               \* dedupe_keys; records in the sink and who wrote them
  met                       \* history: pairs of runs that were active together

source == <<log, dedupe, latest>>
reading == <<pages, cp, got, from>>
committing == <<found, existing>>
state == <<stored, saved>>
vars == <<source, pc, reading, fresh, committing, state, keys, sink, met>>

Records == Partitions \X (1..MaxRecords)
Positions == [Partitions -> 0..MaxRecords]
Start == [p \in Partitions |-> 0]
Active == {"fetch", "filter", "sink", "lock", "write", "keys"}

TypeOK ==
  /\ log \in Positions /\ dedupe \in BOOLEAN /\ latest \in BOOLEAN
  /\ pc \in [Runs -> Active \cup {"idle", "done", "failed"}]
  /\ pages \in [Runs -> 0..MaxPages] /\ cp \in [Runs -> Positions]
  /\ from \in [Runs -> Positions]
  /\ got \in [Runs -> SUBSET Records] /\ fresh \in [Runs -> SUBSET Records]
  /\ found \in [Runs -> BOOLEAN] /\ existing \in [Runs -> Positions]
  /\ stored \in BOOLEAN /\ saved \in Positions
  /\ keys \in SUBSET Records /\ sink \in SUBSET (Runs \X Records)
  /\ met \in SUBSET (Runs \X Runs)

Init ==
  /\ log \in Positions /\ dedupe \in BOOLEAN /\ latest \in BOOLEAN
  /\ pc = [r \in Runs |-> "idle"] /\ pages = [r \in Runs |-> 0]
  /\ cp = [r \in Runs |-> Start] /\ from = [r \in Runs |-> Start]
  /\ got = [r \in Runs |-> {}] /\ fresh = [r \in Runs |-> {}]
  /\ found = [r \in Runs |-> FALSE] /\ existing = [r \in Runs |-> Start]
  /\ stored = FALSE /\ saved = Start /\ keys = {} /\ sink = {} /\ met = {}

(* A producer appends to a partition.                                      *)
Produce(p) ==
  /\ log[p] < MaxRecords
  /\ log' = [log EXCEPT ![p] = @ + 1]
  /\ UNCHANGED <<dedupe, latest, pc, reading, fresh, committing, state, keys, sink, met>>

(* fireExecution starts a run whatever other runs are doing. The ends it   *)
(* may find are at least the ones of this moment.                          *)
StartRun(r) ==
  /\ pc[r] = "idle"
  /\ pc' = [pc EXCEPT ![r] = "fetch"]
  /\ from' = [from EXCEPT ![r] = IF latest THEN log ELSE Start]
  /\ met' = met \cup {<<r, q>> : q \in {q \in Runs : pc[q] \in Active}}
  /\ UNCHANGED <<source, pages, cp, got, fresh, committing, state, keys, sink>>

(* A node of the run fails for good, so the run ends without a commit.     *)
FailRun(r) ==
  /\ pc[r] \in {"fetch", "filter", "sink", "lock", "keys"}
  /\ pc' = [pc EXCEPT ![r] = "failed"]
  /\ UNCHANGED <<source, reading, fresh, committing, state, keys, sink, met>>

-----------------------------------------------------------------------------
(* The source node.                                                        *)

(* The first page starts at the saved cursor, a further one at the         *)
(* checkpoint of the page before.                                          *)
Cursor(r) == IF pages[r] = 0 THEN saved ELSE cp[r]

(* Without offsets the whole topic is consumed, otherwise the partitions   *)
(* of the offsets map and no other.                                        *)
Assigned(off) ==
  IF off = Start THEN Partitions ELSE {p \in Partitions : off[p] # 0}

(* Only a run that finds no cursor looks at startPosition, on its first    *)
(* page: with "latest" it begins where each partition ends when the client *)
(* asks, at some time since the run started, and otherwise at the start. A *)
(* repeated activity asks again.                                           *)
SeeksEnd(r) == latest /\ pages[r] = 0 /\ saved = Start
Begins(r) ==
  IF SeeksEnd(r) THEN {off \in Positions : \A p \in Partitions : from[r][p] <= off[p]}
                 ELSE {Cursor(r)}
Began(r, off) ==
  CASE SeeksEnd(r) -> off
    [] pages[r] = 0 /\ ~SeeksEnd(r) -> Start
    [] OTHER -> from[r]

Page(off, read) == {x \in Records : off[x[1]] < x[2] /\ x[2] <= read[x[1]]}

(* The next cursor holds the partitions the page has records of.           *)
NextCursorOffByOne(off, read) ==
  [p \in Partitions |-> IF read[p] > off[p] /\ read[p] < MaxRecords THEN read[p] + 1 ELSE 0]
NextCursor(off, read) == [p \in Partitions |-> IF read[p] > off[p] THEN read[p] ELSE 0]

(* What runSource does after a page.                                       *)
AfterPageUnlimited(number, hasMore) == IF hasMore THEN "fetch" ELSE "filter"
AfterPage(number, hasMore) ==
  CASE hasMore /\ number >= MaxPages -> "failed"
    [] hasMore /\ number < MaxPages -> "fetch"
    [] OTHER -> "filter"

(* A poll returns what has arrived when it returns: up to a page of        *)
(* records in the order of their partitions, or nothing after a timeout.   *)
(* A full page announces a further one. A page that is fetched again after *)
(* its answer was lost has no effect of its own.                           *)
FetchSourcePage(r) ==
  /\ pc[r] = "fetch"
  /\ \E off \in Begins(r), read \in Positions :
       LET page == Page(off, read)
       IN /\ \A p \in Partitions : off[p] <= read[p] /\ read[p] <= log[p]
          /\ \A p \in Partitions \ Assigned(Cursor(r)) : read[p] = off[p]
          /\ Cardinality(page) <= PageSize
          /\ cp' = [cp EXCEPT ![r] = NextCursor(off, read)]
          /\ from' = [from EXCEPT ![r] = Began(r, off)]
          /\ got' = [got EXCEPT ![r] = @ \cup page]
          /\ pc' = [pc EXCEPT ![r] = AfterPage(pages[r] + 1, Cardinality(page) >= PageSize)]
  /\ pages' = [pages EXCEPT ![r] = @ + 1]
  /\ UNCHANGED <<source, fresh, committing, state, keys, sink, met>>

-----------------------------------------------------------------------------
(* Deduplication and the sink.                                             *)

(* Records whose key no earlier run has committed.                         *)
FreshUnfiltered(r) == got[r]
Fresh(r) == IF dedupe THEN got[r] \ keys ELSE got[r]

FilterCrossRunDedupe(r) ==
  /\ pc[r] = "filter"
  /\ fresh' = [fresh EXCEPT ![r] = Fresh(r)]
  /\ pc' = [pc EXCEPT ![r] = "sink"]
  /\ UNCHANGED <<source, reading, committing, state, keys, sink, met>>

(* The sink writes record by record: a run that fails here may have        *)
(* written some of them.                                                   *)
DeliverToSink(r) ==
  /\ pc[r] = "sink"
  /\ \/ /\ sink' = sink \cup ({r} \X fresh[r])
        /\ pc' = [pc EXCEPT ![r] = "lock"]
     \/ /\ \E some \in SUBSET fresh[r] : sink' = sink \cup ({r} \X some)
        /\ pc' = [pc EXCEPT ![r] = "failed"]
  /\ UNCHANGED <<source, reading, fresh, committing, state, keys, met>>

-----------------------------------------------------------------------------
(* The commits of a run whose nodes all succeeded.                         *)

(* SELECT ... FOR UPDATE locks the row of the connection, if there is one. *)
RowLocked == \E r \in Runs : pc[r] = "write" /\ found[r]

LockCursor(r) ==
  /\ pc[r] = "lock" /\ ~RowLocked
  /\ pc' = [pc EXCEPT ![r] = "write"]
  /\ found' = [found EXCEPT ![r] = stored]
  /\ existing' = [existing EXCEPT ![r] = saved]
  /\ UNCHANGED <<source, reading, fresh, state, keys, sink, met>>

(* Offsets are merged into the ones the transaction found.                 *)
MergedOverwrite(r) == cp[r]
Merged(r) == [p \in Partitions |-> IF cp[r][p] > existing[r][p] THEN cp[r][p] ELSE existing[r][p]]

(* The upsert replaces a row that was inserted after the read, but waits   *)
(* for one that is locked. The activity goes on, is retried or gives up,   *)
(* with or without its effect.                                             *)
CommitSourceCursors(r) ==
  /\ pc[r] = "write" /\ (~found[r] => ~RowLocked)
  /\ \/ /\ stored' = TRUE /\ saved' = Merged(r)
        /\ \E next \in {"keys", "lock", "failed"} : pc' = [pc EXCEPT ![r] = next]
     \/ /\ \E next \in {"lock", "failed"} : pc' = [pc EXCEPT ![r] = next]
        /\ UNCHANGED state
  /\ UNCHANGED <<source, reading, fresh, committing, keys, sink, met>>

(* One insert stores the keys of the records that were let through.        *)
CommitDedupeKeys(r) ==
  /\ pc[r] = "keys"
  /\ keys' = IF dedupe THEN keys \cup fresh[r] ELSE keys
  /\ \E next \in {"done", "failed"} : pc' = [pc EXCEPT ![r] = next]
  /\ UNCHANGED <<source, reading, fresh, committing, state, sink, met>>

RunStep(r) ==
  \/ StartRun(r) \/ FailRun(r) \/ FetchSourcePage(r) \/ FilterCrossRunDedupe(r)
  \/ DeliverToSink(r) \/ LockCursor(r) \/ CommitSourceCursors(r) \/ CommitDedupeKeys(r)

Next == (\E p \in Partitions : Produce(p)) \/ \E r \in Runs : RunStep(r)

Spec == Init /\ [][Next]_vars
-----------------------------------------------------------------------------
(* Properties.                                                             *)

Delivered == {x \in Records : \E r \in Runs : <<r, x>> \in sink}

(* What startPosition "latest" leaves out by design: a record that was in  *)
(* the topic before the end at which a run began, when what follows that   *)
(* end has been delivered.                                                 *)
LeftOut(p, i) ==
  \E r \in Runs : pages[r] > 0 /\ i <= from[r][p] /\ <<p, from[r][p] + 1>> \in Delivered

(* No record is lost: whatever runs overlap or fail, a record behind the   *)
(* saved cursor, which no run will read again, has reached the sink or was *)
(* left out by a run that began at the end of its partition, and a record  *)
(* that deduplication will hold back has reached the sink.                 *)
NothingSkipped ==
  /\ \A p \in Partitions : \A i \in 1..saved[p] : <<p, i>> \in Delivered \/ LeftOut(p, i)
  /\ keys \subseteq Delivered

(* With a dedupe node a record reaches the sink twice only when one of the *)
(* two runs failed or the runs overlapped: keys of a finished run are seen *)
(* by every later one.                                                     *)
DuplicateHasCause ==
  dedupe => \A r, q \in Runs : \A x \in Records :
    r # q /\ <<r, x>> \in sink /\ <<q, x>> \in sink =>
      "failed" \in {pc[r], pc[q]} \/ {<<r, q>>, <<q, r>>} \cap met # {}

(* Saved offsets never move back, unless the commit found no row to lock:  *)
(* merging under the row lock protects every commit but the first ones.    *)
OffsetsMoveForward ==
  [][\A p \in Partitions : saved'[p] >= saved[p] \/ \E r \in Runs : pc[r] = "write" /\ ~found[r]]_vars

(* Cursors are committed on success: the records of a completed run are    *)
(* behind the saved cursor, so that no later run replays them.             *)
CompletedRunIsBehindCursor ==
  \A r \in Runs : pc[r] = "done" => \A x \in got[r] : x[2] <= saved[x[1]]
=============================================================================
