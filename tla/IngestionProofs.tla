--------------------------- MODULE IngestionProofs ---------------------------
(***************************************************************************)
(* Proofs about Ingestion for every number of runs, partitions, records    *)
(* and pages. The invariant has three parts: what a checkpoint covers      *)
(* (DeliveryInv), what finished runs leave for later ones (KeyInv) and     *)
(* what the row lock protects (LockInv).                                   *)
(***************************************************************************)
EXTENDS Ingestion, TLAPS

Filtered == {"sink", "lock", "write", "keys", "done"}
Written == {"lock", "write", "keys", "done"}

(* A record that is in the sink, or that a run at the end left out.        *)
Behind(p, i) == <<p, i>> \in Delivered \/ LeftOut(p, i)

(* Every record up to a position is accounted for.                         *)
DeliveredUpTo(off) == \A p \in Partitions : \A i \in 1..off[p] : Behind(p, i)

(* What a run has read, or left out with the records that follow read.     *)
Passed(r, p, i) ==
  \/ <<p, i>> \in got[r]
  \/ pages[r] > 0 /\ i <= from[r][p] /\ <<p, from[r][p] + 1>> \in Delivered \cup got[r]

(* A checkpoint covers records that are accounted for or that its run has  *)
(* passed; what a run has read is in the sink once its sink node is done.  *)
DeliveryInv ==
  /\ DeliveredUpTo(saved) /\ keys \subseteq Delivered
  /\ \A r \in Runs :
       /\ DeliveredUpTo(existing[r])
       /\ \A p \in Partitions : \A i \in 1..cp[r][p] : Behind(p, i) \/ Passed(r, p, i)
       /\ pc[r] \in Filtered => got[r] \subseteq fresh[r] \cup Delivered
       /\ pc[r] \in Written => fresh[r] \subseteq Delivered

(* r ended before q started, and q lets through nothing that r did.        *)
Precedes(r, q) ==
  pc[r] = "done" /\ fresh[r] \subseteq keys /\ fresh[q] \cap fresh[r] = {}

Ran(r) == pc[r] \in Active \cup {"done"}

KeyInv ==
  /\ \A r \in Runs : \A x \in Records : <<r, x>> \in sink => x \in fresh[r]
  /\ \A r \in Runs : pc[r] \in {"idle", "fetch", "filter"} => fresh[r] = {}
  /\ \A r \in Runs : dedupe /\ pc[r] = "done" => fresh[r] \subseteq keys
  /\ dedupe => \A r, q \in Runs :
       r # q /\ Ran(r) /\ Ran(q) =>
         <<r, q>> \in met \/ <<q, r>> \in met \/ Precedes(r, q) \/ Precedes(q, r)

LockInv ==
  /\ \A r \in Runs : pc[r] = "write" /\ found[r] => existing[r] = saved
  /\ \A r, q \in Runs : pc[r] = "write" /\ found[r] /\ pc[q] = "write" /\ found[q] => r = q

-----------------------------------------------------------------------------
(* Types.                                                                  *)

(* A run that may fetch another page is below the page limit, and one that *)
(* has not started has fetched none.                                       *)
PagesInv == \A r \in Runs :
  /\ pc[r] \in {"idle", "fetch"} => pages[r] < MaxPages
  /\ pc[r] = "idle" => pages[r] = 0

LEMMA TypeInit == Init => TypeOK /\ PagesInv
  <1> SUFFICES ASSUME Init PROVE TypeOK /\ PagesInv
    OBVIOUS
  <1> USE LimitsAssumption
  <1>1. Start \in Positions
    BY DEF Start, Positions
  <1>2. pc \in [Runs -> Active \cup {"idle", "done", "failed"}] /\ pages \in [Runs -> 0..MaxPages]
    BY DEF Init
  <1>3. cp \in [Runs -> Positions] /\ existing \in [Runs -> Positions] /\ from \in [Runs -> Positions]
    BY <1>1 DEF Init
  <1>4. /\ got \in [Runs -> SUBSET Records] /\ fresh \in [Runs -> SUBSET Records]
        /\ found \in [Runs -> BOOLEAN]
    BY DEF Init
  <1>5. PagesInv
    BY DEF Init, PagesInv
  <1> QED BY <1>1, <1>2, <1>3, <1>4, <1>5 DEF Init, TypeOK

LEMMA NextCursorType ==
  ASSUME NEW off \in Positions, NEW read \in Positions
  PROVE  NextCursor(off, read) \in Positions
  BY LimitsAssumption DEF NextCursor, Positions

LEMMA MergedType ==
  ASSUME TypeOK, NEW r \in Runs
  PROVE  Merged(r) \in Positions
  BY DEF TypeOK, Merged, Positions

LEMMA TypeNext == TypeOK /\ PagesInv /\ [Next]_vars => TypeOK' /\ PagesInv'
  <1> SUFFICES ASSUME TypeOK, PagesInv, [Next]_vars PROVE TypeOK' /\ PagesInv'
    OBVIOUS
  <1> USE LimitsAssumption
  <1>1. CASE UNCHANGED vars
    BY <1>1 DEF vars, source, reading, committing, state, TypeOK, PagesInv
  <1>2. ASSUME NEW p \in Partitions, Produce(p) PROVE TypeOK' /\ PagesInv'
    <2>1. log' \in Positions
      BY <1>2 DEF Produce, TypeOK, Positions
    <2> QED BY <1>2, <2>1 DEF Produce, reading, committing, state, TypeOK, PagesInv
  <1>3. ASSUME NEW r \in Runs, StartRun(r) PROVE TypeOK' /\ PagesInv'
    <2>1. from' \in [Runs -> Positions]
      BY <1>3 DEF StartRun, TypeOK, Start, Positions
    <2> QED BY <1>3, <2>1 DEF StartRun, source, committing, state, TypeOK, PagesInv, Active
  <1>4. ASSUME NEW r \in Runs, FailRun(r) PROVE TypeOK' /\ PagesInv'
    BY <1>4 DEF FailRun, source, reading, committing, state, TypeOK, PagesInv, Active
  <1>5. ASSUME NEW r \in Runs, FetchSourcePage(r) PROVE TypeOK' /\ PagesInv'
    <2> DEFINE n == pages[r] + 1
    <2>1. PICK off \in Begins(r), read \in Positions :
            /\ cp' = [cp EXCEPT ![r] = NextCursor(off, read)]
            /\ from' = [from EXCEPT ![r] = Began(r, off)]
            /\ got' = [got EXCEPT ![r] = @ \cup Page(off, read)]
            /\ pc' = [pc EXCEPT ![r] = AfterPage(n, Cardinality(Page(off, read)) >= PageSize)]
      BY <1>5 DEF FetchSourcePage
    <2>2. off \in Positions
      BY DEF Begins, Cursor, TypeOK
    <2>3. NextCursor(off, read) \in Positions /\ Began(r, off) \in Positions
      BY <2>2, NextCursorType DEF Began, Start, TypeOK, Positions
    <2>4. Page(off, read) \in SUBSET Records
      BY DEF Page
    <2>5. n \in 1..MaxPages /\ pages[r] \in 0..MaxPages
      BY <1>5 DEF FetchSourcePage, TypeOK, PagesInv
    <2> DEFINE more == Cardinality(Page(off, read)) >= PageSize
    <2>6. /\ AfterPage(n, more) \in {"fetch", "filter", "failed"}
          /\ AfterPage(n, more) = "fetch" => n < MaxPages
      BY <2>5 DEF AfterPage
    <2>7. UNCHANGED <<source, fresh, committing, state, keys, sink, met>> /\ pages' = [pages EXCEPT ![r] = n]
      BY <1>5 DEF FetchSourcePage
    <2> HIDE DEF n, more
    <2>8. cp' \in [Runs -> Positions] /\ from' \in [Runs -> Positions] /\ got' \in [Runs -> SUBSET Records]
      BY <2>1, <2>3, <2>4 DEF TypeOK
    <2>9. pc' \in [Runs -> Active \cup {"idle", "done", "failed"}] /\ pages' \in [Runs -> 0..MaxPages]
      BY <2>1, <2>5, <2>6, <2>7 DEF TypeOK, Active, more
    <2>10. PagesInv'
      BY <2>1, <2>5, <2>6, <2>7 DEF PagesInv, TypeOK, more
    <2> QED BY <2>7, <2>8, <2>9, <2>10 DEF TypeOK, source, committing, state
  <1>6. ASSUME NEW r \in Runs, FilterCrossRunDedupe(r) PROVE TypeOK' /\ PagesInv'
    <2>1. Fresh(r) \in SUBSET Records
      BY DEF Fresh, TypeOK
    <2> QED
      BY <1>6, <2>1 DEF FilterCrossRunDedupe, source, reading, committing, state, TypeOK, PagesInv, Active
  <1>7. ASSUME NEW r \in Runs, DeliverToSink(r) PROVE TypeOK' /\ PagesInv'
    <2>1. sink' \in SUBSET (Runs \X Records)
      BY <1>7 DEF DeliverToSink, TypeOK
    <2> QED
      BY <1>7, <2>1 DEF DeliverToSink, source, reading, committing, state, TypeOK, PagesInv, Active
  <1>8. ASSUME NEW r \in Runs, LockCursor(r) PROVE TypeOK' /\ PagesInv'
    BY <1>8 DEF LockCursor, source, reading, state, TypeOK, PagesInv, Active
  <1>9. ASSUME NEW r \in Runs, CommitSourceCursors(r) PROVE TypeOK' /\ PagesInv'
    <2>1. stored' \in BOOLEAN /\ saved' \in Positions
      BY <1>9, MergedType DEF CommitSourceCursors, state, TypeOK
    <2> QED
      BY <1>9, <2>1 DEF CommitSourceCursors, source, reading, committing, TypeOK, PagesInv, Active
  <1>10. ASSUME NEW r \in Runs, CommitDedupeKeys(r) PROVE TypeOK' /\ PagesInv'
    BY <1>10 DEF CommitDedupeKeys, source, reading, committing, state, TypeOK, PagesInv, Active
  <1> QED
    BY <1>1, <1>2, <1>3, <1>4, <1>5, <1>6, <1>7, <1>8, <1>9, <1>10 DEF Next, RunStep

(* Every reachable state is well-typed; in particular no run fetches more  *)
(* pages than runSource allows.                                            *)
THEOREM IngestionTypeCorrect == Spec => []TypeOK
  <1>1. Spec => [](TypeOK /\ PagesInv)
    BY TypeInit, TypeNext, PTL DEF Spec
  <1> QED BY <1>1, PTL
-----------------------------------------------------------------------------
(* No record is lost.                                                      *)

LEMMA DeliveryInit == Init => DeliveryInv
  <1> SUFFICES ASSUME Init PROVE DeliveryInv
    OBVIOUS
  <1>1. \A p \in Partitions : 1..Start[p] = {}
    BY DEF Start
  <1>2. DeliveredUpTo(Start)
    BY <1>1 DEF DeliveredUpTo
  <1>3. \A r \in Runs : cp[r] = Start /\ existing[r] = Start /\ pc[r] = "idle"
    BY DEF Init
  <1>4. saved = Start /\ keys = {}
    BY DEF Init
  <1> QED BY <1>1, <1>2, <1>3, <1>4 DEF DeliveryInv, Filtered, Written

(* Nothing leaves the sink.                                                *)
LEMMA SinkGrows ==
  ASSUME TypeOK, [Next]_vars
  PROVE  Delivered \subseteq Delivered'
  <1>1. sink \subseteq sink'
    <2>1. CASE UNCHANGED vars
      BY <2>1 DEF vars
    <2>2. ASSUME NEW p \in Partitions, Produce(p) PROVE sink \subseteq sink'
      BY <2>2 DEF Produce
    <2>3. ASSUME NEW r \in Runs, RunStep(r) PROVE sink \subseteq sink'
      BY <2>3 DEF RunStep, StartRun, FailRun, FetchSourcePage, FilterCrossRunDedupe, DeliverToSink,
                  LockCursor, CommitSourceCursors, CommitDedupeKeys
    <2> QED BY <2>1, <2>2, <2>3 DEF Next
  <1> QED BY <1>1 DEF Delivered

(* The end a run began at is settled by its first page.                    *)
LEMMA FromSettled ==
  ASSUME TypeOK, PagesInv, [Next]_vars, NEW r \in Runs, pages[r] > 0
  PROVE  from'[r] = from[r] /\ pages'[r] > 0
  <1>1. CASE UNCHANGED vars
    BY <1>1 DEF vars, reading
  <1>2. ASSUME NEW p \in Partitions, Produce(p) PROVE UNCHANGED reading
    BY <1>2 DEF Produce
  <1>3. ASSUME NEW q \in Runs, StartRun(q) PROVE from'[r] = from[r] /\ pages'[r] > 0
    <2>1. q # r
      BY <1>3 DEF StartRun, PagesInv
    <2> QED BY <1>3, <2>1 DEF StartRun, TypeOK
  <1>4. ASSUME NEW q \in Runs, FetchSourcePage(q) PROVE from'[r] = from[r] /\ pages'[r] > 0
    <2>1. PICK off : from' = [from EXCEPT ![q] = Began(q, off)]
      BY <1>4 DEF FetchSourcePage
    <2>2. pages[r] \in Nat /\ pages' = [pages EXCEPT ![q] = @ + 1]
      BY <1>4, LimitsAssumption DEF FetchSourcePage, TypeOK
    <2>3. pages'[r] > 0
      BY <2>2 DEF TypeOK
    <2>4. q = r => Began(q, off) = from[r]
      BY <2>2 DEF Began, SeeksEnd
    <2> QED BY <2>1, <2>3, <2>4 DEF TypeOK
  <1>5. ASSUME NEW q \in Runs,
               \/ FailRun(q) \/ FilterCrossRunDedupe(q) \/ DeliverToSink(q)
               \/ LockCursor(q) \/ CommitSourceCursors(q) \/ CommitDedupeKeys(q)
        PROVE  UNCHANGED reading
    BY <1>5 DEF FailRun, FilterCrossRunDedupe, DeliverToSink, LockCursor, CommitSourceCursors, CommitDedupeKeys
  <1> QED BY <1>1, <1>2, <1>3, <1>4, <1>5 DEF Next, RunStep, reading

(* What is accounted for stays so.                                         *)
LEMMA BehindStays ==
  ASSUME TypeOK, PagesInv, [Next]_vars, NEW p, NEW i, Behind(p, i)
  PROVE  Behind(p, i)'
  <1>1. Delivered \subseteq Delivered'
    BY SinkGrows
  <1>2. ASSUME LeftOut(p, i) PROVE LeftOut(p, i)'
    <2>1. PICK r \in Runs : pages[r] > 0 /\ i <= from[r][p] /\ <<p, from[r][p] + 1>> \in Delivered
      BY <1>2 DEF LeftOut
    <2>2. from'[r] = from[r] /\ pages'[r] > 0
      BY <2>1, FromSettled
    <2> QED BY <1>1, <2>1, <2>2 DEF LeftOut
  <1> QED BY <1>1, <1>2 DEF Behind

(* The parts of DeliveryInv about one run that a step leaves alone.        *)
RunDelivery(r) ==
  /\ DeliveredUpTo(existing[r])
  /\ \A p \in Partitions : \A i \in 1..cp[r][p] : Behind(p, i) \/ Passed(r, p, i)
  /\ pc[r] \in Filtered => got[r] \subseteq fresh[r] \cup Delivered
  /\ pc[r] \in Written => fresh[r] \subseteq Delivered

LEMMA RunDeliveryKept ==
  ASSUME Delivered \subseteq Delivered', \A p, i : Behind(p, i) => Behind(p, i)',
         NEW r \in Runs, RunDelivery(r),
         pages[r] > 0 => from'[r] = from[r] /\ pages'[r] > 0,
         existing'[r] = existing[r], cp'[r] = cp[r], got'[r] = got[r], fresh'[r] = fresh[r],
         pc'[r] = pc[r] \/ pc'[r] \notin Filtered \/ (pc[r] \in Written /\ pc'[r] \in Written)
  PROVE  RunDelivery(r)'
  <1>1. DeliveredUpTo(existing[r])'
    BY DEF RunDelivery, DeliveredUpTo
  <1>2. \A p \in Partitions : \A i \in 1..cp'[r][p] : Behind(p, i)' \/ Passed(r, p, i)'
    BY DEF RunDelivery, Passed
  <1> QED BY <1>1, <1>2 DEF RunDelivery, Filtered, Written

LEMMA DeliveryNext == TypeOK /\ PagesInv /\ DeliveryInv /\ [Next]_vars => DeliveryInv'
  <1> SUFFICES ASSUME TypeOK, PagesInv, DeliveryInv, [Next]_vars PROVE DeliveryInv'
    OBVIOUS
  <1>a. Delivered \subseteq Delivered' /\ \A p, i : Behind(p, i) => Behind(p, i)'
    BY SinkGrows, BehindStays
  <1>e. \A r \in Runs : pages[r] > 0 => from'[r] = from[r] /\ pages'[r] > 0
    BY FromSettled
  <1>b. \A q \in Runs : RunDelivery(q)
    BY DEF DeliveryInv, RunDelivery
  <1>c. DeliveredUpTo(saved) /\ keys \subseteq Delivered
    BY DEF DeliveryInv
  <1>d. DeliveredUpTo(saved) => (UNCHANGED saved => DeliveredUpTo(saved)')
    BY <1>a DEF DeliveredUpTo
  <1> SUFFICES DeliveredUpTo(saved)' /\ (keys \subseteq Delivered)' /\ \A q \in Runs : RunDelivery(q)'
    BY DEF DeliveryInv, RunDelivery
  <1> DEFINE Goal == DeliveredUpTo(saved)' /\ (keys \subseteq Delivered)' /\ \A q \in Runs : RunDelivery(q)'
  <1>1. CASE UNCHANGED vars
    BY <1>1, <1>a, <1>b, <1>c, <1>d, <1>e, RunDeliveryKept DEF vars, source, reading, committing, state
  <1>2. ASSUME NEW p \in Partitions, Produce(p) PROVE Goal
    BY <1>2, <1>a, <1>b, <1>c, <1>d, <1>e, RunDeliveryKept DEF Produce, reading, committing, state
  <1>3. ASSUME NEW r \in Runs, StartRun(r) \/ FailRun(r) PROVE Goal
    <2>1. UNCHANGED <<cp, got, fresh, committing, state, keys, sink>>
      BY <1>3 DEF StartRun, FailRun, reading
    <2>2. \A q \in Runs : pc'[q] = pc[q] \/ pc'[q] \notin Filtered
      BY <1>3 DEF StartRun, FailRun, TypeOK, Filtered
    <2>3. \A q \in Runs : RunDelivery(q)'
      BY <2>1, <2>2, <1>a, <1>b, <1>e, RunDeliveryKept DEF committing
    <2> QED BY <2>1, <2>3, <1>a, <1>c, <1>d DEF state
  <1>4. ASSUME NEW r \in Runs, FetchSourcePage(r) PROVE Goal
    <2>1. PICK off \in Begins(r), read \in Positions :
            /\ cp' = [cp EXCEPT ![r] = NextCursor(off, read)]
            /\ from' = [from EXCEPT ![r] = Began(r, off)]
            /\ got' = [got EXCEPT ![r] = @ \cup Page(off, read)]
            /\ pc' = [pc EXCEPT ![r] = AfterPage(pages[r] + 1, Cardinality(Page(off, read)) >= PageSize)]
      BY <1>4 DEF FetchSourcePage
    <2>2. UNCHANGED <<fresh, committing, state, keys, sink>> /\ pages' = [pages EXCEPT ![r] = @ + 1]
      BY <1>4 DEF FetchSourcePage
    <2>3. pc'[r] \notin Filtered
      BY <2>1 DEF AfterPage, Filtered, TypeOK
    <2>4. ASSUME NEW p \in Partitions, NEW i \in 1..cp'[r][p]
          PROVE  Behind(p, i)' \/ Passed(r, p, i)'
      <3>1. off \in Positions /\ off[p] \in 0..MaxRecords
        BY DEF Begins, Cursor, TypeOK, Positions
      <3>2. i \in 1..read[p] /\ read[p] \in 0..MaxRecords /\ read[p] > off[p]
        BY <2>1, <3>1, LimitsAssumption DEF NextCursor, Positions, TypeOK
      <3>3. got'[r] = got[r] \cup Page(off, read) /\ from'[r] = Began(r, off)
        BY <2>1 DEF TypeOK
      <3>4. CASE i > off[p]
        <4>1. <<p, i>> \in Records
          BY <3>2, LimitsAssumption DEF Records
        <4>2. <<p, i>> \in Page(off, read)
          BY <4>1, <3>2, <3>4, LimitsAssumption DEF Page
        <4> QED BY <4>2, <3>3 DEF Passed
      <3>5. CASE i <= off[p] /\ SeeksEnd(r)
        <4>1. <<p, off[p] + 1>> \in Page(off, read)
          BY <3>1, <3>2, LimitsAssumption DEF Page, Records
        <4>2. from'[r] = off /\ pages'[r] > 0
          BY <3>3, <3>5, <2>2 DEF Began, SeeksEnd, TypeOK
        <4> QED BY <3>3, <3>5, <4>1, <4>2 DEF Passed
      <3>6. CASE i <= off[p] /\ ~SeeksEnd(r)
        <4>1. i \in 1..off[p] /\ off = Cursor(r)
          BY <3>1, <3>2, <3>6, LimitsAssumption DEF Begins
        <4>2. Behind(p, i) \/ Passed(r, p, i)
          BY <4>1, <1>b, <1>c DEF Cursor, RunDelivery, DeliveredUpTo
        <4>3. Passed(r, p, i) => Passed(r, p, i)'
          BY <3>3, <1>a, <1>e DEF Passed
        <4> QED BY <4>2, <4>3, <1>a
      <3> QED BY <3>1, <3>2, <3>4, <3>5, <3>6, LimitsAssumption
    <2>5. DeliveredUpTo(existing[r])'
      BY <1>a, <1>b, <2>2 DEF committing, RunDelivery, DeliveredUpTo
    <2>6. RunDelivery(r)'
      BY <2>3, <2>4, <2>5 DEF RunDelivery, Filtered, Written
    <2>7. ASSUME NEW q \in Runs, q # r PROVE RunDelivery(q)'
      BY <2>1, <2>2, <2>7, <1>a, <1>b, <1>e, RunDeliveryKept DEF committing, TypeOK
    <2> QED BY <2>2, <2>6, <2>7, <1>a, <1>c, <1>d DEF state
  <1>5. ASSUME NEW r \in Runs, FilterCrossRunDedupe(r) PROVE Goal
    <2>1. /\ fresh' = [fresh EXCEPT ![r] = Fresh(r)] /\ pc' = [pc EXCEPT ![r] = "sink"]
          /\ UNCHANGED <<reading, committing, state, keys, sink>>
      BY <1>5 DEF FilterCrossRunDedupe
    <2>2. got[r] \subseteq Fresh(r) \cup Delivered
      BY <1>c DEF Fresh
    <2>3. DeliveredUpTo(existing[r])'
      BY <1>a, <1>b, <2>1 DEF committing, RunDelivery, DeliveredUpTo
    <2>4. \A p \in Partitions : \A i \in 1..cp'[r][p] : Behind(p, i)' \/ Passed(r, p, i)'
      BY <1>a, <1>b, <2>1 DEF reading, RunDelivery, Passed
    <2>5. RunDelivery(r)'
      BY <2>1, <2>2, <2>3, <2>4, <1>a DEF RunDelivery, reading, TypeOK, Written
    <2>6. ASSUME NEW q \in Runs, q # r PROVE RunDelivery(q)'
      BY <2>1, <2>6, <1>a, <1>b, <1>e, RunDeliveryKept DEF reading, committing, TypeOK
    <2> QED BY <2>1, <2>5, <2>6, <1>a, <1>c, <1>d DEF state
  <1>6. ASSUME NEW r \in Runs, DeliverToSink(r) PROVE Goal
    <2>1. UNCHANGED <<reading, fresh, committing, state, keys>>
      BY <1>6 DEF DeliverToSink
    <2>2. CASE pc'[r] \notin Written
      <3>1. \A q \in Runs : pc'[q] = pc[q] \/ pc'[q] \notin Filtered
        BY <1>6, <2>2 DEF DeliverToSink, TypeOK, Filtered, Written
      <3> QED BY <2>1, <3>1, <1>a, <1>b, <1>c, <1>d, <1>e, RunDeliveryKept DEF reading, committing, state
    <2>3. CASE pc'[r] \in Written
      <3>1. sink' = sink \cup ({r} \X fresh[r]) /\ pc' = [pc EXCEPT ![r] = "lock"] /\ pc[r] = "sink"
        BY <1>6, <2>3 DEF DeliverToSink, TypeOK, Written
      <3>2. fresh[r] \subseteq Delivered'
        BY <3>1 DEF Delivered, TypeOK
      <3>3. DeliveredUpTo(existing[r])'
        BY <1>a, <1>b, <2>1 DEF committing, RunDelivery, DeliveredUpTo
      <3>4. \A p \in Partitions : \A i \in 1..cp'[r][p] : Behind(p, i)' \/ Passed(r, p, i)'
        BY <1>a, <1>b, <2>1 DEF reading, RunDelivery, Passed
      <3>5. got'[r] \subseteq fresh'[r] \cup Delivered'
        BY <1>a, <1>b, <2>1, <3>1 DEF reading, RunDelivery, Filtered
      <3>6. RunDelivery(r)'
        BY <2>1, <3>2, <3>3, <3>4, <3>5 DEF RunDelivery
      <3>7. ASSUME NEW q \in Runs, q # r PROVE RunDelivery(q)'
        BY <2>1, <3>1, <3>7, <1>a, <1>b, <1>e, RunDeliveryKept DEF reading, committing, TypeOK
      <3> QED BY <2>1, <3>6, <3>7, <1>a, <1>c, <1>d DEF state
    <2> QED BY <2>2, <2>3
  <1>7. ASSUME NEW r \in Runs, LockCursor(r) PROVE Goal
    <2>1. /\ pc[r] = "lock" /\ pc' = [pc EXCEPT ![r] = "write"]
          /\ existing' = [existing EXCEPT ![r] = saved]
          /\ UNCHANGED <<reading, fresh, state, keys, sink>>
      BY <1>7 DEF LockCursor
    <2>2. DeliveredUpTo(existing[r])'
      BY <2>1, <1>a, <1>c DEF DeliveredUpTo, TypeOK
    <2>3. \A p \in Partitions : \A i \in 1..cp'[r][p] : Behind(p, i)' \/ Passed(r, p, i)'
      BY <1>a, <1>b, <2>1 DEF reading, RunDelivery, Passed
    <2>4. RunDelivery(r)'
      BY <2>1, <2>2, <2>3, <1>a, <1>b DEF reading, RunDelivery, Filtered, Written
    <2>5. ASSUME NEW q \in Runs, q # r PROVE RunDelivery(q)'
      BY <2>1, <2>5, <1>a, <1>b, <1>e, RunDeliveryKept DEF reading, TypeOK
    <2> QED BY <2>1, <2>4, <2>5, <1>a, <1>c, <1>d DEF state
  <1>8. ASSUME NEW r \in Runs, CommitSourceCursors(r) PROVE Goal
    <2>1. UNCHANGED <<reading, fresh, committing, keys, sink>> /\ pc[r] = "write"
      BY <1>8 DEF CommitSourceCursors
    <2>2. \A q \in Runs :
            \/ pc'[q] = pc[q] \/ pc'[q] \notin Filtered
            \/ (pc[q] \in Written /\ pc'[q] \in Written)
      BY <1>8 DEF CommitSourceCursors, TypeOK, Filtered, Written
    <2>3. \A q \in Runs : RunDelivery(q)'
      BY <2>1, <2>2, <1>a, <1>b, <1>e, RunDeliveryKept DEF reading, committing
    <2>4. ASSUME NEW p \in Partitions, NEW i \in 1..Merged(r)[p] PROVE Behind(p, i)
      <3>1. i \in 1..cp[r][p] \/ i \in 1..existing[r][p]
        BY DEF Merged
      <3>2. got[r] \subseteq Delivered
        BY <2>1, <1>b DEF RunDelivery, Filtered, Written
      <3>3. Passed(r, p, i) => Behind(p, i)
        BY <3>2 DEF Passed, Behind, LeftOut
      <3> QED BY <3>1, <3>3, <1>b DEF RunDelivery, DeliveredUpTo
    <2>5. DeliveredUpTo(saved)'
      <3>1. CASE saved' = Merged(r)
        BY <3>1, <2>4, <1>a DEF DeliveredUpTo
      <3>2. CASE UNCHANGED saved
        BY <3>2, <1>c, <1>d
      <3> QED BY <1>8, <3>1, <3>2 DEF CommitSourceCursors, state
    <2> QED BY <2>1, <2>3, <2>5, <1>a, <1>c
  <1>9. ASSUME NEW r \in Runs, CommitDedupeKeys(r) PROVE Goal
    <2>1. UNCHANGED <<reading, fresh, committing, state, sink>> /\ pc[r] = "keys"
      BY <1>9 DEF CommitDedupeKeys
    <2>2. \A q \in Runs :
            \/ pc'[q] = pc[q] \/ pc'[q] \notin Filtered
            \/ (pc[q] \in Written /\ pc'[q] \in Written)
      BY <1>9 DEF CommitDedupeKeys, TypeOK, Filtered, Written
    <2>3. \A q \in Runs : RunDelivery(q)'
      BY <2>1, <2>2, <1>a, <1>b, <1>e, RunDeliveryKept DEF reading, committing
    <2>4. keys' \subseteq Delivered
      BY <1>9, <2>1, <1>b, <1>c DEF CommitDedupeKeys, RunDelivery, Written
    <2> QED BY <2>1, <2>3, <2>4, <1>a, <1>c, <1>d DEF state
  <1> QED
    BY <1>1, <1>2, <1>3, <1>4, <1>5, <1>6, <1>7, <1>8, <1>9 DEF Next, RunStep

(* No record behind the saved cursor and none with a stored key is missing *)
(* from the sink, however many runs overlap, fail or repeat their commits, *)
(* but for those a run that began at the end of the topic left out.        *)
THEOREM NothingSkippedAlways == Spec => []NothingSkipped
  <1>1. Spec => []DeliveryInv
    BY TypeInit, TypeNext, DeliveryInit, DeliveryNext, PTL DEF Spec
  <1>2. DeliveryInv => NothingSkipped
    BY DEF DeliveryInv, DeliveredUpTo, Behind, NothingSkipped
  <1> QED BY <1>1, <1>2, PTL

-----------------------------------------------------------------------------
(* The row lock.                                                           *)

LEMMA LockInit == Init => LockInv
  BY DEF Init, LockInv

LEMMA LockNext == TypeOK /\ LockInv /\ [Next]_vars => LockInv'
  <1> SUFFICES ASSUME TypeOK, LockInv, [Next]_vars PROVE LockInv'
    OBVIOUS
  <1>1. ASSUME UNCHANGED <<found, existing, saved>>,
               \A q \in Runs : pc'[q] = "write" => pc[q] = "write"
        PROVE  LockInv'
    BY <1>1 DEF LockInv
  <1>2. CASE UNCHANGED vars
    BY <1>1, <1>2 DEF vars, committing, state
  <1>3. ASSUME NEW p \in Partitions, Produce(p) PROVE LockInv'
    BY <1>1, <1>3 DEF Produce, committing, state
  <1>4. ASSUME NEW r \in Runs,
               \/ StartRun(r) \/ FailRun(r) \/ FilterCrossRunDedupe(r)
               \/ DeliverToSink(r) \/ CommitDedupeKeys(r)
        PROVE  LockInv'
    <2>1. UNCHANGED <<found, existing, saved>>
      BY <1>4 DEF StartRun, FailRun, FilterCrossRunDedupe, DeliverToSink, CommitDedupeKeys,
                  committing, state
    <2>2. \A q \in Runs : pc'[q] = "write" => pc[q] = "write"
      BY <1>4 DEF StartRun, FailRun, FilterCrossRunDedupe, DeliverToSink, CommitDedupeKeys, TypeOK
    <2> QED BY <1>1, <2>1, <2>2
  <1>5. ASSUME NEW r \in Runs, FetchSourcePage(r) PROVE LockInv'
    <2>1. PICK number, more : pc' = [pc EXCEPT ![r] = AfterPage(number, more)]
      BY <1>5 DEF FetchSourcePage
    <2>2. \A q \in Runs : pc'[q] = "write" => pc[q] = "write"
      BY <2>1 DEF AfterPage, TypeOK
    <2> QED BY <1>1, <1>5, <2>2 DEF FetchSourcePage, committing, state
  <1>6. ASSUME NEW r \in Runs, LockCursor(r) PROVE LockInv'
    BY <1>6 DEF LockCursor, RowLocked, LockInv, TypeOK, state
  <1>7. ASSUME NEW r \in Runs, CommitSourceCursors(r) PROVE LockInv'
    <2>1. \A q \in Runs : pc'[q] = "write" => pc[q] = "write" /\ q # r
      BY <1>7 DEF CommitSourceCursors, TypeOK
    <2>2. \A q \in Runs : q # r => ~(pc[q] = "write" /\ found[q])
      BY <1>7 DEF CommitSourceCursors, RowLocked, LockInv
    <2> QED BY <1>7, <2>1, <2>2 DEF CommitSourceCursors, committing, LockInv
  <1> QED BY <1>2, <1>3, <1>4, <1>5, <1>6, <1>7 DEF Next, RunStep

(* A commit that holds the row lock never moves a saved offset back.       *)
THEOREM OffsetsOnlyAdvance == Spec => OffsetsMoveForward
  <1> DEFINE Forward ==
        \A p \in Partitions : saved'[p] >= saved[p] \/ \E r \in Runs : pc[r] = "write" /\ ~found[r]
  <1>1. TypeOK /\ LockInv /\ [Next]_vars => [Forward]_vars
    <2> SUFFICES ASSUME TypeOK, LockInv, [Next]_vars, NEW p \in Partitions
                 PROVE  saved'[p] >= saved[p] \/ \E r \in Runs : pc[r] = "write" /\ ~found[r]
      OBVIOUS
    <2>1. saved[p] \in Int
      BY LimitsAssumption DEF TypeOK, Positions
    <2>2. CASE UNCHANGED saved
      BY <2>1, <2>2
    <2>3. ASSUME NEW r \in Runs, CommitSourceCursors(r), saved' = Merged(r)
          PROVE  saved'[p] >= saved[p] \/ (pc[r] = "write" /\ ~found[r])
      <3>1. pc[r] = "write"
        BY <2>3 DEF CommitSourceCursors
      <3>2. CASE found[r]
        <4>1. existing[r] = saved
          BY <3>1, <3>2 DEF LockInv
        <4>2. cp[r][p] \in Int
          BY LimitsAssumption DEF TypeOK, Positions
        <4> QED BY <2>1, <2>3, <4>1, <4>2 DEF Merged
      <3> QED BY <3>1, <3>2
    <2>4. CASE UNCHANGED vars
      BY <2>2, <2>4 DEF vars, state
    <2>5. ASSUME NEW q \in Partitions, Produce(q) PROVE UNCHANGED saved
      BY <2>5 DEF Produce, state
    <2>6. ASSUME NEW r \in Runs, RunStep(r)
          PROVE  UNCHANGED saved \/ (CommitSourceCursors(r) /\ saved' = Merged(r))
      BY <2>6 DEF RunStep, StartRun, FailRun, FetchSourcePage, FilterCrossRunDedupe, DeliverToSink,
                  LockCursor, CommitSourceCursors, CommitDedupeKeys, state
    <2> QED BY <2>2, <2>3, <2>4, <2>5, <2>6 DEF Next
  <1>2. Spec => []LockInv
    BY IngestionTypeCorrect, LockInit, LockNext, PTL DEF Spec
  <1> QED BY <1>1, <1>2, IngestionTypeCorrect, PTL DEF Spec, OffsetsMoveForward
-----------------------------------------------------------------------------
(* Keys.                                                                   *)

LEMMA KeyInit == Init => KeyInv
  BY DEF Init, KeyInv, Ran, Active

(* What a step may do without disturbing what runs know of each other.     *)
Undisturbed ==
  /\ dedupe' = dedupe /\ met \subseteq met' /\ keys \subseteq keys' /\ fresh' = fresh
  /\ \A q \in Runs : pc[q] = "done" => pc'[q] = "done"

Apart(r, q) == <<r, q>> \in met \/ <<q, r>> \in met \/ Precedes(r, q) \/ Precedes(q, r)

LEMMA ApartKept ==
  ASSUME Undisturbed, NEW r \in Runs, NEW q \in Runs, Apart(r, q)
  PROVE  Apart(r, q)'
  BY DEF Undisturbed, Apart, Precedes

LEMMA KeyNext == TypeOK /\ KeyInv /\ [Next]_vars => KeyInv'
  <1> SUFFICES ASSUME TypeOK, KeyInv, [Next]_vars PROVE KeyInv'
    OBVIOUS
  <1> DEFINE InSink == \A r \in Runs : \A x \in Records : <<r, x>> \in sink => x \in fresh[r]
             NoneYet == \A r \in Runs : pc[r] \in {"idle", "fetch", "filter"} => fresh[r] = {}
             Stored == \A r \in Runs : dedupe /\ pc[r] = "done" => fresh[r] \subseteq keys
             Related == dedupe => \A r, q \in Runs : r # q /\ Ran(r) /\ Ran(q) => Apart(r, q)
  <1>a. InSink /\ NoneYet /\ Stored /\ Related
    BY DEF KeyInv, Apart
  <1> SUFFICES InSink' /\ NoneYet' /\ Stored' /\ Related'
    BY DEF KeyInv, Apart
  <1>b. ASSUME Undisturbed, \A q \in Runs : Ran(q)' => Ran(q) PROVE Related'
    BY <1>a, <1>b, ApartKept DEF Undisturbed
  <1>1. CASE UNCHANGED vars
    <2>1. Undisturbed /\ UNCHANGED <<pc, fresh, keys, sink, dedupe>>
      BY <1>1 DEF vars, source, Undisturbed
    <2>2. \A q \in Runs : Ran(q)' => Ran(q)
      BY <2>1 DEF Ran
    <2>3. InSink' /\ NoneYet' /\ Stored'
      BY <1>a, <2>1
    <2> QED BY <1>b, <2>1, <2>2, <2>3
  <1>2. ASSUME NEW p \in Partitions, Produce(p) PROVE InSink' /\ NoneYet' /\ Stored' /\ Related'
    <2>1. Undisturbed /\ UNCHANGED <<pc, fresh, keys, sink, dedupe>>
      BY <1>2 DEF Produce, Undisturbed
    <2>2. \A q \in Runs : Ran(q)' => Ran(q)
      BY <2>1 DEF Ran
    <2>3. InSink' /\ NoneYet' /\ Stored'
      BY <1>a, <2>1
    <2> QED BY <1>b, <2>1, <2>2, <2>3
  <1>3. ASSUME NEW r \in Runs, StartRun(r) PROVE InSink' /\ NoneYet' /\ Stored' /\ Related'
    <2>1. /\ pc[r] = "idle" /\ pc' = [pc EXCEPT ![r] = "fetch"]
          /\ met' = met \cup {<<r, q>> : q \in {q \in Runs : pc[q] \in Active}}
          /\ UNCHANGED <<fresh, keys, sink, dedupe>>
      BY <1>3 DEF StartRun, source
    <2>2. InSink' /\ NoneYet' /\ Stored'
      BY <1>a, <2>1 DEF TypeOK
    <2>3. Undisturbed
      BY <2>1 DEF Undisturbed, TypeOK
    <2>4. ASSUME dedupe, NEW q \in Runs, q # r, Ran(q) PROVE Apart(r, q)'
      <3>1. CASE pc[q] \in Active
        BY <2>1, <3>1 DEF Apart
      <3>2. CASE pc[q] = "done"
        BY <1>a, <2>1, <2>4, <3>2 DEF Apart, Precedes, TypeOK
      <3> QED BY <2>4, <3>1, <3>2 DEF Ran
    <2>5. \A q \in Runs : q # r => (Ran(q)' <=> Ran(q))
      BY <2>1 DEF Ran, TypeOK
    <2>6. ASSUME dedupe', NEW q \in Runs, NEW s \in Runs, q # s, Ran(q)', Ran(s)' PROVE Apart(q, s)'
      <3>1. CASE q = r
        BY <2>1, <2>4, <2>5, <2>6, <3>1
      <3>2. CASE s = r
        BY <2>1, <2>4, <2>5, <2>6, <3>2 DEF Apart
      <3>3. CASE q # r /\ s # r
        BY <1>a, <2>1, <2>3, <2>5, <2>6, <3>3, ApartKept
      <3> QED BY <3>1, <3>2, <3>3
    <2> QED BY <2>2, <2>6
  <1>4. ASSUME NEW r \in Runs, FailRun(r) \/ LockCursor(r) \/ CommitSourceCursors(r)
        PROVE  InSink' /\ NoneYet' /\ Stored' /\ Related'
    <2>1. /\ UNCHANGED <<fresh, keys, sink, dedupe, met>>
          /\ pc[r] \in Active
          /\ \E next \in {"failed", "lock", "write", "keys"} : pc' = [pc EXCEPT ![r] = next]
      BY <1>4 DEF FailRun, LockCursor, CommitSourceCursors, Active, source
    <2>2. InSink' /\ NoneYet' /\ Stored'
      BY <1>a, <2>1 DEF TypeOK
    <2>3. Undisturbed
      BY <2>1 DEF Undisturbed, TypeOK, Active
    <2>4. \A q \in Runs : Ran(q)' => Ran(q)
      BY <2>1 DEF Ran, TypeOK
    <2> QED BY <1>b, <2>2, <2>3, <2>4
  <1>5. ASSUME NEW r \in Runs, FetchSourcePage(r) PROVE InSink' /\ NoneYet' /\ Stored' /\ Related'
    <2>1. PICK number, more : pc' = [pc EXCEPT ![r] = AfterPage(number, more)]
      BY <1>5 DEF FetchSourcePage
    <2>2. pc[r] = "fetch" /\ UNCHANGED <<fresh, keys, sink, dedupe, met>>
      BY <1>5 DEF FetchSourcePage, source
    <2>3. pc'[r] \in {"failed", "fetch", "filter"}
      BY <2>1 DEF AfterPage, TypeOK
    <2>4. \A q \in Runs : q # r => pc'[q] = pc[q]
      BY <2>1 DEF TypeOK
    <2>5. InSink' /\ NoneYet' /\ Stored'
      BY <1>a, <2>2, <2>3, <2>4
    <2>6. Undisturbed
      BY <2>2, <2>4 DEF Undisturbed
    <2>7. \A q \in Runs : Ran(q)' => Ran(q)
      BY <2>2, <2>4 DEF Ran, Active
    <2> QED BY <1>b, <2>5, <2>6, <2>7
  <1>6. ASSUME NEW r \in Runs, FilterCrossRunDedupe(r) PROVE InSink' /\ NoneYet' /\ Stored' /\ Related'
    <2>1. /\ pc[r] = "filter" /\ pc' = [pc EXCEPT ![r] = "sink"]
          /\ fresh' = [fresh EXCEPT ![r] = Fresh(r)]
          /\ UNCHANGED <<keys, sink, dedupe, met>>
      BY <1>6 DEF FilterCrossRunDedupe, source
    <2>2. fresh[r] = {}
      BY <1>a, <2>1
    <2>3. InSink' /\ NoneYet' /\ Stored'
      BY <1>a, <2>1, <2>2 DEF TypeOK
    <2>4. ASSUME dedupe, NEW q \in Runs, q # r, Ran(q) PROVE Apart(r, q)' /\ Apart(q, r)'
      <3>1. Apart(r, q) /\ ~Precedes(r, q)
        BY <1>a, <2>1, <2>4 DEF Ran, Active, Precedes
      <3>2. CASE <<r, q>> \in met \/ <<q, r>> \in met
        BY <2>1, <3>2 DEF Apart
      <3>3. CASE Precedes(q, r)
        <4>1. fresh'[r] \cap keys = {} /\ fresh'[q] = fresh[q] /\ pc'[q] = pc[q]
          BY <2>1, <2>4 DEF Fresh, TypeOK
        <4>2. Precedes(q, r)'
          BY <2>1, <3>3, <4>1 DEF Precedes
        <4> QED BY <4>2 DEF Apart
      <3> QED BY <3>1, <3>2, <3>3 DEF Apart
    <2>5. \A q \in Runs : Ran(q)' <=> Ran(q)
      BY <2>1 DEF Ran, Active, TypeOK
    <2>6. ASSUME dedupe', NEW q \in Runs, NEW s \in Runs, q # s, Ran(q)', Ran(s)' PROVE Apart(q, s)'
      <3>1. CASE q = r \/ s = r
        BY <2>1, <2>4, <2>5, <2>6, <3>1
      <3>2. CASE q # r /\ s # r
        <4>1. Apart(q, s)
          BY <1>a, <2>1, <2>5, <2>6
        <4>2. fresh'[q] = fresh[q] /\ fresh'[s] = fresh[s] /\ pc'[q] = pc[q] /\ pc'[s] = pc[s]
          BY <2>1, <3>2 DEF TypeOK
        <4> QED BY <2>1, <4>1, <4>2 DEF Apart, Precedes
      <3> QED BY <3>1, <3>2
    <2> QED BY <2>3, <2>6
  <1>7. ASSUME NEW r \in Runs, DeliverToSink(r) PROVE InSink' /\ NoneYet' /\ Stored' /\ Related'
    <2>1. /\ pc[r] = "sink" /\ UNCHANGED <<fresh, keys, dedupe, met>>
          /\ \E next \in {"lock", "failed"} : pc' = [pc EXCEPT ![r] = next]
          /\ \E some \in SUBSET fresh[r] : sink' = sink \cup ({r} \X some)
      BY <1>7 DEF DeliverToSink, source
    <2>2. InSink'
      BY <1>a, <2>1
    <2>3. NoneYet' /\ Stored'
      BY <1>a, <2>1 DEF TypeOK
    <2>4. Undisturbed
      BY <2>1 DEF Undisturbed, TypeOK
    <2>5. \A q \in Runs : Ran(q)' => Ran(q)
      BY <2>1 DEF Ran, Active, TypeOK
    <2> QED BY <1>b, <2>2, <2>3, <2>4, <2>5
  <1>8. ASSUME NEW r \in Runs, CommitDedupeKeys(r) PROVE InSink' /\ NoneYet' /\ Stored' /\ Related'
    <2>1. /\ pc[r] = "keys" /\ UNCHANGED <<fresh, sink, dedupe, met>>
          /\ \E next \in {"done", "failed"} : pc' = [pc EXCEPT ![r] = next]
          /\ keys \subseteq keys' /\ (dedupe => fresh[r] \subseteq keys')
      BY <1>8 DEF CommitDedupeKeys, source
    <2>2. InSink' /\ NoneYet' /\ Stored'
      BY <1>a, <2>1 DEF TypeOK
    <2>3. Undisturbed
      BY <2>1 DEF Undisturbed, TypeOK
    <2>4. \A q \in Runs : Ran(q)' => Ran(q)
      BY <2>1 DEF Ran, Active, TypeOK
    <2> QED BY <1>b, <2>2, <2>3, <2>4
  <1> QED BY <1>1, <1>2, <1>3, <1>4, <1>5, <1>6, <1>7, <1>8 DEF Next, RunStep

(* A record is in the sink twice only after a failure or an overlap.       *)
THEOREM DuplicatesHaveCause == Spec => []DuplicateHasCause
  <1>1. Spec => []KeyInv
    BY IngestionTypeCorrect, KeyInit, KeyNext, PTL DEF Spec
  <1>2. TypeOK /\ KeyInv => DuplicateHasCause
    <2> SUFFICES ASSUME TypeOK, KeyInv, dedupe, NEW r \in Runs, NEW q \in Runs, NEW x \in Records,
                        r # q, <<r, x>> \in sink, <<q, x>> \in sink, pc[r] # "failed", pc[q] # "failed"
                 PROVE  <<r, q>> \in met \/ <<q, r>> \in met
      BY DEF DuplicateHasCause
    <2>1. x \in fresh[r] /\ x \in fresh[q]
      BY DEF KeyInv
    <2>2. pc[r] # "idle" /\ pc[q] # "idle"
      BY <2>1 DEF KeyInv
    <2>3. Ran(r) /\ Ran(q)
      BY <2>2 DEF Ran, TypeOK
    <2>4. ~Precedes(r, q) /\ ~Precedes(q, r)
      BY <2>1 DEF Precedes
    <2> QED BY <2>3, <2>4 DEF KeyInv
  <1> QED BY <1>1, <1>2, IngestionTypeCorrect, PTL
=============================================================================
