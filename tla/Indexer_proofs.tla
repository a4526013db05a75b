---------------------------- MODULE Indexer_proofs ----------------------------
(***************************************************************************)
(* Proofs about Indexer, and about LedgerStats beside it, for any          *)
(* processes, ranges, flags, histories and ledgers asked for.              *)
(***************************************************************************)
EXTENDS LedgerStats, TLAPS

(* The table only grows, and so does the archive. *)
Grows == stored \subseteq stored' /\ tip <= tip'

(* What a backfill knows at each point of its loop: everything before      *)
(* `next` is in the table, a batch that joined without an error has        *)
(* fetched all its ledgers, and one that was saved is in the table.        *)
BackfillLocal(b) ==
  /\ pc[b] \in {"fetch", "save", "mark", "sleep"} =>
       next[b] \in First[b]..Last[b] /\ RangePersisted(First[b], next[b] - 1)
  /\ pc[b] = "start" => fetched[b] = {}
  /\ pc[b] = "fetch" => fetched[b] \subseteq Batch(b)
  /\ pc[b] = "save" => fetched[b] = Batch(b)
  /\ pc[b] = "mark" => RangePersisted(First[b], BatchEnd(b))
  /\ pc[b] = "done" => RangePersisted(First[b], Last[b])

(* A worker only saves a ledger the archive has. *)
FollowLocal(p) == pc[p] = "save" => next[p] \in 1..tip

IInv ==
  /\ TypeOK
  /\ RangeCheckpointSound
  /\ \A b \in Backfiller : BackfillLocal(b)
  /\ \A p \in Follower : FollowLocal(p)

-----------------------------------------------------------------------------
(* A range that is in the table stays in it: rows are never deleted. *)
LEMMA RangeGrows ==
  ASSUME NEW lo, NEW hi, Grows, RangePersisted(lo, hi)
  PROVE  RangePersisted(lo, hi)'
BY DEF Grows, RangePersisted, Persisted

(* A step of another process cannot disturb what a backfill knows. *)
LEMMA LocalFrame ==
  ASSUME TypeOK, NEW b \in Backfiller, BackfillLocal(b), Grows, tip' \in Nat,
         pc'[b] = pc[b], next'[b] = next[b], fetched'[b] = fetched[b]
  PROVE  BackfillLocal(b)'
<1>1. fetched'[b] \subseteq 1..tip'
  BY DEF BackfillLocal, Grows, TypeOK
<1>2. BatchEnd(b)' = BatchEnd(b) /\ Batch(b)' = Batch(b)
  BY DEF BatchEnd, Batch
<1>3. QED
  BY <1>1, <1>2, RangeGrows DEF BackfillLocal

(* Nor what a worker knows. *)
LEMMA FollowFrame ==
  ASSUME TypeOK, NEW p \in Follower, FollowLocal(p), Grows, tip' \in Nat,
         pc'[p] = pc[p], next'[p] = next[p]
  PROVE  FollowLocal(p)'
BY DEF FollowLocal, Grows, TypeOK

(* Nor a checkpoint that stays where it is. *)
LEMMA MarkFrame ==
  ASSUME RangeCheckpointSound, Grows, mark' = mark
  PROVE  RangeCheckpointSound'
BY RangeGrows DEF RangeCheckpointSound

(* A batch begins and ends inside the range of its backfill. *)
LEMMA BatchEndBounds ==
  ASSUME TypeOK, NEW b \in Backfiller
  PROVE  /\ BatchEnd(b) \in Nat
         /\ BatchEnd(b) <= Last[b]
         /\ next[b] >= First[b] => BatchEnd(b) >= First[b]
BY FlagsAssumption DEF TypeOK, BatchEnd, Process

(* The rows a batch saves are rows of the history. *)
LEMMA BatchRows ==
  ASSUME TypeOK, NEW b \in Backfiller, fetched[b] \subseteq 1..tip
  PROVE  UNION {RowsOf[l] : l \in fetched[b]} \subseteq Row
BY RowsAssumption, BoundsAssumption DEF TypeOK

-----------------------------------------------------------------------------
(* Type correctness of each step *)

(* A save keeps rows and checkpoint in their types and deletes nothing. *)
LEMMA SaveLedgerType ==
  ASSUME TypeOK, NEW last \in Nat, NEW rows \in SUBSET Row, Table!SaveLedger(last, rows)
  PROVE  stored' \in SUBSET Row /\ worker' \in Nat /\ stored \subseteq stored'
BY DEF TypeOK, Table!SaveLedger

(* Each step of a worker keeps the types. *)
LEMMA FollowType ==
  ASSUME TypeOK, NEW p \in Follower, FollowLocal(p), FollowStep(p) \/ FollowFault(p)
  PROVE  TypeOK' /\ Grows /\ mark' = mark
<1>p. p \in Process
  BY DEF Process
<1>1. CASE FollowStart(p)
  BY <1>1, <1>p, FlagsAssumption
  DEF TypeOK, Grows, FollowStart, Goto, dbVars, Running, Ended
<1>2. CASE FollowFetch(p)
  BY <1>2, <1>p DEF TypeOK, Grows, FollowFetch, Goto, dbVars, Running, Ended
<1>3. CASE FollowNotYetPublished(p)
  BY <1>3, <1>p DEF TypeOK, Grows, FollowNotYetPublished, Goto, dbVars, Running, Ended
<1>4. CASE FollowError(p)
  BY <1>4, <1>p DEF TypeOK, Grows, FollowError, Fault, Goto, dbVars, Running, Ended
<1>5. ASSUME pc[p] = "save", Table!SaveLedger(next[p], RowsOf[next[p]])
      PROVE  stored' \in SUBSET Row /\ worker' \in Nat /\ stored \subseteq stored'
  <2>1. next[p] \in Nat /\ RowsOf[next[p]] \in SUBSET Row
    BY <1>5, <1>p, RowsAssumption, BoundsAssumption DEF FollowLocal, TypeOK
  <2>2. QED
    BY <2>1, <1>5, SaveLedgerType
<1>6. CASE FollowSave(p)
  BY <1>6, <1>5, <1>p DEF TypeOK, Grows, FollowSave, Goto, Running, Ended
<1>7. CASE FollowSaveReplyLost(p)
  BY <1>7, <1>5, <1>p DEF TypeOK, Grows, FollowSaveReplyLost, Fault, Goto, Running, Ended
<1>8. CASE Wake(p)
  BY <1>8, <1>p DEF TypeOK, Grows, Wake, Forget, Goto, dbVars, Running, Ended
<1>9. QED
  BY <1>1, <1>2, <1>3, <1>4, <1>6, <1>7, <1>8 DEF FollowStep, FollowFault

(* Each step of a backfill keeps the types. *)
LEMMA BackfillType ==
  ASSUME TypeOK, NEW b \in Backfiller, BackfillLocal(b), BackfillStep(b) \/ BackfillFault(b)
  PROVE  TypeOK' /\ Grows
<1>p. b \in Process
  BY DEF Process
<1>r. RangeName(b) \in RangeNames /\ mark[RangeName(b)] \in Nat
  BY DEF RangeNames, TypeOK
<1>e. BatchEnd(b) \in Nat
  BY BatchEndBounds
<1>1. CASE BackfillStart(b)
  BY <1>1, <1>p, <1>r, FlagsAssumption
  DEF TypeOK, Grows, BackfillStart, Goto, dbVars, Running, Ended
<1>2. ASSUME NEW l \in Batch(b), BackfillFetch(b, l)
      PROVE  TypeOK' /\ Grows
  <2>1. pc[b] = "fetch" /\ l <= tip /\ tip \in Nat /\ next[b] \in Nat
    BY <1>2, <1>p, BoundsAssumption DEF BackfillFetch, TypeOK
  <2>2. l \in 1..tip
    BY <2>1, <1>e, FlagsAssumption DEF Batch, BackfillLocal
  <2>3. QED
    BY <1>2, <2>2 DEF TypeOK, Grows, BackfillFetch, dbVars
<1>3. ASSUME NEW l \in Batch(b), BackfillFetchFails(b, l)
      PROVE  TypeOK' /\ Grows
  <2>1. l \in Nat
    BY <1>e, <1>p DEF Batch, TypeOK
  <2>2. faults' \in Nat
    BY <1>3 DEF TypeOK, BackfillFetchFails, Fault
  <2>3. QED
    BY <1>3, <2>1, <2>2 DEF TypeOK, Grows, BackfillFetchFails, dbVars
<1>4. CASE BackfillJoin(b)
  BY <1>4, <1>p DEF TypeOK, Grows, BackfillJoin, Goto, dbVars, Running, Ended
<1>5. ASSUME SaveBatch(b)
      PROVE  stored' \in SUBSET Row /\ worker' \in Nat /\ stored \subseteq stored'
  BY <1>5, <1>e, BatchRows, SaveLedgerType DEF SaveBatch, TypeOK
<1>6. CASE BackfillSave(b)
  BY <1>6, <1>5, <1>p DEF TypeOK, Grows, BackfillSave, Goto, Running, Ended
<1>7. CASE BackfillSaveFails(b)
  <2>1. stored' \in SUBSET Row /\ worker' \in Nat /\ stored \subseteq stored'
    BY <1>7, <1>5 DEF BackfillSaveFails, TypeOK
  <2>2. QED
    BY <1>7, <2>1, <1>p DEF TypeOK, Grows, BackfillSaveFails, Fault, Goto, Running, Ended
<1>8. CASE BackfillMark(b)
  BY <1>8, <1>p, <1>r, <1>e DEF TypeOK, Grows, BackfillMark, Goto, Running, Ended
<1>9. CASE BackfillMarkFails(b)
  BY <1>9, <1>p, <1>r, <1>e DEF TypeOK, Grows, BackfillMarkFails, Fault, Goto, Running, Ended
<1>10. CASE Wake(b)
  BY <1>10, <1>p DEF TypeOK, Grows, Wake, Forget, Goto, dbVars, Running, Ended
<1>11. QED
  BY <1>1, <1>2, <1>3, <1>4, <1>6, <1>7, <1>8, <1>9, <1>10 DEF BackfillStep, BackfillFault

(* So do kills, restarts and the growth of the chain. *)
LEMMA OtherType ==
  ASSUME TypeOK, Publish \/ \E p \in Process : Stop(p) \/ Restart(p)
  PROVE  TypeOK' /\ Grows /\ mark' = mark
<1>1. CASE Publish
  BY <1>1, BoundsAssumption DEF TypeOK, Grows, Publish, dbVars
<1>2. ASSUME NEW p \in Process, Stop(p)
      PROVE  TypeOK' /\ Grows /\ mark' = mark
  BY <1>2 DEF TypeOK, Grows, Stop, Fault, dbVars, Running, Ended
<1>3. ASSUME NEW p \in Process, Restart(p)
      PROVE  TypeOK' /\ Grows /\ mark' = mark
  BY <1>3 DEF TypeOK, Grows, Restart, Forget, dbVars, Running, Ended
<1>4. QED
  BY <1>1, <1>2, <1>3

-----------------------------------------------------------------------------
(* What the acting process knows after each step *)

(* A worker still knows what FollowLocal says after its own step. *)
LEMMA FollowLocalStep ==
  ASSUME TypeOK, NEW p \in Follower, FollowLocal(p), FollowStep(p) \/ FollowFault(p)
  PROVE  FollowLocal(p)'
<1>p. p \in Process
  BY DEF Process
<1>1. CASE FollowFetch(p)
  BY <1>1, <1>p DEF FollowLocal, FollowFetch, Goto, TypeOK
<1>2. CASE FollowStart(p)
  BY <1>2, <1>p DEF FollowLocal, FollowStart, Goto, TypeOK
<1>3. CASE FollowNotYetPublished(p) \/ FollowError(p)
  BY <1>3, <1>p DEF FollowLocal, FollowNotYetPublished, FollowError, Goto, TypeOK
<1>4. CASE FollowSave(p) \/ FollowSaveReplyLost(p)
  BY <1>4, <1>p DEF FollowLocal, FollowSave, FollowSaveReplyLost, Goto, TypeOK
<1>5. CASE Wake(p)
  BY <1>5, <1>p DEF FollowLocal, Wake, Goto, TypeOK
<1>6. QED
  BY <1>1, <1>2, <1>3, <1>4, <1>5 DEF FollowStep, FollowFault

(* A backfill still knows what BackfillLocal says after its own step. *)
LEMMA BackfillLocalStep ==
  ASSUME TypeOK, RangeCheckpointSound, NEW b \in Backfiller, BackfillLocal(b),
         BackfillStep(b) \/ BackfillFault(b)
  PROVE  BackfillLocal(b)' /\ RangeCheckpointSound'
<1>p. b \in Process
  BY DEF Process
<1>r. RangeName(b) \in RangeNames /\ mark[RangeName(b)] \in Nat
  BY DEF RangeNames, TypeOK
<1>f. First[b] \in Nat \ {0} /\ Last[b] \in Nat \ {0} /\ First[b] <= Last[b]
  BY FlagsAssumption
<1>e. /\ BatchEnd(b) \in Nat
      /\ BatchEnd(b) <= Last[b]
      /\ next[b] >= First[b] => BatchEnd(b) >= First[b]
  BY BatchEndBounds
<1>g. TypeOK' /\ Grows
  BY BackfillType
<1>n. next[b] \in Nat /\ tip \in Nat /\ tip' \in Nat
  BY <1>p, <1>g, BoundsAssumption DEF TypeOK
<1>m. mark' = mark => RangeCheckpointSound'
  BY <1>g, MarkFrame
<1>b. next'[b] = next[b] => (BatchEnd(b)' = BatchEnd(b) /\ Batch(b)' = Batch(b))
  BY DEF BatchEnd, Batch
<1>1. CASE BackfillStart(b)
  <2>1. PICK from \in Nat :
          /\ from = IF mark[RangeName(b)] >= First[b] THEN mark[RangeName(b)] + 1 ELSE First[b]
          /\ next'[b] = from /\ fetched' = fetched /\ mark' = mark /\ tip' = tip
          /\ pc[b] = "start" /\ pc'[b] = IF from > Last[b] THEN "done" ELSE "fetch"
    BY <1>1, <1>p, <1>r, <1>f DEF BackfillStart, Goto, TypeOK, dbVars
  <2>2. RangePersisted(First[b], from - 1) /\ from >= First[b]
    BY <2>1, <1>r, <1>f DEF RangeCheckpointSound, RangePersisted
  <2>3. RangePersisted(First[b], from - 1)'
    BY <2>2, <1>g, RangeGrows
  <2>4. from > Last[b] => RangePersisted(First[b], Last[b])'
    BY <2>1, <2>3, <1>f DEF RangePersisted
  <2>5. fetched'[b] = {}
    BY <2>1 DEF BackfillLocal
  <2>6. BackfillLocal(b)'
    BY <2>1, <2>2, <2>3, <2>4, <2>5, <1>f, SMTT(30) DEF BackfillLocal
  <2>7. QED
    BY <2>1, <2>6, <1>m
<1>2. ASSUME NEW l \in Batch(b), BackfillFetch(b, l) \/ BackfillFetchFails(b, l)
      PROVE  BackfillLocal(b)' /\ RangeCheckpointSound'
  <2>1. pc[b] = "fetch" /\ pc' = pc /\ next' = next /\ mark' = mark /\ tip' = tip
    BY <1>2 DEF BackfillFetch, BackfillFetchFails, dbVars
  <2>2. l \in 1..tip \/ fetched' = fetched
    BY <1>2, <2>1, <1>e, <1>f, <1>n DEF BackfillFetch, BackfillFetchFails, BackfillLocal, Batch
  <2>3. fetched'[b] \subseteq 1..tip'
    BY <1>2, <2>1, <2>2 DEF BackfillFetch, BackfillFetchFails, BackfillLocal, TypeOK
  <2>4. fetched'[b] \subseteq Batch(b)'
    BY <1>2, <2>1, <1>b DEF BackfillFetch, BackfillFetchFails, BackfillLocal, TypeOK
  <2>5. BackfillLocal(b)'
    BY <2>1, <2>3, <2>4, <1>g, RangeGrows DEF BackfillLocal
  <2>6. QED
    BY <2>1, <2>5, <1>m
<1>3. CASE BackfillJoin(b)
  <2>1. /\ pc[b] = "fetch" /\ next' = next /\ fetched' = fetched /\ mark' = mark /\ tip' = tip
        /\ pc'[b] = IF failed[b] = {} THEN "save" ELSE "sleep"
        /\ Batch(b) \subseteq fetched[b] \cup failed[b]
    BY <1>3, <1>p DEF BackfillJoin, Goto, TypeOK, dbVars
  <2>2. BackfillLocal(b)'
    BY <2>1, <1>b, <1>g, RangeGrows DEF BackfillLocal
  <2>3. QED
    BY <2>1, <2>2, <1>m
<1>4. ASSUME pc[b] = "save", SaveBatch(b), next'[b] = next[b]
      PROVE  RangePersisted(First[b], BatchEnd(b))'
  <2>1. stored' = stored \cup UNION {RowsOf[l] : l \in fetched[b]}
    BY <1>4 DEF SaveBatch, Table!SaveLedger
  <2>2. ASSUME NEW l \in First[b]..BatchEnd(b)
        PROVE  RowsOf[l] \subseteq stored'
    <3>1. CASE l < next[b]
      BY <3>1, <2>1, <1>4, <1>n, <1>f DEF BackfillLocal, RangePersisted, Persisted
    <3>2. CASE l >= next[b]
      BY <3>2, <2>1, <1>4, <1>n, <1>f, <1>e DEF BackfillLocal, Batch
    <3>3. QED
      BY <3>1, <3>2, <1>n, <1>e, <1>f
  <2>3. QED
    BY <2>2, <1>4, <1>b DEF RangePersisted, Persisted
<1>5. CASE BackfillSave(b)
  <2>1. /\ pc[b] = "save" /\ pc'[b] = "mark" /\ SaveBatch(b)
        /\ next' = next /\ fetched' = fetched /\ mark' = mark /\ tip' = tip
    BY <1>5, <1>p DEF BackfillSave, Goto, TypeOK
  <2>2. BackfillLocal(b)'
    BY <2>1, <1>4, <1>g, RangeGrows DEF BackfillLocal
  <2>3. QED
    BY <2>1, <2>2, <1>m
<1>6. CASE BackfillSaveFails(b)
  <2>1. /\ pc[b] = "save" /\ pc'[b] = "sleep"
        /\ next' = next /\ fetched' = fetched /\ mark' = mark /\ tip' = tip
    BY <1>6, <1>p DEF BackfillSaveFails, Goto, TypeOK
  <2>2. BackfillLocal(b)'
    BY <2>1, <1>g, RangeGrows DEF BackfillLocal
  <2>3. QED
    BY <2>1, <2>2, <1>m
<1>7. CASE BackfillMark(b)
  <2>1. /\ pc[b] = "mark" /\ pc'[b] = (IF BatchEnd(b) = Last[b] THEN "done" ELSE "fetch")
        /\ next'[b] = BatchEnd(b) + 1 /\ fetched'[b] = {} /\ stored' = stored
        /\ mark' = [mark EXCEPT ![RangeName(b)] = BatchEnd(b)]
    BY <1>7, <1>p DEF BackfillMark, Goto, TypeOK
  <2>2. RangePersisted(First[b], BatchEnd(b)) /\ next[b] >= First[b]
    BY <2>1 DEF BackfillLocal
  <2>3. RangePersisted(First[b], next[b] - 1)'
    BY <2>1, <2>2, <1>e DEF RangePersisted, Persisted
  <2>4. BatchEnd(b) = Last[b] => RangePersisted(First[b], Last[b])'
    BY <2>1, <2>2 DEF RangePersisted, Persisted
  <2>5. BackfillLocal(b)'
    BY <2>1, <2>2, <2>3, <2>4, <1>e, <1>f DEF BackfillLocal
  <2>6. RangeCheckpointSound'
    <3>1. ASSUME NEW c \in Backfiller
          PROVE  RangePersisted(First[c], mark[RangeName(c)])'
      <4>1. CASE RangeName(c) = RangeName(b)
        <5>1. First[c] = First[b] /\ mark'[RangeName(c)] = BatchEnd(b)
          BY <4>1, <2>1, <1>r DEF RangeName, TypeOK
        <5>2. QED
          BY <5>1, <2>1, <2>2 DEF RangePersisted, Persisted
      <4>2. CASE RangeName(c) # RangeName(b)
        <5>1. mark'[RangeName(c)] = mark[RangeName(c)]
          BY <4>2, <2>1 DEF RangeNames, TypeOK
        <5>2. QED
          BY <5>1, <2>1 DEF RangeCheckpointSound, RangePersisted, Persisted
      <4>3. QED
        BY <4>1, <4>2
    <3>2. QED
      BY <3>1 DEF RangeCheckpointSound
  <2>7. QED
    BY <2>5, <2>6
<1>8. CASE BackfillMarkFails(b)
  <2>1. /\ pc[b] = "mark" /\ pc'[b] = "exited" /\ stored' = stored /\ fetched' = fetched
        /\ mark' = mark \/ mark' = [mark EXCEPT ![RangeName(b)] = BatchEnd(b)]
        /\ tip' = tip
    BY <1>8, <1>p DEF BackfillMarkFails, Goto, TypeOK
  <2>2. RangePersisted(First[b], BatchEnd(b))
    BY <2>1 DEF BackfillLocal
  <2>3. BackfillLocal(b)'
    BY <2>1 DEF BackfillLocal
  <2>4. ASSUME mark' # mark, NEW c \in Backfiller
        PROVE  RangePersisted(First[c], mark[RangeName(c)])'
    <3>1. CASE RangeName(c) = RangeName(b)
      <4>1. First[c] = First[b] /\ mark'[RangeName(c)] = BatchEnd(b)
        BY <3>1, <2>1, <2>4, <1>r DEF RangeName, TypeOK
      <4>2. QED
        BY <4>1, <2>1, <2>2 DEF RangePersisted, Persisted
    <3>2. CASE RangeName(c) # RangeName(b)
      <4>1. mark'[RangeName(c)] = mark[RangeName(c)]
        BY <3>2, <2>1 DEF RangeNames, TypeOK
      <4>2. QED
        BY <4>1, <2>1 DEF RangeCheckpointSound, RangePersisted, Persisted
    <3>3. QED
      BY <3>1, <3>2
  <2>5. QED
    BY <2>3, <2>4, <1>m DEF RangeCheckpointSound
<1>9. CASE Wake(b)
  <2>1. /\ pc[b] = "sleep" /\ pc'[b] = "fetch" /\ next' = next /\ mark' = mark
        /\ fetched'[b] = {} /\ tip' = tip
    BY <1>9, <1>p DEF Wake, Goto, Forget, TypeOK, dbVars
  <2>2. BackfillLocal(b)'
    BY <2>1, <1>g, RangeGrows DEF BackfillLocal
  <2>3. QED
    BY <2>1, <2>2, <1>m
<1>10. QED
  BY <1>1, <1>2, <1>3, <1>5, <1>6, <1>7, <1>8, <1>9 DEF BackfillStep, BackfillFault

-----------------------------------------------------------------------------
(* The inductive invariant *)

(* The invariant holds before any process has started. *)
LEMMA IInvInit == Init => IInv
<1>1. SUFFICES ASSUME Init PROVE IInv
  OBVIOUS
<1>2. TypeOK
  BY <1>1, BoundsAssumption DEF Init, TypeOK, Running
<1>3. RangeCheckpointSound
  <2>1. SUFFICES ASSUME NEW b \in Backfiller PROVE RangePersisted(First[b], mark[RangeName(b)])
    BY DEF RangeCheckpointSound
  <2>2. mark[RangeName(b)] = 0
    BY <1>1 DEF Init, RangeNames
  <2>3. First[b] \in Nat \ {0}
    BY FlagsAssumption
  <2>4. QED
    BY <2>2, <2>3 DEF RangePersisted
<1>4. ASSUME NEW b \in Backfiller PROVE BackfillLocal(b)
  BY <1>1 DEF Init, BackfillLocal, Process
<1>5. ASSUME NEW p \in Follower PROVE FollowLocal(p)
  BY <1>1 DEF Init, FollowLocal, Process
<1>6. QED
  BY <1>2, <1>3, <1>4, <1>5 DEF IInv

(* A step changes the loop state of one process only. *)
LEMMA OneProcessMoves ==
  ASSUME TypeOK, NEW p \in Process, NEW q \in Process, q # p,
         \/ p \in Follower /\ (FollowStep(p) \/ FollowFault(p))
         \/ p \in Backfiller /\ (BackfillStep(p) \/ BackfillFault(p))
         \/ Stop(p)
         \/ Restart(p)
  PROVE  /\ pc'[q] = pc[q] /\ next'[q] = next[q]
         /\ q \in Backfiller => fetched'[q] = fetched[q]
<1>1. CASE Stop(p) \/ Restart(p) \/ Wake(p)
  BY <1>1 DEF TypeOK, Stop, Restart, Wake, Forget, Goto
<1>2. CASE p \in Follower /\ (FollowStep(p) \/ FollowFault(p))
  BY <1>1, <1>2 DEF TypeOK, FollowStep, FollowFault, FollowStart, FollowFetch,
     FollowNotYetPublished, FollowError, FollowSave, FollowSaveReplyLost, Goto
<1>3. CASE p \in Backfiller /\ (BackfillStep(p) \/ BackfillFault(p))
  BY <1>1, <1>3 DEF TypeOK, BackfillStep, BackfillFault, BackfillStart, BackfillFetch,
     BackfillFetchFails, BackfillJoin, BackfillSave, BackfillSaveFails, BackfillMark,
     BackfillMarkFails, Goto
<1>4. QED
  BY <1>1, <1>2, <1>3

(* Every step of every process preserves it. *)
LEMMA IInvStep == IInv /\ [Next]_vars => IInv'
<1>1. SUFFICES ASSUME IInv, [Next]_vars PROVE IInv'
  OBVIOUS
<1>t. TypeOK /\ RangeCheckpointSound
  BY <1>1 DEF IInv
<1>2. CASE Publish
  <2>1. TypeOK' /\ Grows /\ mark' = mark /\ pc' = pc /\ next' = next /\ fetched' = fetched
    BY <1>2, <1>t, OtherType DEF Publish
  <2>2. QED
    BY <2>1, <1>1, LocalFrame, FollowFrame, MarkFrame DEF IInv, TypeOK
<1>3. ASSUME NEW p \in Process, Stop(p) \/ Restart(p)
      PROVE  IInv'
  <2>1. TypeOK' /\ Grows /\ mark' = mark
    BY <1>3, <1>t, OtherType
  <2>2. ASSUME NEW b \in Backfiller PROVE BackfillLocal(b)'
    <3>1. CASE b # p
      BY <3>1, <2>1, <1>1, <1>3, OneProcessMoves, LocalFrame DEF IInv, Process, TypeOK
    <3>2. CASE b = p
      BY <3>2, <2>1, <1>1, <1>3 DEF IInv, BackfillLocal, Stop, Restart, Forget, dbVars, TypeOK
    <3>3. QED
      BY <3>1, <3>2
  <2>3. ASSUME NEW f \in Follower PROVE FollowLocal(f)'
    <3>1. CASE f # p
      BY <3>1, <2>1, <1>1, <1>3, OneProcessMoves, FollowFrame DEF IInv, Process, TypeOK
    <3>2. CASE f = p
      BY <3>2, <1>3, <1>t DEF FollowLocal, Stop, Restart, TypeOK
    <3>3. QED
      BY <3>1, <3>2
  <2>4. QED
    BY <2>1, <2>2, <2>3, <1>t, MarkFrame DEF IInv
<1>4. ASSUME NEW p \in Follower, FollowStep(p) \/ FollowFault(p)
      PROVE  IInv'
  <2>1. TypeOK' /\ Grows /\ mark' = mark /\ FollowLocal(p)'
    BY <1>1, <1>4, FollowType, FollowLocalStep DEF IInv
  <2>2. ASSUME NEW b \in Backfiller PROVE BackfillLocal(b)'
    BY <2>1, <1>1, <1>4, ProcessAssumption, OneProcessMoves, LocalFrame DEF IInv, Process, TypeOK
  <2>3. ASSUME NEW f \in Follower, f # p PROVE FollowLocal(f)'
    BY <2>1, <2>3, <1>1, <1>4, OneProcessMoves, FollowFrame DEF IInv, Process, TypeOK
  <2>4. QED
    BY <2>1, <2>2, <2>3, <1>t, MarkFrame DEF IInv
<1>5. ASSUME NEW p \in Backfiller, BackfillStep(p) \/ BackfillFault(p)
      PROVE  IInv'
  <2>1. TypeOK' /\ Grows /\ BackfillLocal(p)' /\ RangeCheckpointSound'
    BY <1>1, <1>5, BackfillType, BackfillLocalStep DEF IInv
  <2>2. ASSUME NEW b \in Backfiller, b # p PROVE BackfillLocal(b)'
    BY <2>1, <2>2, <1>1, <1>5, OneProcessMoves, LocalFrame DEF IInv, Process, TypeOK
  <2>3. ASSUME NEW f \in Follower PROVE FollowLocal(f)'
    BY <2>1, <1>1, <1>5, ProcessAssumption, OneProcessMoves, FollowFrame DEF IInv, Process, TypeOK
  <2>4. QED
    BY <2>1, <2>2, <2>3 DEF IInv
<1>6. CASE UNCHANGED vars
  <2>1. /\ stored' = stored /\ tip' = tip /\ mark' = mark /\ pc' = pc /\ next' = next
        /\ fetched' = fetched /\ TypeOK'
    BY <1>6, <1>t DEF vars, dbVars, TypeOK
  <2>2. Grows
    BY <2>1, <1>t DEF Grows, TypeOK
  <2>3. QED
    BY <2>1, <2>2, <1>1, LocalFrame, FollowFrame, MarkFrame DEF IInv, TypeOK
<1>7. QED
  BY <1>1, <1>2, <1>3, <1>4, <1>5, <1>6 DEF Next

(* Type correctness for every set of processes, range and flag value. *)
THEOREM TypeCorrect == Spec => []TypeOK
<1>1. IInv => TypeOK
  BY DEF IInv
<1>2. QED
  BY <1>1, IInvInit, IInvStep, PTL DEF Spec

(* The range checkpoint never runs ahead of the table (main.go:182-183). *)
THEOREM RangeCheckpointCorrect == Spec => []RangeCheckpointSound
<1>1. IInv => RangeCheckpointSound
  BY DEF IInv
<1>2. QED
  BY <1>1, IInvInit, IInvStep, PTL DEF Spec

(* A completed backfill has indexed its whole range. *)
THEOREM CompleteCorrect == Spec => []CompleteMeansIndexed
<1>1. IInv => CompleteMeansIndexed
  BY DEF IInv, BackfillLocal, CompleteMeansIndexed
<1>2. QED
  BY <1>1, IInvInit, IInvStep, PTL DEF Spec

-----------------------------------------------------------------------------
(* Indexer implements LedgerTable *)

(* A saved set of ledgers is a step of the abstract table. *)
LEMMA SaveMapsToSave ==
  ASSUME NEW lo \in 1..MaxTip, NEW hi \in 1..MaxTip, lo <= hi,
         Table!SaveLedger(hi, UNION {RowsOf[l] : l \in lo..hi})
  PROVE  Table!Next
BY DEF Table!Next, Table!RowsIn

(* Every step is a step of the abstract table or leaves it alone. *)
LEMMA StepMapsToStep ==
  ASSUME IInv, [Next]_vars
  PROVE  [Table!Next]_<<stored, worker>>
<1>1. ASSUME NEW p \in Follower, pc[p] = "save", Table!SaveLedger(next[p], RowsOf[next[p]])
      PROVE  Table!Next
  <2>1. next[p] \in 1..MaxTip
    BY <1>1, BoundsAssumption DEF IInv, FollowLocal, TypeOK
  <2>2. RowsOf[next[p]] = UNION {RowsOf[l] : l \in next[p]..next[p]}
    <3>1. next[p]..next[p] = {next[p]}
      BY <2>1, BoundsAssumption
    <3>2. QED
      BY <3>1
  <2>3. QED
    BY <1>1, <2>1, <2>2, SaveMapsToSave, BoundsAssumption
<1>2. ASSUME NEW b \in Backfiller, pc[b] = "save", SaveBatch(b)
      PROVE  Table!Next
  <2>1. fetched[b] = next[b]..BatchEnd(b) /\ fetched[b] \subseteq 1..tip
    BY <1>2 DEF IInv, BackfillLocal, Batch, TypeOK
  <2>2. next[b] \in First[b]..Last[b] /\ BatchEnd(b) \in Nat
    BY <1>2, BatchEndBounds DEF IInv, BackfillLocal
  <2>3. next[b] <= BatchEnd(b)
    BY <2>2, FlagsAssumption DEF BatchEnd
  <2>4. next[b] \in 1..MaxTip /\ BatchEnd(b) \in 1..MaxTip
    BY <2>1, <2>2, <2>3, FlagsAssumption, BoundsAssumption DEF IInv, TypeOK
  <2>5. QED
    BY <1>2, <2>1, <2>3, <2>4, SaveMapsToSave DEF SaveBatch
<1>3. ASSUME NEW p \in Follower, FollowStep(p) \/ FollowFault(p)
      PROVE  Table!Next \/ UNCHANGED <<stored, worker>>
  BY <1>1, <1>3 DEF FollowStep, FollowFault, FollowStart, FollowFetch, FollowNotYetPublished,
     FollowError, FollowSave, FollowSaveReplyLost, Wake, Goto, dbVars
<1>4. ASSUME NEW b \in Backfiller, BackfillStep(b) \/ BackfillFault(b)
      PROVE  Table!Next \/ UNCHANGED <<stored, worker>>
  BY <1>2, <1>4 DEF BackfillStep, BackfillFault, BackfillStart, BackfillFetch,
     BackfillFetchFails, BackfillJoin, BackfillSave, BackfillSaveFails, BackfillMark,
     BackfillMarkFails, Wake, Goto, dbVars
<1>5. ASSUME Publish \/ (\E p \in Process : Stop(p) \/ Restart(p)) \/ UNCHANGED vars
      PROVE  UNCHANGED <<stored, worker>>
  BY <1>5 DEF Publish, Stop, Restart, vars, dbVars
<1>6. QED
  BY <1>3, <1>4, <1>5 DEF Next

(* Only SaveLedger changes the table and the worker checkpoint             *)
(* (store.go:243-244): Indexer implements LedgerTable.                     *)
THEOREM OnlyThroughSaveCorrect == Spec => OnlyThroughSave
<1>1. Init => Table!Init
  BY DEF Init, Table!Init
<1>2. IInv /\ [Next]_vars => [Table!Next]_(Table!tableVars)
  BY StepMapsToStep DEF Table!tableVars
<1>3. Spec => Table!Spec
  BY <1>1, <1>2, IInvInit, IInvStep, PTL DEF Spec, Table!Spec
<1>4. QED
  BY <1>3 DEF OnlyThroughSave

-----------------------------------------------------------------------------
(* A worker leaves no gap as long as no backfill overtakes it *)

BackfillsBelowStart == StartFlag > 0 /\ \A b \in Backfiller : Last[b] < StartFlag

(* Everything from StartFlag to just before a worker's `next` is stored.   *)
WorkerPrefix ==
  \A p \in Follower :
    pc[p] \in {"fetch", "save", "sleep"} => RangePersisted(StartFlag, next[p] - 1)

GapInv == FollowLeavesNoGap /\ WorkerPrefix

(* Nothing is missing below a checkpoint that is not set yet. *)
LEMMA GapInit == BackfillsBelowStart /\ Init => GapInv
BY FlagsAssumption
DEF BackfillsBelowStart, Init, GapInv, FollowLeavesNoGap, WorkerPrefix, RangePersisted, Process

(* What does not move a worker or the checkpoint keeps both.               *)
LEMMA PrefixFrame ==
  ASSUME GapInv, Grows, NEW p \in Follower, pc'[p] = pc[p], next'[p] = next[p],
         pc[p] \in {"fetch", "save", "sleep"}
  PROVE  RangePersisted(StartFlag, next[p] - 1)'
BY RangeGrows DEF GapInv, WorkerPrefix

(* A save that extends the prefix by its next ledger leaves no gap. *)
LEMMA GapSave ==
  ASSUME TypeOK, FollowLeavesNoGap, Grows, NEW last \in Nat, NEW rows,
         Table!SaveLedger(last, rows), RangePersisted(StartFlag, last)'
  PROVE  FollowLeavesNoGap'
<1>1. worker' = worker \/ worker' = last
  BY DEF Table!SaveLedger
<1>2. CASE worker' = worker
  BY <1>2, RangeGrows DEF FollowLeavesNoGap
<1>3. CASE worker' = last
  BY <1>3 DEF FollowLeavesNoGap, RangePersisted, Persisted
<1>4. QED
  BY <1>1, <1>2, <1>3

(* A worker saves the ledger after the ones it has saved. *)
LEMMA GapFollow ==
  ASSUME IInv, GapInv, NEW p \in Follower, FollowStep(p) \/ FollowFault(p)
  PROVE  /\ FollowLeavesNoGap'
         /\ pc'[p] \in {"fetch", "save", "sleep"} => RangePersisted(StartFlag, next[p] - 1)'
<1>p. p \in Process /\ TypeOK /\ Grows /\ next[p] \in Nat /\ worker \in Nat /\ StartFlag \in Nat
  BY FollowType, FlagsAssumption DEF Process, IInv, TypeOK
<1>w. worker' = worker => FollowLeavesNoGap'
  BY <1>p, RangeGrows DEF GapInv, FollowLeavesNoGap
<1>1. CASE FollowStart(p)
  <2>1. worker' = worker /\ next'[p] = IF worker = 0 THEN StartFlag ELSE worker + 1
    BY <1>1, <1>p DEF FollowStart, TypeOK, dbVars
  <2>2. RangePersisted(StartFlag, worker)'
    BY <2>1, <1>w DEF FollowLeavesNoGap
  <2>3. RangePersisted(StartFlag, next[p] - 1)'
    BY <2>1, <2>2, <1>p DEF RangePersisted
  <2>4. QED
    BY <2>1, <2>3, <1>w
<1>2. CASE FollowFetch(p) \/ FollowNotYetPublished(p) \/ FollowError(p) \/ Wake(p)
  <2>1. /\ worker' = worker /\ next'[p] = next[p]
        /\ pc[p] \in {"fetch", "save", "sleep"}
    BY <1>2 DEF FollowFetch, FollowNotYetPublished, FollowError, Wake, Goto, dbVars
  <2>2. RangePersisted(StartFlag, next[p] - 1)'
    BY <2>1, <1>p, RangeGrows DEF GapInv, WorkerPrefix
  <2>3. QED
    BY <2>1, <2>2, <1>w
<1>3. CASE FollowSave(p) \/ FollowSaveReplyLost(p)
  <2>1. pc[p] = "save" /\ Table!SaveLedger(next[p], RowsOf[next[p]])
    BY <1>3 DEF FollowSave, FollowSaveReplyLost, Goto
  <2>2. PICK n \in Nat : n = next[p]
    BY <1>p
  <2>3. RangePersisted(StartFlag, n - 1)' /\ Persisted(n)'
    BY <2>1, <2>2, <1>p, RangeGrows DEF GapInv, WorkerPrefix, Persisted, Table!SaveLedger
  <2>4. RangePersisted(StartFlag, n)'
    BY <2>3, <1>p DEF RangePersisted
  <2>5. FollowLeavesNoGap'
    BY <2>1, <2>2, <2>4, <1>p, GapSave DEF GapInv
  <2>6. next'[p] = n + 1 \/ next'[p] = n
    BY <1>3, <2>2, <1>p DEF FollowSave, FollowSaveReplyLost, TypeOK
  <2>7. QED
    BY <2>3, <2>4, <2>5, <2>6 DEF RangePersisted
<1>4. QED
  BY <1>1, <1>2, <1>3 DEF FollowStep, FollowFault

(* A backfill that ends below StartFlag cannot lift the checkpoint past it. *)
LEMMA GapBackfill ==
  ASSUME BackfillsBelowStart, IInv, GapInv, NEW b \in Backfiller, BackfillStep(b) \/ BackfillFault(b)
  PROVE  FollowLeavesNoGap'
<1>1. TypeOK /\ Grows /\ BatchEnd(b) \in Nat /\ BatchEnd(b) < StartFlag
  BY BackfillType, BatchEndBounds, FlagsAssumption DEF IInv, BackfillsBelowStart
<1>2. CASE UNCHANGED <<stored, worker>>
  BY <1>1, <1>2, RangeGrows DEF GapInv, FollowLeavesNoGap
<1>3. CASE SaveBatch(b)
  <2>1. worker' = worker \/ worker' = BatchEnd(b)
    BY <1>3 DEF SaveBatch, Table!SaveLedger
  <2>2. CASE worker' = worker
    BY <2>2, <1>1, RangeGrows DEF GapInv, FollowLeavesNoGap
  <2>3. CASE worker' = BatchEnd(b)
    BY <2>3, <1>1, FlagsAssumption DEF FollowLeavesNoGap, RangePersisted
  <2>4. QED
    BY <2>1, <2>2, <2>3
<1>4. QED
  BY <1>2, <1>3 DEF BackfillStep, BackfillFault, BackfillStart, BackfillFetch,
     BackfillFetchFails, BackfillJoin, BackfillSave, BackfillSaveFails, BackfillMark,
     BackfillMarkFails, Wake, Goto, dbVars

(* Every step leaves the ledgers from StartFlag to the checkpoint whole. *)
LEMMA GapStep == BackfillsBelowStart /\ IInv /\ GapInv /\ [Next]_vars => GapInv'
<1>1. SUFFICES ASSUME BackfillsBelowStart, IInv, GapInv, [Next]_vars PROVE GapInv'
  OBVIOUS
<1>2. CASE Publish \/ UNCHANGED vars
  <2>1. Grows
    BY <1>2, <1>1, BoundsAssumption DEF Grows, Publish, vars, dbVars, IInv, TypeOK
  <2>2. worker' = worker /\ pc' = pc /\ next' = next
    BY <1>2 DEF Publish, vars, dbVars
  <2>3. QED
    BY <2>1, <2>2, <1>1, RangeGrows DEF GapInv, FollowLeavesNoGap, WorkerPrefix
<1>3. ASSUME NEW p \in Process, Stop(p) \/ Restart(p)
      PROVE  GapInv'
  <2>1. Grows /\ worker' = worker
    BY <1>3, <1>1, OtherType DEF IInv, Stop, Restart, dbVars
  <2>2. ASSUME NEW f \in Follower, pc'[f] \in {"fetch", "save", "sleep"}
        PROVE  RangePersisted(StartFlag, next[f] - 1)'
    <3>1. f # p
      BY <2>2, <1>3, <1>1 DEF Stop, Restart, IInv, TypeOK
    <3>2. pc'[f] = pc[f] /\ next'[f] = next[f]
      BY <3>1, <1>1, <1>3, OneProcessMoves DEF IInv, Process
    <3>3. QED
      BY <3>2, <2>1, <2>2, <1>1, PrefixFrame
  <2>3. QED
    BY <2>1, <2>2, <1>1, RangeGrows DEF GapInv, FollowLeavesNoGap, WorkerPrefix
<1>4. ASSUME NEW p \in Follower, FollowStep(p) \/ FollowFault(p)
      PROVE  GapInv'
  <2>1. Grows
    BY <1>1, <1>4, FollowType DEF IInv
  <2>2. ASSUME NEW f \in Follower, f # p, pc'[f] \in {"fetch", "save", "sleep"}
        PROVE  RangePersisted(StartFlag, next[f] - 1)'
    <3>1. pc'[f] = pc[f] /\ next'[f] = next[f]
      BY <2>2, <1>1, <1>4, OneProcessMoves DEF IInv, Process
    <3>2. QED
      BY <3>1, <2>1, <2>2, <1>1, PrefixFrame
  <2>3. QED
    BY <2>2, <1>1, <1>4, GapFollow DEF GapInv, WorkerPrefix
<1>5. ASSUME NEW b \in Backfiller, BackfillStep(b) \/ BackfillFault(b)
      PROVE  GapInv'
  <2>1. Grows
    BY <1>1, <1>5, BackfillType DEF IInv
  <2>2. ASSUME NEW f \in Follower, pc'[f] \in {"fetch", "save", "sleep"}
        PROVE  RangePersisted(StartFlag, next[f] - 1)'
    <3>1. pc'[f] = pc[f] /\ next'[f] = next[f]
      BY <1>1, <1>5, ProcessAssumption, OneProcessMoves DEF IInv, Process
    <3>2. QED
      BY <3>1, <2>1, <2>2, <1>1, PrefixFrame
  <2>3. QED
    BY <2>2, <1>1, <1>5, GapBackfill DEF GapInv, WorkerPrefix
<1>6. QED
  BY <1>1, <1>2, <1>3, <1>4, <1>5 DEF Next

(* No ledger between StartFlag and the worker checkpoint is missing        *)
(* (main.go:107), as long as every backfill ends below StartFlag.          *)
THEOREM FollowCorrect ==
  ASSUME BackfillsBelowStart
  PROVE  Spec => []FollowLeavesNoGap
<1>1. Init => IInv /\ GapInv
  BY IInvInit, GapInit
<1>2. IInv /\ GapInv /\ [Next]_vars => IInv' /\ GapInv'
  BY IInvStep, GapStep
<1>3. GapInv => FollowLeavesNoGap
  BY DEF GapInv
<1>4. QED
  BY <1>1, <1>2, <1>3, PTL DEF Spec

-----------------------------------------------------------------------------
(* What the API answers about a ledger while the indexer processes run     *)
(* (LedgerStats): from StartFlag to the worker checkpoint no ledger is     *)
(* missing, and rows are never deleted, so what the first query of a       *)
(* request found is still true when the second one counts.                 *)

(* Between its queries, a request that found its ledger indexed may rely   *)
(* on the ledger's rows.                                                   *)
RequestInv ==
  /\ (phase = "counting" /\ indexed /\ seq >= StartFlag) => Persisted(seq)
  /\ IndexedCountIsComplete

StatsInv == IInv /\ GapInv /\ RequestInv

-----------------------------------------------------------------------------
(* Before the first request nothing is claimed. *)
LEMMA StatsInvInit == BackfillsBelowStart /\ StatsInit => StatsInv
<1>1. SUFFICES ASSUME BackfillsBelowStart, StatsInit PROVE StatsInv
  OBVIOUS
<1>2. IInv /\ GapInv
  BY <1>1, IInvInit, GapInit DEF StatsInit
<1>3. RequestInv
  BY <1>1 DEF StatsInit, RequestInv, IndexedCountIsComplete
<1>4. QED
  BY <1>2, <1>3 DEF StatsInv

(* The indexer's steps delete no row. *)
LEMMA IndexerGrows == IInv /\ Next => stored \subseteq stored'
<1>1. SUFFICES ASSUME IInv, Next PROVE stored \subseteq stored'
  OBVIOUS
<1>2. CASE Publish
  BY <1>2 DEF Publish, dbVars
<1>3. ASSUME NEW p \in Process, Stop(p) \/ Restart(p) PROVE stored \subseteq stored'
  BY <1>3 DEF Stop, Restart, dbVars
<1>4. ASSUME NEW p \in Follower, FollowStep(p) \/ FollowFault(p)
      PROVE  stored \subseteq stored'
  BY <1>1, <1>4, FollowType DEF IInv, Grows
<1>5. ASSUME NEW b \in Backfiller, BackfillStep(b) \/ BackfillFault(b)
      PROVE  stored \subseteq stored'
  BY <1>1, <1>5, BackfillType DEF IInv, Grows
<1>6. QED
  BY <1>1, <1>2, <1>3, <1>4, <1>5 DEF Next

(* A request keeps what it knows through any steps of the indexer, and     *)
(* each of its own queries says no more than the table holds.              *)
LEMMA StatsInvStep ==
  BackfillsBelowStart /\ StatsInv /\ [StatsNext]_allVars => StatsInv'
<1>1. SUFFICES ASSUME BackfillsBelowStart, StatsInv, [StatsNext]_allVars PROVE StatsInv'
  OBVIOUS
<1>2. IInv /\ GapInv /\ RequestInv
  BY <1>1 DEF StatsInv
<1>3. [Next]_vars
  BY <1>1 DEF StatsNext, ReadCheckpoint, CountRows, allVars
<1>4. IInv' /\ GapInv'
  BY <1>1, <1>2, <1>3, IInvStep, GapStep
<1>5. CASE Next /\ UNCHANGED statsVars
  <2>1. stored \subseteq stored'
    BY <1>2, <1>5, IndexerGrows
  <2>2. RequestInv'
    BY <2>1, <1>2, <1>5 DEF RequestInv, IndexedCountIsComplete, Persisted, statsVars
  <2>3. QED
    BY <2>2, <1>4 DEF StatsInv
<1>6. ASSUME NEW l \in Asked, ReadCheckpoint(l) PROVE StatsInv'
  <2>1. /\ phase' = "counting" /\ seq' = l /\ indexed' = (worker >= l)
        /\ stored' = stored
    BY <1>6 DEF ReadCheckpoint, vars
  <2>2. worker >= l /\ l >= StartFlag => Persisted(l)
    BY <1>2, FlagsAssumption, AskedAssumption
    DEF GapInv, FollowLeavesNoGap, RangePersisted, IInv, TypeOK
  <2>3. RequestInv'
    BY <2>1, <2>2 DEF RequestInv, IndexedCountIsComplete, Persisted
  <2>4. QED
    BY <2>3, <1>4 DEF StatsInv
<1>7. CASE CountRows
  <2>1. /\ phase = "counting" /\ phase' = "answered" /\ seq' = seq /\ indexed' = indexed
        /\ counted' = stored \cap RowsOf[seq]
    BY <1>7 DEF CountRows
  <2>2. RequestInv'
    BY <2>1, <1>2 DEF RequestInv, IndexedCountIsComplete, Persisted
  <2>3. QED
    BY <2>2, <1>4 DEF StatsInv
<1>8. CASE UNCHANGED allVars
  <2>1. RequestInv'
    BY <1>2, <1>8 DEF RequestInv, IndexedCountIsComplete, Persisted, allVars, vars, statsVars
  <2>2. QED
    BY <2>1, <1>4 DEF StatsInv
<1>9. QED
  BY <1>1, <1>5, <1>6, <1>7, <1>8 DEF StatsNext

(* "Zeros in an indexed ledger mean real silence" (store.go:257), as long  *)
(* as every backfill ends below StartFlag: an answer that says indexed     *)
(* counts all the invocations of the ledger, although its two queries are  *)
(* not one snapshot (store.go:267-275).                                    *)
THEOREM CountIsCompleteCorrect ==
  ASSUME BackfillsBelowStart
  PROVE  StatsSpec => []IndexedCountIsComplete
<1>1. StatsInv => IndexedCountIsComplete
  BY DEF StatsInv, RequestInv
<1>2. QED
  BY <1>1, StatsInvInit, StatsInvStep, PTL DEF StatsSpec

=============================================================================
