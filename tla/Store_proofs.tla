----------------------------- MODULE Store_proofs -----------------------------
(***************************************************************************)
(* Proofs about Store, for any processes, keys, plans and faults: what a   *)
(* process has cached is what the dictionaries hold.  The argument is that *)
(* of the locks: a key that a transaction has inserted is committed by     *)
(* nobody and inserted by nobody else, so that an id a transaction has     *)
(* seen is either committed for good or its own.  From there to atomicity: *)
(* a row only ever names what it was saved for, so that readers see a call *)
(* of SaveLedger happen at its commit.                                     *)
(***************************************************************************)
EXTENDS Store, TLAPS

(* The types of what the argument is about. *)
Shapes ==
  /\ dict \in [Key -> Nat]
  /\ issued \in [Kind -> Nat]
  /\ cache \in [Proc -> [Key -> Nat]]
  /\ pc \in [Proc -> {"ready", "resolve", "send", "commit", "learn"}]
  /\ at \in [Proc -> {Idle} \cup [key : Key, id : Nat]]
  /\ item \in [Proc -> Nat \ {0}]
  /\ todo \in [Proc -> SUBSET Key]
  /\ mine \in [Proc -> [Key -> Nat]]
  /\ ids \in [Proc -> [Key -> Nat]]

(* A key inserted by an open transaction is in no other one and not        *)
(* committed.                                                              *)
InsertedOnce ==
  \A p \in Proc, k \in Key :
    mine[p][k] # None => dict[k] = None /\ \A q \in Proc : q # p => mine[q][k] = None

(* A process that is in no transaction has inserted nothing; a key that is *)
(* still to be inserted is not inserted yet.                               *)
TransactionLocal(p) ==
  /\ pc[p] \in {"ready", "learn"} => mine[p] = NoIds
  /\ pc[p] # "resolve" => at[p] = Idle
  /\ at[p] # Idle => at[p].key \in todo[p]
  /\ \A k \in todo[p] : mine[p][k] = None

(* The ids of a call are those its transaction sees. *)
IdsAreVisible(p) ==
  pc[p] # "ready" => \A k \in Key : ids[p][k] # None => ids[p][k] = Visible(p)[k]

StoreInv ==
  /\ Shapes
  /\ InsertedOnce
  /\ \A p \in Proc : TransactionLocal(p) /\ IdsAreVisible(p)
  /\ NoPhantomIds

-----------------------------------------------------------------------------
(* What MergeInto gives for each key. *)
LEMMA MergeType ==
  ASSUME NEW dst \in [Key -> Nat], NEW src \in [Key -> Nat]
  PROVE  /\ MergeInto(dst, src) \in [Key -> Nat]
         /\ \A k \in Key : MergeInto(dst, src)[k] = IF src[k] # None THEN src[k] ELSE dst[k]
BY DEF MergeInto

(* Nobody knows an id at the start. *)
LEMMA StoreInvInit == Init => StoreInv
<1>1. NoIds \in [Key -> Nat] /\ \A k \in Key : NoIds[k] = None
  BY DEF NoIds, None
<1>2. SUFFICES ASSUME Init PROVE StoreInv
  OBVIOUS
<1>3. Shapes
  BY <1>1, <1>2 DEF Init, Shapes
<1>4. QED
  BY <1>1, <1>2, <1>3
  DEF Init, StoreInv, InsertedOnce, TransactionLocal, IdsAreVisible, NoPhantomIds, None

-----------------------------------------------------------------------------
(* The steps *)

(* A step of one process that commits nothing and that leaves the others   *)
(* alone has to answer for that process only.                              *)
LEMMA OneProcessMoves ==
  ASSUME StoreInv, NEW p \in Proc, Shapes', dict' = dict, NoPhantomIds',
         TransactionLocal(p)', IdsAreVisible(p)',
         \A k \in Key : mine'[p][k] # None =>
           dict[k] = None /\ \A q \in Proc : q # p => mine[q][k] = None,
         \A q \in Proc : q # p => /\ pc'[q] = pc[q] /\ at'[q] = at[q] /\ todo'[q] = todo[q]
                                  /\ mine'[q] = mine[q] /\ ids'[q] = ids[q]
  PROVE  StoreInv'
<1>1. ASSUME NEW q \in Proc PROVE TransactionLocal(q)' /\ IdsAreVisible(q)'
  <2>1. CASE q = p
    BY <2>1
  <2>2. CASE q # p
    BY <2>2 DEF StoreInv, TransactionLocal, IdsAreVisible, Visible, MergeInto
  <2>3. QED
    BY <2>1, <2>2
<1>2. InsertedOnce'
  <2>1. SUFFICES ASSUME NEW q \in Proc, NEW k \in Key, mine'[q][k] # None
                 PROVE  dict[k] = None /\ \A r \in Proc : r # q => mine'[r][k] = None
    BY DEF InsertedOnce
  <2>2. CASE q = p
    BY <2>1, <2>2
  <2>3. CASE q # p
    BY <2>1, <2>3 DEF StoreInv, InsertedOnce
  <2>4. QED
    BY <2>2, <2>3
<1>3. QED
  BY <1>1, <1>2 DEF StoreInv

(* A call asks for names of the history. *)
LEMMA KeysOfCall ==
  ASSUME Shapes, NEW p \in Proc, item[p] <= Len(Plan[p])
  PROVE  Keys(p) \subseteq Key
<1>1. /\ Batch(p).from .. Batch(p).to \subseteq Ledger
  <2>1. item[p] \in 1..Len(Plan[p])
    BY PlanAssumption DEF Shapes
  <2>2. QED
    BY <2>1, PlanAssumption DEF Batch
<1>2. Txs(p) \subseteq Tx
  BY <1>1, StoreAssumption DEF Txs
<1>3. QED
  BY <1>2, StoreAssumption DEF Keys

(* A call starts with what its process has cached. *)
LEMMA StartStep ==
  ASSUME StoreInv, NEW p \in Proc, Start(p)
  PROVE  StoreInv'
<1> DEFINE missing == {k \in Keys(p) : cache[p][k] = None}
           known == [k \in Key |-> IF k \in Keys(p) THEN cache[p][k] ELSE None]
<1>1. /\ pc[p] = "ready" /\ pc' = [pc EXCEPT ![p] = "resolve"]
      /\ ids' = [ids EXCEPT ![p] = known] /\ todo' = [todo EXCEPT ![p] = missing]
      /\ dict' = dict /\ issued' = issued /\ cache' = cache /\ item' = item
      /\ at' = at /\ mine' = mine
  BY DEF Start, Goto, dbVars
<1>2. missing \subseteq Key /\ known \in [Key -> Nat]
  BY KeysOfCall DEF StoreInv, Shapes, Start, None
<1>3. Shapes' /\ NoPhantomIds'
  BY <1>1, <1>2 DEF StoreInv, Shapes, NoPhantomIds
<1>4. at[p] = Idle /\ \A k \in Key : mine[p][k] = None
  BY <1>1 DEF StoreInv, TransactionLocal, NoIds
<1>5. TransactionLocal(p)'
  BY <1>1, <1>2, <1>4 DEF StoreInv, Shapes, TransactionLocal
<1>6. IdsAreVisible(p)'
  BY <1>1, <1>2, <1>4
  DEF StoreInv, Shapes, NoPhantomIds, IdsAreVisible, Visible, MergeInto
<1>7. QED
  BY <1>1, <1>3, <1>4, <1>5, <1>6, OneProcessMoves DEF StoreInv, Shapes

(* An INSERT draws an id for a key that is still to be inserted. *)
LEMMA DrawIdStep ==
  ASSUME StoreInv, NEW p \in Proc, NEW k \in Key, DrawId(p, k)
  PROVE  StoreInv'
<1>1. /\ pc' = pc /\ ids' = ids /\ todo' = todo /\ dict' = dict /\ cache' = cache
      /\ item' = item /\ mine' = mine /\ pc[p] = "resolve" /\ k \in todo[p]
  BY DEF DrawId
<1>2. issued[kind[p]] \in Nat /\ kind[p] \in Kind
  BY StoreAssumption DEF DrawId, StoreInv, Shapes
<1>3. /\ issued' = [issued EXCEPT ![kind[p]] = @ + 1]
      /\ at' = [at EXCEPT ![p] = [key |-> k, id |-> issued[kind[p]] + 1]]
  BY DEF DrawId
<1>4. Shapes' /\ NoPhantomIds'
  BY <1>1, <1>2, <1>3 DEF StoreInv, Shapes, NoPhantomIds
<1>5. TransactionLocal(p)' /\ IdsAreVisible(p)'
  BY <1>1, <1>3 DEF StoreInv, Shapes, TransactionLocal, IdsAreVisible, Visible, MergeInto
<1>6. QED
  BY <1>1, <1>3, <1>4, <1>5, OneProcessMoves DEF StoreInv, InsertedOnce, Shapes

(* A key is inserted where nobody has committed it and nobody else holds   *)
(* it, and the transaction had no id for it.                               *)
LEMMA InsertKeyStep ==
  ASSUME StoreInv, NEW p \in Proc, InsertKey(p)
  PROVE  StoreInv'
<1> DEFINE k == at[p].key
           inserted == IF dict[k] = None THEN at[p].id ELSE mine[p][k]
<1>1. /\ at[p] # Idle /\ at[p] \in [key : Key, id : Nat] /\ k \in Key /\ k \in todo[p]
      /\ mine[p][k] = None /\ pc[p] = "resolve"
  BY DEF InsertKey, StoreInv, Shapes, TransactionLocal
<1>2. \A q \in Proc : q # p => mine[q][k] = None
  BY <1>1 DEF InsertKey, WaitsFor
<1>3. /\ mine' = [mine EXCEPT ![p][k] = inserted]
      /\ todo' = [todo EXCEPT ![p] = @ \ {k}] /\ at' = [at EXCEPT ![p] = Idle]
      /\ dict' = dict /\ issued' = issued /\ cache' = cache /\ pc' = pc /\ item' = item
      /\ ids' = ids
  BY DEF InsertKey, dbVars
<1>4. inserted \in Nat
  BY <1>1 DEF StoreInv, Shapes
<1>5. Shapes' /\ NoPhantomIds'
  BY <1>1, <1>3, <1>4 DEF StoreInv, Shapes, NoPhantomIds
<1>6. /\ mine'[p][k] = inserted
      /\ \A j \in Key : j # k => mine'[p][j] = mine[p][j]
      /\ \A q \in Proc : q # p => mine'[q] = mine[q]
  BY <1>1, <1>3 DEF StoreInv, Shapes
<1>7. TransactionLocal(p)'
  BY <1>1, <1>3, <1>6 DEF StoreInv, Shapes, TransactionLocal
<1>8. IdsAreVisible(p)'
  <2>1. SUFFICES ASSUME NEW j \in Key, ids[p][j] # None
                 PROVE  ids[p][j] = Visible(p)'[j]
    BY <1>3 DEF IdsAreVisible
  <2>2. ids[p][j] = Visible(p)[j]
    BY <1>1, <2>1 DEF StoreInv, IdsAreVisible
  <2>3. CASE j # k
    BY <2>2, <2>3, <1>3, <1>6 DEF Visible, MergeInto
  <2>4. CASE j = k
    BY <2>1, <2>2, <2>4, <1>1, <1>3, <1>6 DEF Visible, MergeInto
  <2>5. QED
    BY <2>3, <2>4
<1>9. ASSUME NEW j \in Key, mine'[p][j] # None
      PROVE  dict[j] = None /\ \A q \in Proc : q # p => mine[q][j] = None
  BY <1>1, <1>2, <1>6, <1>9 DEF StoreInv, InsertedOnce
<1>10. QED
  BY <1>3, <1>5, <1>6, <1>7, <1>8, <1>9, OneProcessMoves DEF StoreInv, Shapes

(* The ids read back are those the transaction sees. *)
LEMMA SelectIdsStep ==
  ASSUME StoreInv, NEW p \in Proc, SelectIds(p)
  PROVE  StoreInv'
<1> DEFINE read == [k \in Key |->
                     IF k \in Keys(p) /\ KindOf[k] = kind[p] /\ ids[p][k] = None
                       THEN Visible(p)[k] ELSE ids[p][k]]
<1>1. /\ pc[p] = "resolve" /\ at[p] = Idle
      /\ pc' = [pc EXCEPT ![p] = IF kind[p] + 1 \in Kind THEN "resolve" ELSE "send"]
      /\ ids' = [ids EXCEPT ![p] = read]
      /\ dict' = dict /\ issued' = issued /\ cache' = cache /\ item' = item /\ todo' = todo
      /\ at' = at /\ mine' = mine
  BY DEF SelectIds, Goto, dbVars
<1>2. Visible(p) \in [Key -> Nat]
  BY MergeType DEF Visible, StoreInv, Shapes
<1>3. read \in [Key -> Nat]
  BY <1>2 DEF StoreInv, Shapes
<1>4. Shapes' /\ NoPhantomIds'
  BY <1>1, <1>3 DEF StoreInv, Shapes, NoPhantomIds
<1>5. TransactionLocal(p)'
  BY <1>1 DEF StoreInv, Shapes, TransactionLocal
<1>6. Visible(p)' = Visible(p)
  BY <1>1 DEF Visible, MergeInto
<1>7. IdsAreVisible(p)'
  BY <1>1, <1>6 DEF StoreInv, Shapes, IdsAreVisible
<1>8. QED
  BY <1>1, <1>4, <1>5, <1>7, OneProcessMoves DEF StoreInv, InsertedOnce, Shapes

(* The batch changes nothing of this. *)
LEMMA SendBatchStep ==
  ASSUME StoreInv, NEW p \in Proc, SendBatch(p)
  PROVE  StoreInv'
<1>1. /\ pc[p] = "send" /\ pc' = [pc EXCEPT ![p] = "commit"]
      /\ dict' = dict /\ issued' = issued /\ cache' = cache /\ item' = item /\ todo' = todo
      /\ at' = at /\ mine' = mine /\ ids' = ids
  BY DEF SendBatch, Goto, dbVars, txVars
<1>2. Shapes' /\ NoPhantomIds'
  BY <1>1 DEF StoreInv, Shapes, NoPhantomIds
<1>3. TransactionLocal(p)' /\ IdsAreVisible(p)'
  BY <1>1 DEF StoreInv, Shapes, TransactionLocal, IdsAreVisible, Visible, MergeInto
<1>4. QED
  BY <1>1, <1>2, <1>3, OneProcessMoves DEF StoreInv, InsertedOnce, Shapes

(* A commit changes no id that anybody has seen: what it adds was nobody   *)
(* else's.                                                                 *)
LEMMA CommitStep ==
  ASSUME StoreInv, NEW p \in Proc, pc[p] = "commit", CommitTx(p),
         pc' = [pc EXCEPT ![p] = "learn"] \/ pc' = [pc EXCEPT ![p] = "ready"],
         UNCHANGED <<cache, item, todo, at, ids>>
  PROVE  StoreInv'
<1>1. /\ dict' = MergeInto(dict, mine[p]) /\ mine' = [mine EXCEPT ![p] = NoIds]
      /\ issued' = issued
  BY DEF CommitTx
<1>2. NoIds \in [Key -> Nat] /\ \A k \in Key : NoIds[k] = None
  BY DEF NoIds, None
<1>3. /\ dict' \in [Key -> Nat]
      /\ \A k \in Key : dict'[k] = IF mine[p][k] # None THEN mine[p][k] ELSE dict[k]
  BY <1>1, MergeType DEF StoreInv, Shapes
<1>4. Shapes'
  BY <1>1, <1>2, <1>3 DEF StoreInv, Shapes
<1>5. \A k \in Key : dict[k] # None => dict'[k] = dict[k]
  BY <1>3 DEF StoreInv, InsertedOnce
<1>6. NoPhantomIds'
  BY <1>5 DEF StoreInv, NoPhantomIds
<1>7. /\ \A k \in Key : mine'[p][k] = None
      /\ \A q \in Proc : q # p => mine'[q] = mine[q] /\ pc'[q] = pc[q]
      /\ mine'[p] = NoIds /\ pc'[p] \in {"learn", "ready"}
  BY <1>1, <1>2 DEF StoreInv, Shapes
<1>8. InsertedOnce'
  <2>1. SUFFICES ASSUME NEW q \in Proc, NEW k \in Key, mine'[q][k] # None
                 PROVE  dict'[k] = None /\ \A r \in Proc : r # q => mine'[r][k] = None
    BY DEF InsertedOnce
  <2>2. q # p /\ mine[q][k] # None
    BY <2>1, <1>7
  <2>3. dict[k] = None /\ \A r \in Proc : r # q => mine[r][k] = None
    BY <2>2 DEF StoreInv, InsertedOnce
  <2>4. QED
    BY <2>2, <2>3, <1>3, <1>7
<1>9. ASSUME NEW q \in Proc PROVE TransactionLocal(q)'
  <2>1. CASE q = p
    BY <2>1, <1>7 DEF StoreInv, Shapes, TransactionLocal
  <2>2. CASE q # p
    BY <2>2, <1>7 DEF StoreInv, TransactionLocal
  <2>3. QED
    BY <2>1, <2>2
<1>10. ASSUME NEW q \in Proc PROVE IdsAreVisible(q)'
  <2>1. SUFFICES ASSUME pc'[q] # "ready", NEW k \in Key, ids[q][k] # None
                 PROVE  ids[q][k] = Visible(q)'[k]
    BY DEF IdsAreVisible
  <2>2. ids[q][k] = IF mine[q][k] # None THEN mine[q][k] ELSE dict[k]
    BY <2>1, <1>7 DEF StoreInv, IdsAreVisible, Visible, MergeInto
  <2>3. Visible(q)'[k] = IF mine'[q][k] # None THEN mine'[q][k] ELSE dict'[k]
    BY DEF Visible, MergeInto
  <2>4. CASE q = p
    BY <2>2, <2>3, <2>4, <1>3, <1>7
  <2>5. CASE q # p
    BY <2>1, <2>2, <2>3, <2>5, <1>5, <1>7
  <2>6. QED
    BY <2>4, <2>5
<1>11. QED
  BY <1>4, <1>6, <1>8, <1>9, <1>10 DEF StoreInv

(* Only now the ids go to the cache: they are committed. *)
LEMMA LearnStep ==
  ASSUME StoreInv, NEW p \in Proc, Learn(p)
  PROVE  StoreInv'
<1>1. /\ pc[p] = "learn" /\ pc' = [pc EXCEPT ![p] = "ready"]
      /\ cache' = [cache EXCEPT ![p] = MergeInto(@, ids[p])]
      /\ item' = [item EXCEPT ![p] = @ + 1]
      /\ dict' = dict /\ issued' = issued /\ todo' = todo
      /\ at' = at /\ mine' = mine /\ ids' = ids
  BY DEF Learn, Goto, dbVars, txVars
<1>2. /\ MergeInto(cache[p], ids[p]) \in [Key -> Nat]
      /\ \A k \in Key : MergeInto(cache[p], ids[p])[k]
                          = IF ids[p][k] # None THEN ids[p][k] ELSE cache[p][k]
  BY MergeType DEF StoreInv, Shapes
<1>3. Shapes'
  BY <1>1, <1>2 DEF StoreInv, Shapes
<1>4. \A k \in Key : mine[p][k] = None
  BY <1>1 DEF StoreInv, TransactionLocal, NoIds
<1>5. \A k \in Key : ids[p][k] # None => ids[p][k] = dict[k]
  BY <1>1, <1>4 DEF StoreInv, IdsAreVisible, Visible, MergeInto
<1>6. NoPhantomIds'
  BY <1>1, <1>2, <1>5 DEF StoreInv, Shapes, NoPhantomIds
<1>7. TransactionLocal(p)' /\ IdsAreVisible(p)'
  BY <1>1 DEF StoreInv, Shapes, TransactionLocal, IdsAreVisible
<1>8. QED
  BY <1>1, <1>3, <1>4, <1>6, <1>7, OneProcessMoves DEF StoreInv, Shapes

(* A rollback leaves nothing behind; a kill takes the cache along.         *)
LEMMA RollbackStep ==
  ASSUME StoreInv, NEW p \in Proc, Rollback(p), pc' = [pc EXCEPT ![p] = "ready"],
         cache' = cache \/ cache' = [cache EXCEPT ![p] = NoIds],
         item' \in [Proc -> Nat \ {0}], dict' = dict, issued' = issued, ids' = ids
  PROVE  StoreInv'
<1>1. /\ mine' = [mine EXCEPT ![p] = NoIds] /\ at' = [at EXCEPT ![p] = Idle]
      /\ todo' = [todo EXCEPT ![p] = {}]
  BY DEF Rollback
<1>2. NoIds \in [Key -> Nat] /\ \A k \in Key : NoIds[k] = None
  BY DEF NoIds, None
<1>3. /\ cache' \in [Proc -> [Key -> Nat]]
      /\ \A q \in Proc, k \in Key : cache'[q][k] # None => cache'[q][k] = cache[q][k]
  <2>1. CASE cache' = cache
    BY <2>1 DEF StoreInv, Shapes
  <2>2. CASE cache' = [cache EXCEPT ![p] = NoIds]
    BY <2>2, <1>2 DEF StoreInv, Shapes
  <2>3. QED
    BY <2>1, <2>2
<1>4. Shapes' /\ NoPhantomIds'
  <2>1. mine' \in [Proc -> [Key -> Nat]]
    BY <1>1, <1>2 DEF StoreInv, Shapes
  <2>2. /\ at' \in [Proc -> {Idle} \cup [key : Key, id : Nat]]
        /\ todo' \in [Proc -> SUBSET Key]
        /\ pc' \in [Proc -> {"ready", "resolve", "send", "commit", "learn"}]
    BY <1>1 DEF StoreInv, Shapes
  <2>3. Shapes'
    BY <1>3, <2>1, <2>2 DEF StoreInv, Shapes
  <2>4. NoPhantomIds'
    BY <1>3 DEF StoreInv, NoPhantomIds
  <2>5. QED
    BY <2>3, <2>4
<1>5. TransactionLocal(p)' /\ IdsAreVisible(p)'
  BY <1>1 DEF StoreInv, Shapes, TransactionLocal, IdsAreVisible
<1>6. \A k \in Key : mine'[p][k] = None
  BY <1>1, <1>2 DEF StoreInv, Shapes
<1>7. QED
  BY <1>1, <1>4, <1>5, <1>6, OneProcessMoves DEF StoreInv, Shapes

-----------------------------------------------------------------------------
(* Every step of SaveLedger keeps the invariant. *)
LEMMA SaveStepInv ==
  ASSUME StoreInv, NEW p \in Proc, SaveStep(p)
  PROVE  StoreInv'
<1>1. CASE Commit(p)
  BY <1>1, CommitStep DEF Commit, Goto
<1>2. QED
  BY <1>1, StartStep, DrawIdStep, InsertKeyStep, SelectIdsStep, SendBatchStep, LearnStep
  DEF SaveStep

(* So does every failure. *)
LEMMA FailureInv ==
  ASSUME StoreInv, NEW p \in Proc, Failure(p)
  PROVE  StoreInv'
<1>1. CASE StatementFails(p) \/ SequenceExhausted(p) \/ DeadlockVictim(p)
  <2>1. /\ Rollback(p) /\ pc' = [pc EXCEPT ![p] = "ready"] /\ cache' = cache
        /\ item' = item /\ dict' = dict /\ issued' = issued /\ ids' = ids
    BY <1>1 DEF StatementFails, SequenceExhausted, DeadlockVictim, Goto, dbVars
  <2>2. QED
    BY <2>1, RollbackStep DEF StoreInv, Shapes
<1>2. CASE CommitReplyLost(p)
  BY <1>2, CommitStep DEF CommitReplyLost, Goto
<1>3. CASE Kill(p)
  <2>1. PICK i \in ResumeAt(p) : item' = [item EXCEPT ![p] = i]
    BY <1>3 DEF Kill
  <2>2. item[p] \in Nat \ {0}
    BY DEF StoreInv, Shapes
  <2>3. i \in Nat \ {0}
    BY <2>1, <2>2 DEF ResumeAt
  <2>4. item' \in [Proc -> Nat \ {0}]
    BY <2>1, <2>3 DEF StoreInv, Shapes
  <2>5. QED
    BY <1>3, <2>4, RollbackStep DEF Kill, dbVars
<1>4. QED
  BY <1>1, <1>2, <1>3 DEF Failure

LEMMA StoreInvStep == StoreInv /\ [Next]_vars => StoreInv'
<1>1. SUFFICES ASSUME StoreInv, [Next]_vars PROVE StoreInv'
  OBVIOUS
<1>2. CASE UNCHANGED vars
  BY <1>1, <1>2
  DEF StoreInv, Shapes, InsertedOnce, TransactionLocal, IdsAreVisible, Visible, MergeInto,
      NoPhantomIds, vars, dbVars, txVars
<1>3. QED
  BY <1>1, <1>2, SaveStepInv, FailureInv DEF Next

(* "A rollback would leave phantom ids behind" (store.go:221): whatever    *)
(* the processes, their names and their failures, an id in a cache is the  *)
(* committed one.                                                          *)
THEOREM NoPhantomIdsCorrect == Spec => []NoPhantomIds
<1>1. StoreInv => NoPhantomIds
  BY DEF StoreInv
<1>2. QED
  BY <1>1, StoreInvInit, StoreInvStep, PTL DEF Spec

(* A committed id is for good (0001_init.sql:3-16, store.go:696-727):      *)
(* no step of any process gives a name another id.                         *)
THEOREM IdsAreForGood ==
  Spec => [][\A k \in Key : dict[k] # None => dict'[k] = dict[k]]_vars
<1>1. ASSUME StoreInv, [Next]_vars
      PROVE  [\A k \in Key : dict[k] # None => dict'[k] = dict[k]]_vars
  <2>1. ASSUME NEW p \in Proc, CommitTx(p), NEW k \in Key, dict[k] # None
        PROVE  dict'[k] = dict[k]
    BY <2>1, <1>1 DEF CommitTx, MergeInto, StoreInv, InsertedOnce
  <2>2. ASSUME NEW p \in Proc, SaveStep(p) \/ Failure(p), ~CommitTx(p)
        PROVE  dict' = dict
    BY <2>2 DEF SaveStep, Failure, Start, DrawId, InsertKey, SelectIds, SendBatch, Commit,
       Learn, StatementFails, CommitReplyLost, SequenceExhausted, DeadlockVictim, Kill, dbVars
  <2>3. QED
    BY <2>1, <2>2, <1>1 DEF Next
<1>2. QED
  BY <1>1, StoreInvInit, StoreInvStep, PTL DEF Spec

-----------------------------------------------------------------------------
(* SaveLedger is atomic.  What a reader sees of a stretch depends on three *)
(* things: no id stands for two names of one dictionary, a call commits    *)
(* only when it has an id for each of its names, and a committed row keeps *)
(* naming what it was saved for.                                           *)

(* An id that stands for a name, or will: committed, inserted or drawn. *)
Holds(k, i) ==
  /\ i # None
  /\ \/ dict[k] = i
     \/ \E q \in Proc : mine[q][k] = i
     \/ \E q \in Proc : at[q] # Idle /\ at[q].key = k /\ at[q].id = i

(* Ids come from the sequences and stand for one name each. *)
IdsUnique ==
  /\ \A k \in Key, i \in Nat : Holds(k, i) => i <= issued[KindOf[k]]
  /\ \A j, k \in Key, i \in Nat : KindOf[j] = KindOf[k] /\ Holds(j, i) /\ Holds(k, i) => j = k

(* How far a call has come: a name that is not to be inserted any more has *)
(* an id its transaction sees, and it has read those of the dictionaries   *)
(* behind it.                                                              *)
Progress(p) ==
  /\ at[p] # Idle => at[p].id # None
  /\ pc[p] = "resolve" => kind[p] \in Kind
  /\ pc[p] \in {"resolve", "send", "commit"} =>
       /\ item[p] <= Len(Plan[p])
       /\ \A k \in Keys(p) : /\ k \in todo[p] \/ Visible(p)[k] # None
                             /\ pc[p] # "resolve" \/ KindOf[k] < kind[p] => ids[p][k] # None

(* A row holds the committed ids of the names it was saved for. *)
RowsRead ==
  \A r \in table : /\ r.tx \in Tx
                   /\ \A kd \in Kind : /\ r.ids[kd] # None
                                       /\ r.ids[kd] = dict[Uses[r.tx][kd]]

AtomicInv ==
  /\ StoreInv
  /\ kind \in [Proc -> Nat]
  /\ worker \in Nat
  /\ IdsUnique
  /\ RowsRead
  /\ \A p \in Proc : Progress(p)

(* Every committed row reads back as what it was saved for. *)
LEMMA RowsReadBack ==
  AtomicInv => Readable = {t \in Tx : \E r \in table : r.tx = t}
<1>1. SUFFICES ASSUME AtomicInv, NEW r \in table PROVE ReadsBack(r)
  BY DEF Readable
<1>2. SUFFICES ASSUME NEW kd \in Kind, NEW k \in Key, KindOf[k] = kd
               PROVE  k = Uses[r.tx][kd] <=> dict[k] = r.ids[kd]
  BY DEF ReadsBack
<1> DEFINE u == Uses[r.tx][kd]
<1>3. u \in Key /\ KindOf[u] = kd /\ r.ids[kd] # None /\ r.ids[kd] = dict[u]
  BY <1>1, StoreAssumption DEF AtomicInv, RowsRead
<1>4. dict[u] \in Nat
  BY <1>1, <1>3 DEF AtomicInv, StoreInv, Shapes
<1>5. ASSUME dict[k] = r.ids[kd] PROVE k = u
  <2>1. Holds(k, dict[u]) /\ Holds(u, dict[u])
    BY <1>3, <1>5 DEF Holds
  <2>2. QED
    BY <1>1, <1>2, <1>3, <1>4, <2>1 DEF AtomicInv, IdsUnique
<1>6. QED
  BY <1>3, <1>5

LEMMA AtomicInvInit == Init => AtomicInv /\ Readable = {}
<1>1. SUFFICES ASSUME Init PROVE AtomicInv /\ Readable = {}
  OBVIOUS
<1>2. NoIds \in [Key -> Nat] /\ \A k \in Key : NoIds[k] = None
  BY DEF NoIds, None
<1>3. StoreInv
  BY <1>1, StoreInvInit
<1>4. kind \in [Proc -> Nat] /\ worker \in Nat /\ table = {}
  BY <1>1 DEF Init
<1>5. \A k \in Key, i \in Nat : ~Holds(k, i)
  BY <1>1, <1>2 DEF Init, Holds
<1>6. \A p \in Proc : Progress(p)
  BY <1>1 DEF Init, Progress
<1>7. QED
  BY <1>3, <1>4, <1>5, <1>6 DEF AtomicInv, IdsUnique, RowsRead, Readable

-----------------------------------------------------------------------------
(* Ids that stood for nothing still do: nothing new is to be compared.     *)
LEMMA NoNewHolder ==
  ASSUME AtomicInv, issued' = issued,
         \A k \in Key, i \in Nat : Holds(k, i)' => Holds(k, i)
  PROVE  IdsUnique'
BY DEF AtomicInv, IdsUnique

(* A call that does not move keeps what it has, as ids are for good. *)
LEMMA OthersProgress ==
  ASSUME AtomicInv, NEW q \in Proc,
         item'[q] = item[q], pc'[q] = pc[q], kind'[q] = kind[q], todo'[q] = todo[q],
         at'[q] = at[q], mine'[q] = mine[q], ids'[q] = ids[q],
         \A k \in Key : dict[k] # None => dict'[k] # None
  PROVE  Progress(q)'
<1>1. Keys(q)' = Keys(q)
  BY DEF Keys, Txs, Batch
<1>2. Progress(q)
  BY DEF AtomicInv
<1>3. CASE pc[q] \in {"resolve", "send", "commit"}
  <2>1. item[q] <= Len(Plan[q]) /\ Keys(q) \subseteq Key
    BY <1>2, <1>3, KeysOfCall DEF Progress, AtomicInv, StoreInv
  <2>2. \A k \in Keys(q) : Visible(q)[k] # None => Visible(q)'[k] # None
    BY <2>1 DEF Visible, MergeInto
  <2>3. QED
    BY <1>1, <1>2, <1>3, <2>1, <2>2 DEF Progress
<1>4. CASE pc[q] \notin {"resolve", "send", "commit"}
  BY <1>2, <1>4 DEF Progress
<1>5. QED
  BY <1>3, <1>4

(* What changes no row, no name and no other call leaves the table as it   *)
(* reads.                                                                  *)
LEMMA QuietStep ==
  ASSUME AtomicInv, StoreInv', NEW p \in Proc, Progress(p)', IdsUnique',
         kind' \in [Proc -> Nat], dict' = dict, table' = table, worker' = worker,
         \A q \in Proc : q # p =>
           /\ item'[q] = item[q] /\ pc'[q] = pc[q] /\ kind'[q] = kind[q]
           /\ todo'[q] = todo[q] /\ at'[q] = at[q] /\ mine'[q] = mine[q] /\ ids'[q] = ids[q]
  PROVE  AtomicInv' /\ UNCHANGED <<Readable, worker>>
<1>1. \A q \in Proc : Progress(q)'
  BY OthersProgress
<1>2. AtomicInv'
  BY <1>1 DEF AtomicInv, RowsRead
<1>3. Readable' = Readable
  BY DEF Readable, ReadsBack
<1>4. QED
  BY <1>2, <1>3

(* A call that has ended has nothing to answer for. *)
LEMMA OutsideProgress ==
  ASSUME NEW p \in Proc, pc'[p] \in {"ready", "learn"}, at'[p] = Idle
  PROVE  Progress(p)'
BY DEF Progress

LEMMA StartQuiet ==
  ASSUME AtomicInv, NEW p \in Proc, Start(p)
  PROVE  AtomicInv' /\ UNCHANGED <<Readable, worker>>
<1>1. StoreInv' /\ StoreInv /\ Shapes
  BY StartStep DEF AtomicInv, StoreInv
<1>2. /\ pc[p] = "ready" /\ pc' = [pc EXCEPT ![p] = "resolve"] /\ item[p] <= Len(Plan[p])
      /\ todo' = [todo EXCEPT ![p] = {k \in Keys(p) : cache[p][k] = None}]
      /\ kind' = [kind EXCEPT ![p] = 1]
      /\ \E new : ids' = [ids EXCEPT ![p] = new]
      /\ UNCHANGED <<dict, issued, table, worker, cache, item, at, mine>>
  BY DEF Start, Goto, dbVars
<1>3. kind' \in [Proc -> Nat] /\ kind'[p] = 1
  BY <1>2 DEF AtomicInv
<1>4. IdsUnique'
  BY <1>2, NoNewHolder DEF Holds
<1>5. Progress(p)'
  <2>1. Keys(p)' = Keys(p) /\ Keys(p) \subseteq Key
    BY <1>1, <1>2, KeysOfCall DEF Keys, Txs, Batch
  <2>2. at[p] = Idle
    BY <1>1, <1>2 DEF StoreInv, TransactionLocal
  <2>3. \A k \in Key : cache[p][k] # None => Visible(p)'[k] # None
    BY <1>1, <1>2 DEF StoreInv, NoPhantomIds, Visible, MergeInto
  <2>4. \A k \in Keys(p) : KindOf[k] \in Kind /\ ~(KindOf[k] < 1)
    BY <2>1, StoreAssumption DEF Kind
  <2>5. /\ pc'[p] = "resolve" /\ todo'[p] = {k \in Keys(p) : cache[p][k] = None}
    BY <1>1, <1>2 DEF Shapes
  <2>6. QED
    BY <1>2, <1>3, <2>1, <2>2, <2>3, <2>4, <2>5 DEF Progress, Kind
<1>6. QED
  BY <1>1, <1>2, <1>3, <1>4, <1>5, QuietStep DEF AtomicInv, Shapes

(* An id is drawn for the first time. *)
LEMMA DrawIdQuiet ==
  ASSUME AtomicInv, NEW p \in Proc, NEW k \in Key, DrawId(p, k)
  PROVE  AtomicInv' /\ UNCHANGED <<Readable, worker>>
<1>1. StoreInv' /\ StoreInv /\ Shapes
  BY DrawIdStep DEF AtomicInv, StoreInv
<1>2. PICK new : new = issued[kind[p]] + 1
  OBVIOUS
<1>3. /\ pc[p] = "resolve" /\ KindOf[k] = kind[p] /\ kind[p] \in Kind
      /\ issued' = [issued EXCEPT ![kind[p]] = new]
      /\ at' = [at EXCEPT ![p] = [key |-> k, id |-> new]]
      /\ UNCHANGED <<dict, table, worker, cache, pc, item, kind, todo, mine, ids>>
  BY <1>2, StoreAssumption DEF DrawId, AtomicInv, Progress
<1>4. issued[kind[p]] \in Nat /\ new \in Nat /\ new # None /\ ~(new <= issued[kind[p]])
  BY <1>1, <1>2, <1>3 DEF Shapes, None
<1>5. \A j \in Key, i \in Nat : Holds(j, i)' => Holds(j, i) \/ (j = k /\ i = new)
  BY <1>1, <1>3 DEF Holds, Shapes
<1>6. /\ issued'[kind[p]] = new
      /\ \A kd \in Kind : issued[kd] <= issued'[kd] /\ issued[kd] \in Nat /\ issued'[kd] \in Nat
  BY <1>1, <1>2, <1>3, <1>4 DEF Shapes
<1>7. IdsUnique'
  <2>1. ASSUME NEW j \in Key, NEW i \in Nat, Holds(j, i)'
        PROVE  i <= issued'[KindOf[j]]
    <3>1. KindOf[j] \in Kind
      BY StoreAssumption
    <3>2. CASE Holds(j, i)
      <4>1. i <= issued[KindOf[j]]
        BY <3>2 DEF AtomicInv, IdsUnique
      <4>2. QED
        BY <3>1, <4>1, <1>6
    <3>3. CASE j = k /\ i = new
      BY <3>3, <1>3, <1>4, <1>6
    <3>4. QED
      BY <2>1, <3>2, <3>3, <1>5
  <2>2. ASSUME NEW j \in Key, NEW l \in Key, NEW i \in Nat, KindOf[j] = KindOf[l],
               Holds(j, i)', Holds(l, i)'
        PROVE  j = l
    <3>1. ASSUME NEW m \in Key, KindOf[m] = KindOf[k], Holds(m, i) PROVE i # new
      <4>1. i <= issued[KindOf[m]]
        BY <3>1 DEF AtomicInv, IdsUnique
      <4>2. QED
        BY <4>1, <3>1, <1>3, <1>4
    <3>2. CASE Holds(j, i) /\ Holds(l, i)
      BY <2>2, <3>2 DEF AtomicInv, IdsUnique
    <3>3. CASE ~Holds(j, i)
      BY <2>2, <3>1, <3>3, <1>5
    <3>4. CASE ~Holds(l, i)
      BY <2>2, <3>1, <3>4, <1>5
    <3>5. QED
      BY <3>2, <3>3, <3>4
  <2>3. QED
    BY <2>1, <2>2, <1>3 DEF IdsUnique
<1>8. Progress(p)'
  <2>1. Keys(p)' = Keys(p) /\ Visible(p)' = Visible(p)
    BY <1>3 DEF Keys, Txs, Batch, Visible, MergeInto
  <2>2. at'[p].id = new
    BY <1>1, <1>3 DEF Shapes
  <2>3. QED
    BY <2>1, <2>2, <1>3, <1>4 DEF AtomicInv, Progress
<1>9. QED
  BY <1>1, <1>3, <1>7, <1>8, QuietStep DEF AtomicInv, Shapes

(* A key is inserted with the id that was drawn for it. *)
LEMMA InsertKeyQuiet ==
  ASSUME AtomicInv, NEW p \in Proc, InsertKey(p)
  PROVE  AtomicInv' /\ UNCHANGED <<Readable, worker>>
<1>1. StoreInv' /\ StoreInv /\ Shapes
  BY InsertKeyStep DEF AtomicInv, StoreInv
<1>2. PICK k : k = at[p].key
  OBVIOUS
<1>3. PICK inserted : inserted = IF dict[k] = None THEN at[p].id ELSE mine[p][k]
  OBVIOUS
<1>4. /\ at[p] # Idle /\ pc[p] = "resolve"
      /\ mine' = [mine EXCEPT ![p][k] = inserted]
      /\ todo' = [todo EXCEPT ![p] = @ \ {k}] /\ at' = [at EXCEPT ![p] = Idle]
      /\ UNCHANGED <<dict, issued, table, worker, cache, pc, item, kind, ids>>
  BY <1>2, <1>3 DEF InsertKey, dbVars
<1>5. k \in Key /\ at[p].id # None
  BY <1>1, <1>2, <1>4 DEF AtomicInv, Shapes, Progress
<1>6. /\ mine'[p][k] = inserted
      /\ \A j \in Key : j # k => mine'[p][j] = mine[p][j]
      /\ \A q \in Proc : q # p => mine'[q] = mine[q]
  BY <1>1, <1>4, <1>5 DEF Shapes
<1>7. IdsUnique'
  <2>1. ASSUME NEW j \in Key, NEW i \in Nat, Holds(j, i)' PROVE Holds(j, i)
    <3>1. \A q \in Proc : at'[q] # Idle => at'[q] = at[q]
      BY <1>1, <1>4 DEF Shapes
    <3>2. \A q \in Proc : mine'[q][j] = mine[q][j]
                          \/ (q = p /\ j = k /\ mine'[q][j] = at[p].id)
      BY <1>3, <1>6
    <3>3. QED
      BY <2>1, <3>1, <3>2, <1>2, <1>4 DEF Holds
  <2>2. QED
    BY <2>1, <1>4, NoNewHolder
<1>8. Progress(p)'
  <2>1. Keys(p)' = Keys(p) /\ item[p] <= Len(Plan[p]) /\ Keys(p) \subseteq Key
    BY <1>1, <1>4, KeysOfCall DEF Keys, Txs, Batch, AtomicInv, Progress
  <2>2. Visible(p)'[k] # None
    BY <1>3, <1>4, <1>5, <1>6 DEF Visible, MergeInto
  <2>3. \A j \in Key : j # k => Visible(p)'[j] = Visible(p)[j]
    BY <1>4, <1>6 DEF Visible, MergeInto
  <2>4. \A j \in Keys(p) : j \in todo[p]' \/ Visible(p)'[j] # None
    BY <1>1, <1>4, <2>1, <2>2, <2>3 DEF AtomicInv, Progress, Shapes
  <2>5. at'[p] = Idle
    BY <1>1, <1>4 DEF Shapes
  <2>6. QED
    BY <1>4, <2>1, <2>4, <2>5 DEF AtomicInv, Progress
<1>9. QED
  BY <1>1, <1>4, <1>6, <1>7, <1>8, QuietStep DEF AtomicInv, Shapes

(* No name of the dictionary is left without an id. *)
LEMMA SelectIdsQuiet ==
  ASSUME AtomicInv, NEW p \in Proc, SelectIds(p)
  PROVE  AtomicInv' /\ UNCHANGED <<Readable, worker>>
<1>1. StoreInv' /\ StoreInv /\ Shapes
  BY SelectIdsStep DEF AtomicInv, StoreInv
<1>2. PICK read : read = [k \in Key |->
                     IF k \in Keys(p) /\ KindOf[k] = kind[p] /\ ids[p][k] = None
                       THEN Visible(p)[k] ELSE ids[p][k]]
  OBVIOUS
<1>3. /\ at[p] = Idle /\ pc[p] = "resolve" /\ \A k \in todo[p] : KindOf[k] # kind[p]
      /\ pc' = [pc EXCEPT ![p] = IF kind[p] + 1 \in Kind THEN "resolve" ELSE "send"]
      /\ ids' = [ids EXCEPT ![p] = read]
      /\ kind' = [kind EXCEPT ![p] = @ + 1]
      /\ UNCHANGED <<dict, issued, table, worker, cache, item, todo, at, mine>>
  BY <1>2 DEF SelectIds, Goto, dbVars
<1>4. IdsUnique'
  BY <1>3, NoNewHolder DEF Holds
<1>5. kind[p] \in Kind /\ kind' \in [Proc -> Nat] /\ kind'[p] = kind[p] + 1
  BY <1>3 DEF AtomicInv, Progress
<1>6. Progress(p)'
  <2>1. /\ Keys(p)' = Keys(p) /\ Visible(p)' = Visible(p)
        /\ item[p] <= Len(Plan[p]) /\ Keys(p) \subseteq Key
    BY <1>1, <1>3, KeysOfCall DEF Keys, Txs, Batch, Visible, MergeInto, AtomicInv, Progress
  <2>2. \A k \in Keys(p) : k \in todo[p] \/ Visible(p)[k] # None
    BY <1>3 DEF AtomicInv, Progress
  <2>3. pc'[p] = IF kind[p] + 1 \in Kind THEN "resolve" ELSE "send"
    BY <1>1, <1>3 DEF Shapes
  <2>4. ASSUME NEW k \in Keys(p), pc'[p] # "resolve" \/ KindOf[k] < kind[p] + 1
        PROVE  ids'[p][k] # None
    <3>1. KindOf[k] <= kind[p] /\ KindOf[k] \in Kind
      BY <1>5, <2>1, <2>3, <2>4, StoreAssumption DEF Kind
    <3>2. ids'[p][k] = IF KindOf[k] = kind[p] /\ ids[p][k] = None
                         THEN Visible(p)[k] ELSE ids[p][k]
      BY <1>1, <1>2, <1>3, <2>1 DEF Shapes
    <3>3. CASE KindOf[k] = kind[p]
      BY <1>3, <2>2, <3>2, <3>3
    <3>4. CASE KindOf[k] < kind[p]
      BY <1>3, <3>2, <3>4 DEF AtomicInv, Progress
    <3>5. QED
      BY <1>5, <3>1, <3>3, <3>4 DEF Kind
  <2>5. QED
    BY <1>3, <1>5, <2>1, <2>2, <2>3, <2>4 DEF Progress
<1>7. QED
  BY <1>1, <1>3, <1>4, <1>5, <1>6, QuietStep DEF AtomicInv, Shapes

LEMMA SendBatchQuiet ==
  ASSUME AtomicInv, NEW p \in Proc, SendBatch(p)
  PROVE  AtomicInv' /\ UNCHANGED <<Readable, worker>>
<1>1. StoreInv' /\ StoreInv /\ Shapes
  BY SendBatchStep DEF AtomicInv, StoreInv
<1>2. /\ pc[p] = "send" /\ pc' = [pc EXCEPT ![p] = "commit"]
      /\ UNCHANGED <<dict, issued, table, worker, cache, item, kind, todo, at, mine, ids>>
  BY DEF SendBatch, Goto, dbVars, txVars
<1>3. IdsUnique'
  BY <1>2, NoNewHolder DEF Holds
<1>4. Progress(p)'
  <2>1. Keys(p)' = Keys(p) /\ Visible(p)' = Visible(p) /\ pc'[p] = "commit"
    BY <1>1, <1>2 DEF Keys, Txs, Batch, Visible, MergeInto, Shapes
  <2>2. QED
    BY <1>2, <2>1 DEF AtomicInv, Progress
<1>5. QED
  BY <1>1, <1>2, <1>3, <1>4, QuietStep DEF AtomicInv, Shapes

LEMMA LearnQuiet ==
  ASSUME AtomicInv, NEW p \in Proc, Learn(p)
  PROVE  AtomicInv' /\ UNCHANGED <<Readable, worker>>
<1>1. StoreInv' /\ StoreInv /\ Shapes
  BY LearnStep DEF AtomicInv, StoreInv
<1>2. /\ pc[p] = "learn" /\ pc' = [pc EXCEPT ![p] = "ready"] /\ item' = [item EXCEPT ![p] = @ + 1]
      /\ UNCHANGED <<dict, issued, table, worker, kind, todo, at, mine, ids>>
  BY DEF Learn, Goto, dbVars, txVars
<1>3. IdsUnique'
  BY <1>2, NoNewHolder DEF Holds
<1>4. Progress(p)'
  BY <1>1, <1>2, OutsideProgress DEF StoreInv, Shapes, TransactionLocal
<1>5. QED
  BY <1>1, <1>2, <1>3, <1>4, QuietStep DEF AtomicInv, Shapes

(* A rollback takes ids away that nobody else has seen. *)
LEMMA RollbackQuiet ==
  ASSUME AtomicInv, StoreInv', NEW p \in Proc, Rollback(p), pc' = [pc EXCEPT ![p] = "ready"],
         \A q \in Proc : q # p => item'[q] = item[q],
         UNCHANGED <<dict, issued, table, worker, kind, ids>>
  PROVE  AtomicInv' /\ UNCHANGED <<Readable, worker>>
<1>1. StoreInv /\ Shapes
  BY DEF AtomicInv, StoreInv
<1>2. /\ mine' = [mine EXCEPT ![p] = NoIds] /\ at' = [at EXCEPT ![p] = Idle]
      /\ todo' = [todo EXCEPT ![p] = {}]
  BY DEF Rollback
<1>3. IdsUnique'
  <2>1. \A k \in Key : NoIds[k] = None
    BY DEF NoIds
  <2>2. ASSUME NEW k \in Key, NEW i \in Nat, Holds(k, i)' PROVE Holds(k, i)
    <3>1. \A q \in Proc : at'[q] # Idle => at'[q] = at[q]
      BY <1>1, <1>2 DEF Shapes
    <3>2. \A q \in Proc : mine'[q][k] # None => mine'[q][k] = mine[q][k]
      BY <1>1, <1>2, <2>1 DEF Shapes
    <3>3. QED
      BY <2>2, <3>1, <3>2 DEF Holds
  <2>3. QED
    BY <2>2, NoNewHolder
<1>4. Progress(p)'
  BY <1>1, <1>2, OutsideProgress DEF Shapes
<1>5. QED
  BY <1>1, <1>2, <1>3, <1>4, QuietStep DEF AtomicInv, Shapes

-----------------------------------------------------------------------------
(* The commit makes the whole stretch readable, with its checkpoint. *)
LEMMA CommitSaves ==
  ASSUME AtomicInv, StoreInv', NEW p \in Proc, pc[p] = "commit", CommitTx(p),
         pc' = [pc EXCEPT ![p] = "learn"] \/ pc' = [pc EXCEPT ![p] = "ready"],
         UNCHANGED <<item, kind, todo, at, ids>>
  PROVE  AtomicInv' /\ Saves!Next
<1>1. StoreInv /\ Shapes
  BY DEF AtomicInv, StoreInv
<1>2. /\ dict' = MergeInto(dict, mine[p]) /\ mine' = [mine EXCEPT ![p] = NoIds]
      /\ table' = table \cup {Encode(p, t) : t \in Fresh(p)}
      /\ worker' = (IF worker < Batch(p).to THEN Batch(p).to ELSE worker)
      /\ issued' = issued
  BY DEF CommitTx
<1>3. \A k \in Key : dict'[k] = IF mine[p][k] # None THEN mine[p][k] ELSE dict[k]
  <2>1. dict \in [Key -> Nat] /\ mine[p] \in [Key -> Nat]
    BY <1>1 DEF Shapes
  <2>2. dict' = MergeInto(dict, mine[p])
    BY <1>2
  <2>3. QED
    BY <2>1, <2>2, MergeType
<1>4. \A k \in Key : dict[k] # None => dict'[k] = dict[k]
  BY <1>1, <1>3 DEF StoreInv, InsertedOnce
<1>5. \A k \in Key : NoIds[k] = None
  BY DEF NoIds
<1>6. item[p] <= Len(Plan[p]) /\ item[p] \in 1..Len(Plan[p])
  BY <1>1, PlanAssumption DEF AtomicInv, Progress, Shapes
<1>7. /\ Batch(p).from \in Ledger /\ Batch(p).to \in Ledger /\ Batch(p).from <= Batch(p).to
      /\ Batch(p).from .. Batch(p).to \subseteq Ledger
  <2>1. item[p] \in 1..Len(Plan[p]) /\ Plan[p] \in Seq([from : Ledger, to : Ledger])
    BY <1>6, PlanAssumption
  <2>2. Batch(p) \in [from : Ledger, to : Ledger]
    <3>1. PICK S : S = [from : Ledger, to : Ledger]
      OBVIOUS
    <3>2. Plan[p] \in Seq(S)
      BY <2>1, <3>1
    <3>3. Plan[p][item[p]] \in S
      BY <2>1, <3>2
    <3>4. QED
      BY <3>1, <3>3 DEF Batch
  <2>3. Batch(p).from <= Batch(p).to /\ Batch(p).from .. Batch(p).to \subseteq Ledger
    BY <2>1, PlanAssumption DEF Batch
  <2>4. QED
    BY <2>2, <2>3
<1>8. Txs(p) \subseteq Tx /\ Keys(p) \subseteq Key
  BY <1>1, <1>6, <1>7, KeysOfCall, StoreAssumption DEF Txs
<1>9. worker' \in Nat
  BY <1>2, <1>7, StoreAssumption DEF AtomicInv
<1>10. IdsUnique'
  <2>1. ASSUME NEW k \in Key, NEW i \in Nat, Holds(k, i)' PROVE Holds(k, i)
    <3>1. \A q \in Proc : mine'[q][k] # None => mine'[q][k] = mine[q][k]
      BY <1>1, <1>2, <1>5 DEF Shapes
    <3>2. QED
      BY <2>1, <3>1, <1>3 DEF Holds
  <2>2. QED
    BY <2>1, <1>2, NoNewHolder
<1>11. ASSUME NEW t \in Txs(p), NEW kd \in Kind
       PROVE  ids[p][Uses[t][kd]] # None /\ ids[p][Uses[t][kd]] = dict'[Uses[t][kd]]
  <2>1. Uses[t][kd] \in Keys(p)
    BY DEF Keys
  <2>2. ids[p][Uses[t][kd]] # None
    BY <2>1 DEF AtomicInv, Progress
  <2>3. ids[p][Uses[t][kd]] = Visible(p)[Uses[t][kd]]
    BY <1>1, <1>8, <2>1, <2>2 DEF StoreInv, IdsAreVisible
  <2>4. QED
    BY <1>2, <2>2, <2>3 DEF Visible
<1>12. RowsRead'
  <2>1. ASSUME NEW r \in table
        PROVE  r.tx \in Tx /\ \A kd \in Kind : r.ids[kd] # None /\ r.ids[kd] = dict'[Uses[r.tx][kd]]
    BY <1>4, StoreAssumption DEF AtomicInv, RowsRead
  <2>2. ASSUME NEW t \in Txs(p)
        PROVE  /\ Encode(p, t).tx \in Tx
               /\ \A kd \in Kind : /\ Encode(p, t).ids[kd] # None
                                   /\ Encode(p, t).ids[kd] = dict'[Uses[Encode(p, t).tx][kd]]
    BY <1>8, <1>11 DEF Encode
  <2>3. \A r \in table' : r \in table \/ \E t \in Txs(p) : r = Encode(p, t)
    BY <1>2 DEF Fresh
  <2>4. QED
    BY <2>1, <2>2, <2>3 DEF RowsRead
<1>13. ASSUME NEW q \in Proc PROVE Progress(q)'
  <2>1. CASE q = p
    <3>1. at[p] = Idle /\ pc'[p] \in {"ready", "learn"} /\ at'[p] = at[p]
      BY <1>1 DEF StoreInv, Shapes, TransactionLocal
    <3>2. QED
      BY <2>1, <3>1, OutsideProgress
  <2>2. CASE q # p
    BY <2>2, <1>1, <1>2, <1>4, OthersProgress DEF Shapes
  <2>3. QED
    BY <2>1, <2>2
<1>14. AtomicInv'
  BY <1>9, <1>10, <1>12, <1>13 DEF AtomicInv
<1>15. Readable' = Readable \cup Txs(p)
  <2>1. Readable = {t \in Tx : \E r \in table : r.tx = t}
    BY RowsReadBack
  <2>2. (Readable = {t \in Tx : \E r \in table : r.tx = t})'
    BY <1>14, RowsReadBack, PTL
  <2>3. \A t \in Tx : (\E r \in table' : r.tx = t) <=> (\E r \in table : r.tx = t) \/ t \in Txs(p)
    <3>1. table' = table \cup {Encode(p, t) : t \in Fresh(p)}
      BY <1>2
    <3>2. \A t \in Fresh(p) : Encode(p, t).tx = t
      BY DEF Encode
    <3>3. \A t \in Txs(p) : t \in Fresh(p) \/ \E r \in table : r.tx = t
      BY DEF Fresh
    <3>4. \A t \in Fresh(p) : t \in Txs(p)
      BY DEF Fresh
    <3>5. QED
      BY <3>1, <3>2, <3>3, <3>4
  <2>4. QED
    BY <1>8, <2>1, <2>2, <2>3
<1>16. Saves!SaveLedger(Batch(p).to, Saves!RowsIn(Batch(p).from, Batch(p).to))
  BY <1>2, <1>15 DEF Saves!SaveLedger, Saves!RowsIn, Txs
<1>17. QED
  BY <1>7, <1>14, <1>16 DEF Saves!Next

LEMMA AtomicStep ==
  AtomicInv /\ [Next]_vars => AtomicInv' /\ [Saves!Next]_(Saves!tableVars)
<1>1. SUFFICES ASSUME AtomicInv, [Next]_vars
               PROVE  AtomicInv' /\ (Saves!Next \/ UNCHANGED <<Readable, worker>>)
  BY DEF Saves!tableVars
<1>2. StoreInv /\ StoreInv'
  BY <1>1, StoreInvStep DEF AtomicInv
<1>3. CASE UNCHANGED vars
  <2>1. UNCHANGED <<dict, issued, table, worker, cache, pc, item, kind, todo, at, mine, ids>>
    BY <1>3 DEF vars, dbVars, txVars
  <2>2. IdsUnique'
    BY <1>1, <2>1, NoNewHolder DEF Holds
  <2>3. \A q \in Proc : Progress(q)'
    BY <1>1, <2>1, OthersProgress
  <2>4. AtomicInv'
    BY <1>1, <1>2, <2>1, <2>2, <2>3 DEF AtomicInv, RowsRead
  <2>5. Readable' = Readable
    BY <2>1 DEF Readable, ReadsBack
  <2>6. QED
    BY <2>1, <2>4, <2>5
<1>4. ASSUME NEW p \in Proc, SaveStep(p)
      PROVE  AtomicInv' /\ (Saves!Next \/ UNCHANGED <<Readable, worker>>)
  <2>1. CASE Commit(p)
    BY <1>1, <1>2, <2>1, CommitSaves DEF Commit, Goto
  <2>2. CASE ~Commit(p)
    BY <1>1, <1>4, <2>2, StartQuiet, DrawIdQuiet, InsertKeyQuiet, SelectIdsQuiet,
       SendBatchQuiet, LearnQuiet
    DEF SaveStep
  <2>3. QED
    BY <2>1, <2>2
<1>5. ASSUME NEW p \in Proc, Failure(p)
      PROVE  AtomicInv' /\ (Saves!Next \/ UNCHANGED <<Readable, worker>>)
  <2>1. CASE CommitReplyLost(p)
    BY <1>1, <1>2, <2>1, CommitSaves DEF CommitReplyLost, Goto
  <2>2. CASE ~CommitReplyLost(p)
    <3>1. /\ Rollback(p) /\ pc' = [pc EXCEPT ![p] = "ready"]
          /\ UNCHANGED <<dict, issued, table, worker, kind, ids>>
      BY <1>5, <2>2
      DEF Failure, StatementFails, SequenceExhausted, DeadlockVictim, Kill, Goto, dbVars
    <3>2. \A q \in Proc : q # p => item'[q] = item[q]
      BY <1>2, <1>5, <2>2
      DEF Failure, StatementFails, SequenceExhausted, DeadlockVictim, Kill, StoreInv, Shapes
    <3>3. QED
      BY <1>1, <1>2, <3>1, <3>2, RollbackQuiet
  <2>3. QED
    BY <2>1, <2>2
<1>6. QED
  BY <1>1, <1>3, <1>4, <1>5 DEF Next

(* Store implements LedgerTable (store.go:130-133): for any processes,     *)
(* names, plans and faults, each step of SaveLedger is for its readers the *)
(* save of a whole stretch with its checkpoint, or nothing.                *)
THEOREM SaveIsAtomicCorrect == Spec => SaveIsAtomic
<1>1. Init => AtomicInv /\ Saves!Init
  BY AtomicInvInit DEF Init, Saves!Init
<1>2. Spec => Saves!Spec
  BY <1>1, AtomicStep, PTL DEF Spec, Saves!Spec
<1>3. QED
  BY <1>2 DEF SaveIsAtomic

=============================================================================
