-------------------------------- MODULE Store --------------------------------
(***************************************************************************)
(* internal/store: the transaction inside SaveLedger, run by several       *)
(* indexer processes against one PostgreSQL database.  Names are replaced  *)
(* by ids from three dictionary tables (contracts, functions,              *)
(* arg_addresses), resolved in that order; each process caches the ids it  *)
(* has learnt.  The transaction runs at READ COMMITTED: an INSERT of a key *)
(* that another open transaction has inserted waits for it to end, ids     *)
(* come from sequences that no rollback gives back, and a cycle of waiting *)
(* transactions costs one of them its life.                                *)
(***************************************************************************)
EXTENDS Integers, Sequences

CONSTANTS
  Proc,      \* indexer processes, each with one Store
  Key,       \* the names in all dictionaries
  KindOf,    \* the dictionary each key belongs to
  Tx,        \* the contract invocations of the history, by transaction
  Uses,      \* the key each transaction has in each dictionary
  Ledger,    \* the ledger sequences
  TxsOf,     \* the transactions of each ledger
  Plan,      \* the stretches of ledgers each process saves, in order
  MaxId,     \* the last value of each dictionary's id sequence
  MaxFaults  \* bound: failures, lost replies and kills in a behaviour

(* contracts, functions and arg_addresses, in the order they are resolved. *)
Kind == 1..3

ASSUME StoreAssumption ==
  /\ KindOf \in [Key -> Kind]
  /\ Uses \in [Tx -> [Kind -> Key]]
  /\ \A t \in Tx, kd \in Kind : KindOf[Uses[t][kd]] = kd
  /\ Ledger \subseteq Nat
  /\ TxsOf \in [Ledger -> SUBSET Tx]
  /\ MaxId \in [Kind -> Nat]
  /\ MaxFaults \in Nat

ASSUME PlanAssumption ==
  /\ Plan \in [Proc -> Seq([from : Ledger, to : Ledger])]
  /\ \A p \in Proc : \A i \in 1..Len(Plan[p]) :
       /\ Plan[p][i].from <= Plan[p][i].to
       /\ Plan[p][i].from .. Plan[p][i].to \subseteq Ledger

None == 0   \* no id; Postgres sequences start at 1

VARIABLES
  dict,    \* the committed dictionary rows: the id of each key, or None
  issued,  \* the last value each id sequence has given out
  table,   \* contract_transactions, committed: [tx, ids] records
  worker,  \* the committed worker checkpoint, 0 while there is none
  cache,   \* Store.contracts, functions and addresses of each process
  pc,      \* where each process is inside SaveLedger
  item,    \* the position of each process in its plan
  kind,    \* the dictionary being resolved
  todo,    \* the missing keys of that and later dictionaries not yet inserted
  at,      \* the key whose INSERT is executing, with the id drawn for it
  mine,    \* the dictionary rows this transaction has inserted
  ids,     \* contractIDs, functionIDs and addressIDs: known and resolved ids
  faults   \* faults so far, for the bound

dbVars == <<dict, issued, table, worker>>
txVars == <<kind, todo, at, mine, ids>>
vars == <<dbVars, cache, pc, item, txVars, faults>>

Idle == [key |-> "none", id |-> None]   \* no INSERT is executing

Row == [tx : Tx, ids : [Kind -> Nat]]

TypeOK ==
  /\ dict \in [Key -> Nat]
  /\ issued \in [Kind -> Nat]
  /\ \A kd \in Kind : issued[kd] <= MaxId[kd]
  /\ table \in SUBSET Row
  /\ worker \in Nat
  /\ cache \in [Proc -> [Key -> Nat]]
  /\ pc \in [Proc -> {"ready", "resolve", "send", "commit", "learn"}]
  /\ item \in [Proc -> Nat]
  /\ kind \in [Proc -> Nat]
  /\ todo \in [Proc -> SUBSET Key]
  /\ at \in [Proc -> {Idle} \cup [key : Key, id : Nat]]
  /\ mine \in [Proc -> [Key -> Nat]]
  /\ ids \in [Proc -> [Key -> Nat]]
  /\ faults \in Nat

NoIds == [k \in Key |-> None]

Init ==
  /\ dict = NoIds
  /\ issued = [kd \in Kind |-> 0]
  /\ table = {}
  /\ worker = 0
  /\ cache = [p \in Proc |-> NoIds]
  /\ pc = [p \in Proc |-> "ready"]
  /\ item = [p \in Proc |-> 1]
  /\ kind = [p \in Proc |-> 1]
  /\ todo = [p \in Proc |-> {}]
  /\ at = [p \in Proc |-> Idle]
  /\ mine = [p \in Proc |-> NoIds]
  /\ ids = [p \in Proc |-> NoIds]
  /\ faults = 0

Goto(p, from, to) == pc[p] = from /\ pc' = [pc EXCEPT ![p] = to]

Fault == faults < MaxFaults /\ faults' = faults + 1

-----------------------------------------------------------------------------
(* The rows of one call *)

Batch(p) == Plan[p][item[p]]

Txs(p) == UNION {TxsOf[l] : l \in Batch(p).from .. Batch(p).to}

Keys(p) == {Uses[t][kd] : t \in Txs(p), kd \in Kind}

(* dst overwritten with the ids src knows *)
MergeInto(dst, src) == [k \in Key |-> IF src[k] # None THEN src[k] ELSE dst[k]]

(* What a statement of p's transaction sees in the dictionaries. *)
Visible(p) == MergeInto(dict, mine[p])

-----------------------------------------------------------------------------
(* SaveLedger *)

(* The caches are copied for the keys of the call; Begin. *)
Start(p) ==
  /\ item[p] <= Len(Plan[p])
  /\ Goto(p, "ready", "resolve")
  /\ ids' = [ids EXCEPT ![p] = [k \in Key |-> IF k \in Keys(p) THEN cache[p][k] ELSE None]]
  /\ todo' = [todo EXCEPT ![p] = {k \in Keys(p) : cache[p][k] = None}]
  /\ kind' = [kind EXCEPT ![p] = 1]
  /\ UNCHANGED <<dbVars, cache, item, at, mine, faults>>

(* INSERT ... SELECT unnest(missing) ON CONFLICT DO NOTHING takes the keys *)
(* in map order, any order, and draws an id for each before it looks for a *)
(* conflict.                                                               *)
DrawId(p, k) ==
  /\ pc[p] = "resolve" /\ at[p] = Idle
  /\ k \in todo[p] /\ KindOf[k] = kind[p]
  /\ issued[kind[p]] < MaxId[kind[p]]
  /\ issued' = [issued EXCEPT ![kind[p]] = @ + 1]
  /\ at' = [at EXCEPT ![p] = [key |-> k, id |-> issued[kind[p]] + 1]]
  /\ UNCHANGED <<dict, table, worker, cache, pc, item, kind, todo, mine, ids, faults>>

(* p's INSERT waits for q's transaction, which has inserted the same key. *)
WaitsFor(p, q) ==
  /\ p # q
  /\ at[p] # Idle
  /\ mine[q][at[p].key] # None

InsertKey(p) ==
  /\ pc[p] = "resolve" /\ at[p] # Idle
  /\ \A q \in Proc : ~WaitsFor(p, q)
  /\ LET k == at[p].key
     IN  /\ mine' = [mine EXCEPT ![p][k] = IF dict[k] = None THEN at[p].id ELSE @]
         /\ todo' = [todo EXCEPT ![p] = @ \ {k}]
  /\ at' = [at EXCEPT ![p] = Idle]
  /\ UNCHANGED <<dbVars, cache, pc, item, kind, ids, faults>>

(* Mutant: the ids go to the cache before the commit. *)
SelectIdsCaching(p) ==
  /\ at[p] = Idle
  /\ \A k \in todo[p] : KindOf[k] # kind[p]
  /\ Goto(p, "resolve", IF kind[p] + 1 \in Kind THEN "resolve" ELSE "send")
  /\ ids' = [ids EXCEPT ![p] = [k \in Key |->
               IF k \in Keys(p) /\ KindOf[k] = kind[p] THEN Visible(p)[k] ELSE ids[p][k]]]
  /\ cache' = [cache EXCEPT ![p] = MergeInto(@, ids'[p])]
  /\ kind' = [kind EXCEPT ![p] = @ + 1]
  /\ UNCHANGED <<dbVars, item, todo, at, mine, faults>>

(* Mutant: INSERT ... RETURNING, which leaves out the conflicting rows. *)
SelectIdsReturning(p) ==
  /\ at[p] = Idle
  /\ \A k \in todo[p] : KindOf[k] # kind[p]
  /\ Goto(p, "resolve", IF kind[p] + 1 \in Kind THEN "resolve" ELSE "send")
  /\ ids' = [ids EXCEPT ![p] = [k \in Key |->
               IF k \in Keys(p) /\ KindOf[k] = kind[p] /\ ids[p][k] = None
                 THEN mine[p][k] ELSE ids[p][k]]]
  /\ kind' = [kind EXCEPT ![p] = @ + 1]
  /\ UNCHANGED <<dbVars, cache, item, todo, at, mine, faults>>

(* SELECT id ... WHERE key = ANY(missing), a statement of its own, after   *)
(* the last INSERT of the dictionary.                                      *)
SelectIds(p) ==
  /\ at[p] = Idle
  /\ \A k \in todo[p] : KindOf[k] # kind[p]
  /\ Goto(p, "resolve", IF kind[p] + 1 \in Kind THEN "resolve" ELSE "send")
  /\ ids' = [ids EXCEPT ![p] = [k \in Key |->
               IF k \in Keys(p) /\ KindOf[k] = kind[p] /\ ids[p][k] = None
                 THEN Visible(p)[k] ELSE ids[p][k]]]
  /\ kind' = [kind EXCEPT ![p] = @ + 1]
  /\ UNCHANGED <<dbVars, cache, item, todo, at, mine, faults>>

(* The rows and the checkpoint go out in one batch whose last statement    *)
(* locks the checkpoint row until the commit; one that finds it locked     *)
(* waits.  The rows only wait for rows of a transaction that will pass     *)
(* this point first.                                                       *)
SendBatch(p) ==
  /\ \A q \in Proc : pc[q] # "commit"
  /\ Goto(p, "send", "commit")
  /\ UNCHANGED <<dbVars, cache, item, txVars, faults>>

Encode(p, t) == [tx |-> t, ids |-> [kd \in Kind |-> ids[p][Uses[t][kd]]]]

(* ON CONFLICT (tx_hash, ledger_closed_at) DO NOTHING *)
Fresh(p) == {t \in Txs(p) : \A r \in table : r.tx # t}

CommitTx(p) ==
  /\ dict' = MergeInto(dict, mine[p])
  /\ table' = table \cup {Encode(p, t) : t \in Fresh(p)}
  /\ worker' = IF worker < Batch(p).to THEN Batch(p).to ELSE worker
  /\ mine' = [mine EXCEPT ![p] = NoIds]
  /\ UNCHANGED issued

Commit(p) ==
  /\ Goto(p, "commit", "learn")
  /\ CommitTx(p)
  /\ UNCHANGED <<cache, item, kind, todo, at, ids, faults>>

(* Mutant: the caller does not go on to the next stretch. *)
LearnInPlace(p) ==
  /\ Goto(p, "learn", "ready")
  /\ cache' = [cache EXCEPT ![p] = MergeInto(@, ids[p])]
  /\ UNCHANGED <<dbVars, item, txVars, faults>>

(* The resolved ids go to the caches only now; the call returns and its    *)
(* caller goes on to the next stretch.                                     *)
Learn(p) ==
  /\ Goto(p, "learn", "ready")
  /\ cache' = [cache EXCEPT ![p] = MergeInto(@, ids[p])]
  /\ item' = [item EXCEPT ![p] = @ + 1]
  /\ UNCHANGED <<dbVars, txVars, faults>>

-----------------------------------------------------------------------------
(* Failures: the transaction is rolled back and the caller tries the same  *)
(* stretch again.                                                          *)

Rollback(p) ==
  /\ mine' = [mine EXCEPT ![p] = NoIds]
  /\ at' = [at EXCEPT ![p] = Idle]
  /\ todo' = [todo EXCEPT ![p] = {}]

StatementFails(p) ==
  /\ Fault
  /\ \E from \in {"resolve", "send", "commit"} : Goto(p, from, "ready")
  /\ Rollback(p)
  /\ UNCHANGED <<dbVars, cache, item, kind, ids>>

(* The commit lands, its reply does not: an error, and nothing is cached. *)
CommitReplyLost(p) ==
  /\ Fault
  /\ Goto(p, "commit", "ready")
  /\ CommitTx(p)
  /\ UNCHANGED <<cache, item, kind, todo, at, ids>>

(* nextval: reached maximum value of sequence *)
Exhausted(p) ==
  \E k \in todo[p] : /\ pc[p] = "resolve" /\ at[p] = Idle
                     /\ KindOf[k] = kind[p]
                     /\ issued[kind[p]] >= MaxId[kind[p]]

SequenceExhausted(p) ==
  /\ Exhausted(p)
  /\ pc' = [pc EXCEPT ![p] = "ready"]
  /\ Rollback(p)
  /\ UNCHANGED <<dbVars, cache, item, kind, ids, faults>>

(* p waits for a transaction that waits, directly or not, for p. *)
InCycle(p) ==
  \E S \in SUBSET Proc :
    /\ p \in S
    /\ \A q \in S : (\E r \in S : WaitsFor(q, r)) /\ (\E r \in S : WaitsFor(r, q))

(* deadlock detected: PostgreSQL aborts one of the waiting transactions. *)
DeadlockVictim(p) ==
  /\ InCycle(p)
  /\ pc' = [pc EXCEPT ![p] = "ready"]
  /\ Rollback(p)
  /\ UNCHANGED <<dbVars, cache, item, kind, ids, faults>>

(* A restart resumes where a checkpoint says: at the interrupted stretch,  *)
(* one early when a backfill had not yet marked it, one later when a       *)
(* worker's commit had landed.                                             *)
ResumeAt(p) ==
  {i \in {item[p] - 1, item[p]} : i > 0}
    \cup {i \in {item[p] + 1} : item[p] <= Len(Plan[p]) /\ worker >= Batch(p).to}

(* A kill: the connection drops, the caches go with the process. *)
Kill(p) ==
  /\ Fault
  /\ pc' = [pc EXCEPT ![p] = "ready"]
  /\ Rollback(p)
  /\ cache' = [cache EXCEPT ![p] = NoIds]
  /\ \E i \in ResumeAt(p) : item' = [item EXCEPT ![p] = i]
  /\ UNCHANGED <<dbVars, kind, ids>>

-----------------------------------------------------------------------------
SaveStep(p) ==
  \/ Start(p)
  \/ \E k \in Key : DrawId(p, k)
  \/ InsertKey(p)
  \/ SelectIds(p)
  \/ SendBatch(p)
  \/ Commit(p)
  \/ Learn(p)

Failure(p) ==
  \/ StatementFails(p)
  \/ CommitReplyLost(p)
  \/ SequenceExhausted(p)
  \/ DeadlockVictim(p)
  \/ Kill(p)

Next == \E p \in Proc : SaveStep(p) \/ Failure(p)

Spec == Init /\ [][Next]_vars

(* A call runs to its end: its statements return, PostgreSQL breaks a      *)
(* deadlock.  A waiting INSERT is woken when its blocker ends, long before *)
(* the aborted caller is back from its five-second back-off: hence strong. *)
Fairness ==
  \A p \in Proc :
    /\ WF_vars(SaveStep(p))
    /\ SF_vars(InsertKey(p))
    /\ SF_vars(SendBatch(p))
    /\ WF_vars(DeadlockVictim(p))

FairSpec == Spec /\ Fairness

-----------------------------------------------------------------------------
(* Properties *)

(* "A rollback would leave phantom ids behind" (store.go:221): an id in    *)
(* the cache of a process is the committed id of that key, after any       *)
(* failed, half-failed or repeated call of any process.                    *)
NoPhantomIds ==
  \A p \in Proc, k \in Key : cache[p][k] # None => cache[p][k] = dict[k]

(* A row reads back as the invocation it was saved for: the joins of       *)
(* appendTransactions find one name for each id, the right one.            *)
ReadsBack(r) ==
  \A kd \in Kind, k \in Key :
    KindOf[k] = kd => (k = Uses[r.tx][kd] <=> dict[k] = r.ids[kd])

Readable == {t \in Tx : \E r \in table : r.tx = t /\ ReadsBack(r)}

(* SaveLedger is one atomic step for its readers (store.go:130-133): all   *)
(* the invocations of a stretch become readable under their own names      *)
(* together with its checkpoint, once, and stay so, whatever the other     *)
(* processes do meanwhile.                                                 *)
Saves == INSTANCE LedgerTable WITH Row <- Tx, RowsOf <- TxsOf, stored <- Readable
SaveIsAtomic == Saves!Spec

(* Every stretch gets saved for good although two callers may deadlock     *)
(* over the dictionary keys and retry (main.go:119-137, 165-169), as often *)
(* as they do, unless a retry finds an id sequence used up: each spends    *)
(* ids.                                                                    *)
EveryStretchSaved ==
  \A p \in Proc :
    <>[](item[p] > Len(Plan[p])) \/ <>(\E q \in Proc : Exhausted(q))

=============================================================================
