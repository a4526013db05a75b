----------------------------- MODULE LedgerStats -----------------------------
(***************************************************************************)
(* The API's view of one ledger (Store.LedgerStats, served by              *)
(* ledgerSoroban) while the indexer processes of Indexer run: the worker   *)
(* checkpoint is read by one query and the rows are counted by another,    *)
(* with any steps of the indexer in between.                               *)
(***************************************************************************)
EXTENDS Indexer

CONSTANT Asked   \* the ledger sequences clients ask for

ASSUME AskedAssumption == Asked \subseteq Nat

VARIABLES
  phase,    \* of the request: idle, counting or answered
  seq,      \* the ledger asked for
  indexed,  \* stats.Indexed
  counted   \* the rows the count query saw

statsVars == <<phase, seq, indexed, counted>>
allVars == <<vars, statsVars>>

StatsTypeOK ==
  /\ phase \in {"idle", "counting", "answered"}
  /\ seq \in Asked
  /\ indexed \in BOOLEAN
  /\ counted \in SUBSET RowsOf[seq]

StatsInit ==
  /\ Init
  /\ phase = "idle"
  /\ seq \in Asked
  /\ indexed = FALSE
  /\ counted = {}

(* Mutant: the ledger after the checkpoint counts as indexed. *)
ReadCheckpointOffByOne(l) ==
  /\ phase # "counting"
  /\ phase' = "counting"
  /\ seq' = l
  /\ indexed' = (worker + 1 >= l)
  /\ counted' = {}
  /\ UNCHANGED vars

(* SELECT last_ledger FROM checkpoints WHERE name = 'worker' *)
ReadCheckpoint(l) ==
  /\ phase # "counting"
  /\ phase' = "counting"
  /\ seq' = l
  /\ indexed' = (worker >= l)
  /\ counted' = {}
  /\ UNCHANGED vars

(* SELECT count( * ) ... WHERE ledger = seq *)
CountRows ==
  /\ phase = "counting"
  /\ phase' = "answered"
  /\ counted' = stored \cap RowsOf[seq]
  /\ UNCHANGED <<vars, seq, indexed>>

StatsNext ==
  \/ Next /\ UNCHANGED statsVars
  \/ \E l \in Asked : ReadCheckpoint(l)
  \/ CountRows

StatsSpec == StatsInit /\ [][StatsNext]_allVars

(* The indexer processes run on, whatever clients ask. *)
StatsFairSpec == StatsSpec /\ Fairness

-----------------------------------------------------------------------------
(* "Zeros in an indexed ledger mean real silence" (store.go:257): an       *)
(* answer that says indexed and counts nothing is about a ledger without   *)
(* invocations.                                                            *)
IndexedSilenceIsReal ==
  (phase = "answered" /\ indexed /\ counted = {}) => RowsOf[seq] = {}

(* What does hold: from StartFlag on, while no backfill reaches past it,   *)
(* an answer that says indexed counts every invocation of the ledger, even *)
(* when the checkpoint moves between the two queries (store.go:267-275).   *)
IndexedCountIsComplete ==
  (phase = "answered" /\ indexed /\ seq >= StartFlag) => counted = RowsOf[seq]

=============================================================================
