----------------------------- MODULE LedgerTable -----------------------------
(***************************************************************************)
(* What the store promises the indexer: saving a stretch of ledgers adds   *)
(* all their contract invocations and moves the worker checkpoint up to    *)
(* the last of them, in one step; saving them again changes nothing.       *)
(* Store implements this module and Indexer calls it.                      *)
(***************************************************************************)
EXTENDS Integers

CONSTANTS
  Row,     \* the contract invocations of the whole history
  Ledger,  \* the ledger sequences that may be saved
  RowsOf   \* the invocations of each ledger, none for a quiet one

VARIABLES
  stored,  \* the invocations that can be read back from contract_transactions
  worker   \* the checkpoint named 'worker', 0 while there is no such row

tableVars == <<stored, worker>>

TypeOK == stored \in SUBSET Row /\ worker \in Nat

Init == stored = {} /\ worker = 0

RowsIn(lo, hi) == UNION {RowsOf[l] : l \in lo..hi}

(* ON CONFLICT DO NOTHING makes a repeated row a no-op, GREATEST keeps the *)
(* checkpoint where it is when it is already ahead.                        *)
SaveLedger(seq, rows) ==
  /\ stored' = stored \cup rows
  /\ worker' = IF worker < seq THEN seq ELSE worker

Next == \E lo, hi \in Ledger : lo <= hi /\ SaveLedger(hi, RowsIn(lo, hi))

Spec == Init /\ [][Next]_tableVars

=============================================================================
