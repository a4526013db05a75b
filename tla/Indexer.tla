------------------------------- MODULE Indexer -------------------------------
(***************************************************************************)
(* cmd/indexer: the `follow` worker that tails the ledger archive and the  *)
(* `backfill` runs that index a fixed range, each a process of its own     *)
(* against one database.  A process may be killed between any two steps    *)
(* and run again; fetches, saves and checkpoint writes may fail; a save or *)
(* a checkpoint write may be applied although its caller sees an error.    *)
(* SaveLedger is the atomic operation of LedgerTable.                      *)
(***************************************************************************)
EXTENDS Integers

CONSTANTS
  Follower,     \* processes that run `follow --start StartFlag`
  Backfiller,   \* processes that run `backfill --start First --end Last`
  StartFlag,    \* 0 when the flag is not given
  First, Last,  \* the range of each backfill
  Concurrency,  \* the --concurrency of each backfill
  Row,          \* the contract invocations of the whole history
  RowsOf,       \* the invocations of each ledger, none for a quiet one
  MaxTip,       \* bound: ledgers the archive publishes in a behaviour
  MaxFaults     \* bound: kills, failed calls and lost replies in a behaviour

ASSUME FlagsAssumption ==
  /\ StartFlag \in Nat
  /\ First \in [Backfiller -> Nat \ {0}]
  /\ Last \in [Backfiller -> Nat \ {0}]
  /\ \A b \in Backfiller : First[b] <= Last[b]
  /\ Concurrency \in [Backfiller -> Nat \ {0}]

ASSUME ProcessAssumption == Follower \cap Backfiller = {}

ASSUME RowsAssumption == RowsOf \in [1..MaxTip -> SUBSET Row]

ASSUME BoundsAssumption == MaxTip \in Nat /\ MaxFaults \in Nat

Process == Follower \cup Backfiller

(* Two backfills of one range share one checkpoint. *)
RangeName(b) == <<First[b], Last[b]>>
RangeNames == {RangeName(b) : b \in Backfiller}

VARIABLES
  tip,      \* the newest ledger the archive has published
  stored,   \* contract_transactions, committed
  worker,   \* checkpoints, the row named 'worker' (0: no such row)
  mark,     \* checkpoints, the row of each backfill range (0: no such row)
  pc,       \* where each process is in its loop
  next,     \* the variable `next` of each loop
  fetched,  \* results of the batch: ledgers fetched and extracted
  failed,   \* errs of the batch: ledgers whose fetch or extraction failed
  faults    \* faults so far, for the bound

dbVars == <<stored, worker, mark>>
vars == <<tip, stored, worker, mark, pc, next, fetched, failed, faults>>

Table == INSTANCE LedgerTable WITH Ledger <- 1..MaxTip

Running == {"start", "fetch", "save", "mark", "sleep"}
Ended == {"done", "exited"}

TypeOK ==
  /\ tip \in 0..MaxTip
  /\ stored \in SUBSET Row
  /\ worker \in Nat
  /\ mark \in [RangeNames -> Nat]
  /\ pc \in [Process -> Running \cup Ended]
  /\ next \in [Process -> Nat]
  /\ fetched \in [Backfiller -> SUBSET (1..tip)]
  /\ failed \in [Backfiller -> SUBSET Nat]
  /\ faults \in Nat

Init ==
  /\ tip = 0
  /\ stored = {}
  /\ worker = 0
  /\ mark = [r \in RangeNames |-> 0]
  /\ pc = [p \in Process |-> "start"]
  /\ next = [p \in Process |-> 0]
  /\ fetched = [b \in Backfiller |-> {}]
  /\ failed = [b \in Backfiller |-> {}]
  /\ faults = 0

Goto(p, from, to) == pc[p] = from /\ pc' = [pc EXCEPT ![p] = to]

Fault == faults < MaxFaults /\ faults' = faults + 1

-----------------------------------------------------------------------------
(* The archive: ledgers appear in order. *)
Publish ==
  /\ tip < MaxTip
  /\ tip' = tip + 1
  /\ UNCHANGED <<dbVars, pc, next, fetched, failed, faults>>

-----------------------------------------------------------------------------
(* follow *)

(* The worker checkpoint wins over --start; without either it gives up. *)
FollowStart(p) ==
  /\ Goto(p, "start", IF worker = 0 /\ StartFlag = 0 THEN "exited" ELSE "fetch")
  /\ next' = [next EXCEPT ![p] = IF worker = 0 THEN StartFlag ELSE worker + 1]
  /\ UNCHANGED <<tip, dbVars, fetched, failed, faults>>

(* indexOne: a fetch that finds the ledger. *)
FollowFetch(p) ==
  /\ next[p] \in 1..tip
  /\ Goto(p, "fetch", "save")
  /\ UNCHANGED <<tip, dbVars, next, fetched, failed, faults>>

(* ErrNotYetPublished: wait at the tip. *)
FollowNotYetPublished(p) ==
  /\ next[p] \notin 1..tip
  /\ Goto(p, "fetch", "sleep")
  /\ UNCHANGED <<tip, dbVars, next, fetched, failed, faults>>

(* Mutant: `next++` before the retry. *)
FollowErrorSkips(p) ==
  /\ Fault
  /\ Goto(p, "fetch", "sleep") \/ Goto(p, "save", "sleep")
  /\ next' = [next EXCEPT ![p] = @ + 1]
  /\ UNCHANGED <<tip, dbVars, fetched, failed>>

(* Any other error of the fetch, the extraction or the save: back off and  *)
(* try the same ledger again.                                              *)
FollowError(p) ==
  /\ Fault
  /\ Goto(p, "fetch", "sleep") \/ Goto(p, "save", "sleep")
  /\ UNCHANGED <<tip, dbVars, next, fetched, failed>>

(* Mutant: `next++` forgotten. *)
FollowSaveInPlace(p) ==
  /\ Goto(p, "save", "fetch")
  /\ Table!SaveLedger(next[p], RowsOf[next[p]])
  /\ UNCHANGED <<tip, mark, next, fetched, failed, faults>>

FollowSave(p) ==
  /\ Goto(p, "save", "fetch")
  /\ Table!SaveLedger(next[p], RowsOf[next[p]])
  /\ next' = [next EXCEPT ![p] = @ + 1]
  /\ UNCHANGED <<tip, mark, fetched, failed, faults>>

(* The commit lands but its reply does not. *)
FollowSaveReplyLost(p) ==
  /\ Fault
  /\ Goto(p, "save", "sleep")
  /\ Table!SaveLedger(next[p], RowsOf[next[p]])
  /\ UNCHANGED <<tip, mark, next, fetched, failed>>

-----------------------------------------------------------------------------
(* backfill and indexBatch *)

BatchEnd(b) ==
  LET full == next[b] + Concurrency[b] - 1
  IN  IF full > Last[b] THEN Last[b] ELSE full

Batch(b) == next[b] .. BatchEnd(b)

(* Mutant: any saved checkpoint counts as a complete range. *)
BackfillStartTrustingMark(b) ==
  LET from == IF mark[RangeName(b)] >= First[b] THEN Last[b] + 1 ELSE First[b]
  IN  /\ Goto(b, "start", IF from > Last[b] THEN "done" ELSE "fetch")
      /\ next' = [next EXCEPT ![b] = from]
      /\ UNCHANGED <<tip, dbVars, fetched, failed, faults>>

BackfillStart(b) ==
  LET saved == mark[RangeName(b)]
      from  == IF saved >= First[b] THEN saved + 1 ELSE First[b]
  IN  /\ Goto(b, "start", IF from > Last[b] THEN "done" ELSE "fetch")
      /\ next' = [next EXCEPT ![b] = from]
      /\ UNCHANGED <<tip, dbVars, fetched, failed, faults>>

(* One goroutine per ledger of the batch, in any order. *)
BackfillFetch(b, l) ==
  /\ pc[b] = "fetch"
  /\ l \in Batch(b) \ (fetched[b] \cup failed[b])
  /\ l <= tip
  /\ fetched' = [fetched EXCEPT ![b] = @ \cup {l}]
  /\ UNCHANGED <<tip, dbVars, pc, next, failed, faults>>

BackfillFetchFails(b, l) ==
  /\ pc[b] = "fetch"
  /\ l \in Batch(b) \ (fetched[b] \cup failed[b])
  /\ IF l <= tip THEN Fault ELSE UNCHANGED faults
  /\ failed' = [failed EXCEPT ![b] = @ \cup {l}]
  /\ UNCHANGED <<tip, dbVars, pc, next, fetched>>

(* Mutant: the results are saved whatever errs holds. *)
BackfillJoinIgnoringErrors(b) ==
  /\ Batch(b) \subseteq fetched[b] \cup failed[b]
  /\ Goto(b, "fetch", "save")
  /\ UNCHANGED <<tip, dbVars, next, fetched, failed, faults>>

(* wg.Wait: one error fails the whole batch, and it is tried again. *)
BackfillJoin(b) ==
  /\ Batch(b) \subseteq fetched[b] \cup failed[b]
  /\ Goto(b, "fetch", IF failed[b] = {} THEN "save" ELSE "sleep")
  /\ UNCHANGED <<tip, dbVars, next, fetched, failed, faults>>

(* One SaveLedger for the batch, with the rows of every result. *)
SaveBatch(b) ==
  Table!SaveLedger(BatchEnd(b), UNION {RowsOf[l] : l \in fetched[b]})

BackfillSave(b) ==
  /\ Goto(b, "save", "mark")
  /\ SaveBatch(b)
  /\ UNCHANGED <<tip, mark, next, fetched, failed, faults>>

BackfillSaveFails(b) ==
  /\ Fault
  /\ Goto(b, "save", "sleep")
  /\ SaveBatch(b) \/ UNCHANGED <<stored, worker>>
  /\ UNCHANGED <<tip, mark, next, fetched, failed>>

(* Mutant: the backfill writes its progress over the worker checkpoint too. *)
BackfillMarkWorker(b) ==
  /\ Goto(b, "mark", IF BatchEnd(b) = Last[b] THEN "done" ELSE "fetch")
  /\ mark' = [mark EXCEPT ![RangeName(b)] = BatchEnd(b)]
  /\ worker' = BatchEnd(b)
  /\ next' = [next EXCEPT ![b] = BatchEnd(b) + 1]
  /\ fetched' = [fetched EXCEPT ![b] = {}]
  /\ failed' = [failed EXCEPT ![b] = {}]
  /\ UNCHANGED <<tip, stored, faults>>

BackfillMark(b) ==
  /\ Goto(b, "mark", IF BatchEnd(b) = Last[b] THEN "done" ELSE "fetch")
  /\ mark' = [mark EXCEPT ![RangeName(b)] = BatchEnd(b)]
  /\ next' = [next EXCEPT ![b] = BatchEnd(b) + 1]
  /\ fetched' = [fetched EXCEPT ![b] = {}]
  /\ failed' = [failed EXCEPT ![b] = {}]
  /\ UNCHANGED <<tip, stored, worker, faults>>

(* A checkpoint write that fails ends the run, applied or not. *)
BackfillMarkFails(b) ==
  /\ Fault
  /\ Goto(b, "mark", "exited")
  /\ \/ mark' = [mark EXCEPT ![RangeName(b)] = BatchEnd(b)]
     \/ UNCHANGED mark
  /\ UNCHANGED <<tip, stored, worker, next, fetched, failed>>

-----------------------------------------------------------------------------
(* Both loops *)

(* The end of a back-off: the next turn of the loop starts from nothing    *)
(* but `next`.                                                             *)
Forget(p) ==
  /\ fetched' = [b \in Backfiller |-> IF b = p THEN {} ELSE fetched[b]]
  /\ failed' = [b \in Backfiller |-> IF b = p THEN {} ELSE failed[b]]

Wake(p) ==
  /\ Goto(p, "sleep", "fetch")
  /\ Forget(p)
  /\ UNCHANGED <<tip, dbVars, next, faults>>

(* SIGTERM or a crash: what was not yet sent to the database is lost. *)
Stop(p) ==
  /\ pc[p] \in Running
  /\ Fault
  /\ pc' = [pc EXCEPT ![p] = "exited"]
  /\ UNCHANGED <<tip, dbVars, next, fetched, failed>>

(* The operator runs the same command again. *)
Restart(p) ==
  /\ pc[p] \in Ended
  /\ pc' = [pc EXCEPT ![p] = "start"]
  /\ next' = [next EXCEPT ![p] = 0]
  /\ Forget(p)
  /\ UNCHANGED <<tip, dbVars, faults>>

-----------------------------------------------------------------------------
FollowStep(p) ==
  \/ FollowStart(p)
  \/ FollowFetch(p)
  \/ FollowNotYetPublished(p)
  \/ FollowSave(p)
  \/ Wake(p)

BackfillStep(b) ==
  \/ BackfillStart(b)
  \/ \E l \in Batch(b) : BackfillFetch(b, l)
  \/ \E l \in Batch(b) : l > tip /\ BackfillFetchFails(b, l)
  \/ BackfillJoin(b)
  \/ BackfillSave(b)
  \/ BackfillMark(b)
  \/ Wake(b)

FollowFault(p) == FollowError(p) \/ FollowSaveReplyLost(p)

BackfillFault(b) ==
  \/ \E l \in Batch(b) : l <= tip /\ BackfillFetchFails(b, l)
  \/ BackfillSaveFails(b)
  \/ BackfillMarkFails(b)

Next ==
  \/ Publish
  \/ \E p \in Follower : FollowStep(p) \/ FollowFault(p)
  \/ \E b \in Backfiller : BackfillStep(b) \/ BackfillFault(b)
  \/ \E p \in Process : Stop(p) \/ Restart(p)

Spec == Init /\ [][Next]_vars

(* A running process keeps running its loop: its calls return and its      *)
(* timers fire.  Nothing makes an operator restart it.                     *)
Fairness ==
  /\ \A p \in Follower : WF_vars(FollowStep(p))
  /\ \A b \in Backfiller : WF_vars(BackfillStep(b))

FairSpec == Spec /\ Fairness

-----------------------------------------------------------------------------
(* Properties *)

Persisted(l) == RowsOf[l] \subseteq stored

RangePersisted(lo, hi) == \A l \in lo..hi : Persisted(l)

(* "The range checkpoint never runs ahead of a ledger that failed to       *)
(* persist" (main.go:182-183): whatever the kills, failed or half-failed   *)
(* calls and however many runs share the range, every ledger from its      *)
(* start to its checkpoint is in the table.                                *)
RangeCheckpointSound ==
  \A b \in Backfiller : RangePersisted(First[b], mark[RangeName(b)])

(* A backfill that reports its range complete (main.go:153, 178) leaves    *)
(* every ledger of the range in the table.                                 *)
CompleteMeansIndexed ==
  \A b \in Backfiller : pc[b] = "done" => RangePersisted(First[b], Last[b])

(* The follow worker resumes at the checkpoint (main.go:107): while no     *)
(* backfill reaches past StartFlag, it leaves no ledger out between        *)
(* StartFlag and the checkpoint, across restarts and several workers.      *)
FollowLeavesNoGap == RangePersisted(StartFlag, worker)

(* "The worker checkpoint only moves forward, through SaveLedger"          *)
(* (store.go:244): every change of the table and of the worker checkpoint  *)
(* is a whole SaveLedger of a stretch of ledgers.                          *)
OnlyThroughSave == Table!Spec

(* A backfill that keeps running finishes once its whole range is          *)
(* published (main.go:157-179): no failure makes it retry for ever.        *)
BackfillFinishes ==
  \A b \in Backfiller : tip >= Last[b] ~> pc[b] \in Ended

(* A follow worker that keeps running indexes every published ledger it    *)
(* started below (main.go:119-137): a failed fetch or save never makes it  *)
(* skip or stall.                                                          *)
FollowCatchesUp ==
  \A p \in Follower, l \in 1..MaxTip :
    (tip >= l /\ pc[p] = "fetch" /\ next[p] <= l)
      ~> ((Persisted(l) /\ worker >= l) \/ pc[p] = "exited")

(* Whatever fails is retried and gets through, in both kinds of process.     *)
FaultsAreOvercome == BackfillFinishes /\ FollowCatchesUp

=============================================================================
