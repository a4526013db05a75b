# Verification of SoroScan

SoroScan is an explorer for Soroban contracts on the Stellar network: a Go
indexer that copies contract invocations from the public ledger archive into a
TimescaleDB database, a Go API that serves them, and a React frontend that
combines the API with Horizon and RPC providers. This directory holds TLA+
models of the parts that are hard to test, the TLC instances that check them,
and TLAPS proofs of the most important results. Paths below are relative to the
repository (`indexer/` and `frontend/` are its two halves; a bare `page.tsx`
lives under `frontend/src/features/`, `queries.ts`, `live.ts` and the like under
`frontend/src/lib/`).

## 1. Inventory

| Part | State | Operations | What makes it hard | What makes it correct |
|---|---|---|---|---|
| `indexer/cmd/indexer` `follow` | `next`; the `worker` checkpoint | start, fetch, save, wait at the tip, back off | killed anywhere; a save may be applied and its reply lost; backfills move the same checkpoint | every ledger from `--start` to the checkpoint is in the table; it catches up |
| `indexer/cmd/indexer` `backfill` | `next`, results of the batch; the range's checkpoint | parallel fetches, one save per batch, checkpoint | one of many fetches fails; kill between save and checkpoint; two runs of one range | the range checkpoint never passes a missing ledger; a finished range is whole; it finishes |
| `indexer/internal/store` `SaveLedger` | dictionary tables, rows, checkpoint; id caches of each process | resolve ids, send rows, commit, cache | several processes in the same dictionaries, deadlocks, rollbacks, lost replies, id sequences that never go back | one atomic step for readers; caches hold committed ids only |
| `store.LedgerStats`, `GET /ledgers/{n}/soroban` | none | read checkpoint, count rows | two queries, one checkpoint for the whole history | an indexed count is the whole count |
| `store.TransactionsByContract`, `GET /contracts/{id}/transactions` | the cursor, held by the client | streaming plan, windowed scan, cursors | commits between queries, dense ledgers, timeouts, scan budget | a walk shows every row once, newest first, and ends |
| `indexer/internal/icons` | entry cache, byte budget, in-flight table | single-flight resolve, expiry, eviction | waiters, cancelled leaders, replaced and evicted entries | one resolver per asset, budget kept, everybody answered |
| `failover.ts`, `rpc/client.ts`, `horizon/client.ts` | sticky index per provider list | rotate, remember, abort | concurrent calls share the index | every provider is tried before giving up |
| `live.ts` | records on screen, buffer, last token, error count | seed page, stream, flush, hide, poll | late pages, missed and repeated events, teardown | no duplicates, no gap in a resumption, the head arrives |
| transaction page: `tx/page.tsx`, `history-table.tsx`, `queries.ts`, `ledger-lake.ts` | query cache | four queries, polling, three sources of a trace | providers that know a transaction at different times; errors and thin answers that are cached for good | it claims nothing it does not know and settles |
| trace: `tx-trace.ts`, `token-move.ts`, `call-tree.tsx`, `trace-changes.tsx` | stack of the walk | walk the diagnostic stream, the storage changes and the authorizations; draw the tree | traps, missing returns, caps | every event on the call that raised it, the tree drawn as it ran |
| record: `activity.ts`, `action-summary.tsx`, `balance-changes.ts`, `net-changes.tsx`, `signatures.ts` | none | tell an operation, add up effects, match hints to keys | absent fields, exact decimals, fee bumps | nothing said of another amount, asset, party or key |
| paged lists: `use-cursor-pages.ts`, `history-table.tsx`, `account/page.tsx`, `contract/page.tsx` | walked cursors, filter, cached pages | next, previous, first, filter, prefetch | routes without keys; cached, late and lost answers | no page skipped or repeated, the pager leads on, the list settles |
| ledger page: `ledger/page.tsx`, `queries.ts` | filter, page index; cached walk | lookup, wait for a ledger to close, capped walk | Horizon behind RPC; the walk is cut at its cap | the summary is whole or says it is not; the wait ends |
| home page: `home/page.tsx`, `activity.ts` | head, feed | two reads fill the feed, a new ledger restarts it | the reads are of different moments | a row tells the first operation of its transaction |
| contract page: `contract/page.tsx`, `lib/contract.ts` | query cache | instance query, code query | upgrades, a shared cache entry per wasm, no key on the route | size and interface are of the code the page names |
| AI chat: `use-ai-chat.ts`, `chat-widget.tsx` | turns, muted page | ask, retry, answer | closures over an old render; retries overlap with a later question | one request per pending turn; a retry asks what was asked |
| `store.Migrate` | `schema_migrations` | check, apply | two processes start at once | each migration applied once |
| placeholders, `internal/extract`, `cmd/verify`, `scval.ts`, `search.ts` and other conversions | none | pure functions of one record | look-alike values | round trip |

How they interact: indexer processes and API share nothing but the database
(`contract_transactions`, the dictionaries and `checkpoints`); each process has
its own `Store` with its own caches. The frontend calls the API, Horizon and RPC
over HTTP through `fetchJsonWithFailover` and holds every cursor itself; its
pages share the query cache and the browser's history. The archive, PostgreSQL,
Horizon, RPC, the browser and TanStack Query are external: they are modelled by
how the code uses them.

The hazards of this code, each at its line with the properties that would catch
it going wrong, are listed in `PROJECT.json`.

## 2. Layout

    LedgerTable      the promise of SaveLedger
      Store          implements it (refinement)      Store_proofs
      Indexer        calls it (refinement)           Indexer_proofs
        LedgerStats  a request beside Indexer        (in Indexer_proofs)
    Paging           the API's contract history      Paging_proofs
    Icons            the single-flight cache         Icons_proofs
    LiveStream       the live ledger list            (in Explorer_proofs)
    Failover         the provider rotation           (in TxPage_proofs)
      TxPage         the queries of a transaction    TxPage_proofs
    TraceWalk        the diagnostic stream           (in TxRecord_proofs)
    Selection, TraceMeta, CallTree                   pure operators
      Trace          the whole trace, TraceWalk composed with them
    Operations, Movements, Signatures                pure operators
      TxRecord       the record beside its Trace     TxRecord_proofs
    Navigation       the reader and the browser      Navigation_proofs
      History        paged lists                     (in Navigation_proofs)
      Chat           the conversation                (in Navigation_proofs)
    Tip              RPC and Horizon behind the network's tip
      LedgerPage, HomePage, ContractPage
        Explorer     the three pages and the reader  Explorer_proofs

An `MC` module with its `.cfg` instantiates a specification for TLC. A
definition stands for the lines `PROJECT.json` maps it to. Definitions introduced
by a comment "Mutant:" are no part of a model: each is the definition below it
with a plausible mistake, and there is one for every property, which TLC finds
violated when the mistake is put in place. A model keeps every state change,
guard and error path; hashes, names, arguments and payloads are model values or
members of small sets. Every cap on an unbounded quantity is a constant or a
comment marked "bound"; variables marked "history" only remember.

The number of runs is kept at about a dozen so that all of them can be repeated
in a few minutes; a module that composes an earlier one takes over its run.

What could come next: `LiveStream` composed with `HomePage` (now the home page is
handed a head); the storage tab of a contract with its capped walk over ledger
keys.

## 3. Modules

### LedgerTable, Indexer: `indexer/cmd/indexer`

`LedgerTable` is the abstract promise of the store: one step adds a stretch of
ledgers and raises the worker checkpoint. `Indexer` has one action per call of
the loops that can fail or be interrupted: the archive publishes (`Publish`),
the worker reads its checkpoint (`FollowStart`), fetches, waits at the tip,
saves, backs off; a backfill does the same with a batch of goroutines
(`BackfillFetch` per ledger, `BackfillJoin` for `wg.Wait`), then saves, then
writes its own checkpoint. `Stop` and `Restart` kill a process between any two
of these and run the command again; `FollowSaveReplyLost`, `BackfillSaveFails`
and `BackfillMarkFails` let a write land although its caller sees an error. Fetch
and extraction are one step, since neither changes state. The length of a
back-off is left out: a sleeper wakes at any time.

### LedgerStats: `GET /ledgers/{n}/soroban`

Extends `Indexer` by a request with two steps, `ReadCheckpoint` and `CountRows`,
between which any indexer step may fall.

### Store: `indexer/internal/store` SaveLedger

Each process runs SaveLedger over its stretches (`Plan`), one action per
statement: copying the caches (`Start`), the INSERT of the missing keys of one
dictionary, key by key as PostgreSQL executes it (`DrawId` draws from the
sequence, `InsertKey` waits for a conflicting transaction and then inserts or
finds the key), `SelectIds`, `SendBatch`, `Commit`, and `Learn`, which fills the
caches. Failures: any statement (`StatementFails`), the reply of the commit, an
exhausted sequence, being the victim of a deadlock, a kill. PostgreSQL (read
committed, row locks until commit, deadlock detection, sequences that no rollback
gives back) is external and modelled by what the statements rely on.
`SaveIsAtomic` is the refinement of `LedgerTable`, whose table is the rows that
decode to their own names.

### Paging: `GET /contracts/{id}/transactions`

One client walks a contract's history with or without a function and a time
filter; one action per query of `TransactionsByContract` (`QueryRest`,
`QueryLedgers`, `QueryRows`; `QueryFloor`, `QueryCeiling`, `QueryWindow`), a
commit of any ledger between any two, `FastPathTimeout` at any query of the
streaming plan, and the cursor the API makes and parses (`NextCursor`, `Reply`).
`initial` remembers what was committed when the walk began; rows committed later
may or may not be shown.

### Icons: `indexer/internal/icons`

One action per critical section or upstream call of `resolved` and `resolve`:
`Lookup`, `Claim`, three calls with their failures, `StoreEntry` (accounting and
eviction in one critical section), `Release` (closes the channel; the waiters are
woken). Time is a clock that passes TTLs; a request's context may be cancelled at
any time (`HangUp`). The icon bytes, the image checks and the HTTP layer are left
out.

### LiveStream: `live.ts`

The handlers of `useHorizonStream`: `Flush`, `RefreshInitial` with the answer
computed (`ServePage`) and received (`ReceivePage`) at different times,
`Connect`, `Receive`, `Drop`/`Refuse` for `onerror`, `Poll`, `Hide`, `Show`,
`Unmount`. An EventSource reconnects by itself behind its last event id after a
dropped connection and never after an error status. Whether a tab was hidden
longer than `STALE_GAP_MS` is a free choice in `Show`. Left out: the lag of a
second provider that a stream moves to, the double mounting of React's
development mode. `seen`, `base`, `streamed` and `refused` are history.

### Failover, TxPage: `failover.ts`, `tx/page.tsx`, `queries.ts`

`Failover` is `fetchJsonWithFailover` as concurrent calls that start at the shared
sticky index and rotate (`Accept`, `Rotate`, `Abort`/`Cancelled`) while providers
fail and recover (`Change`). `TxPage` extends it: the three Horizon queries of a
transaction's page are its calls, and the trace is looked for in RPC, in the
archive (`ledger-lake.ts`) and in Horizon, stage by stage. Providers learn of the
transaction each in its own time, RPC's meta is too early, held, then aged out;
the reader leaves (which aborts) and returns, to the page or to a row of a
history, whose trace may be asked for without an envelope and is then an entry of
its own ("bare"). A query is pending while it has neither data nor error; data is
kept for good, an error is dropped when the query is fetched again. What the page
shows (`Body`, `TracePanel`, `TabBody`, `RowDetail`, `Identifier`) is a function
of the queries. Left out: the clock offset sampled from an answer's Date header,
the XDR and JSON panels.

### TraceWalk, TraceMeta, CallTree, Trace: `tx-trace.ts`, `call-tree.tsx`

`TraceWalk` puts the host that writes the diagnostic stream beside the walker
that reads it: the host calls, returns, raises events, counts metrics, traps, and
a caller may survive the trap of its callee (`HostCatches`, if `CaughtTraps`),
which leaves a frame without its return; the walker keeps its stack and its caps.
Each node and event remembers who really ran (`opener`, `raiser`, history). Of the
host's counters only whether the page has a row for them is kept (`Counter`).
`TraceMeta` holds the walks over ledger entry changes and authorizations,
`CallTree` the rows, connector lines and token moves of the table. `Trace`
composes them as `decodeTrace` and the tabs of the page do, for transactions
whose meta is absent, unreadable, without a stream, or whole. Values are shapes:
what a token move is read from, and no more. Trees are held by reference, as in
the code: a function from addresses to calls, each with the addresses of its
sub-calls. `Selection` is `filter` and `sort`, given by the places their entries
come from rather than by recursion over the list, because that is what proofs
about them need.

### Operations, Movements, Signatures, TxRecord: one transaction's record

`Operations` is `presentOperation`, the sentence of a row and the cells of the
tables; `Movements` the decimals of `format.ts` and the sums of
`balance-changes.ts`; `Signatures` reads hints off the end of an envelope's bytes.
`TxRecord` puts them beside `Trace`, because the overview shows the value a call
returned once the trace is decoded. The properties compare what is shown with
what Horizon means by the record (`TrueAmounts`, `TrueHolder`, `InStroops`,
`EnvelopeOf`), stated separately from the code. What Horizon can hold is said by
`HorizonOperation`, `HorizonEffect` and `Decorated`, which leave every field that
Horizon may leave out absent or malformed; TLC evaluates them on every record of
the run. Loops over digits, effects and entries are recursive functions over the
length of the list (`ReadOff`, `CutFrom`, `TotalsOf`, `OffsetOf`).

### Navigation, History: paged lists

`Navigation` is the router: pages of accounts and contracts, the tab in the url,
back and forward. `History` is one list: the walked cursors, the filter, the query
of the page on screen with its cache, the previous answer kept while the next is
fetched (`previous`), and the prefetch. Its component is the same one for every
page of a kind, since routes carry no key, so a walk may go on with cursors of
another page; `carried` (history) remembers that it does. WalkSkipsNothing excludes
such walks on a contract's page, where the search goes back to the middle of the
first list. Operations happen meanwhile (`Late`),
and lookups of single operations fail (`gone`, `queries.ts:513`). A page is full, or
the last one, or, with a filter, as much as the indexer found before its scan
budget ran out (`Stops`, `pageByWindows`): short or empty, with the cursor where the
search goes on (`contract/page.tsx:562-579`, 608-617). Each walked cursor remembers
the rows of the page it was taken from (`found`, history). Simplification: where a
search may stop is any place in the contract's history rather than a window's edge;
the error of a key that is shown again is dropped at once, while TanStack Query
keeps it until the new answer.

### Chat: `use-ai-chat.ts`, `chat-widget.tsx`

Turns, requests under way, retries at any time, the eye that mutes the page as
context, and the history sent along, computed when a request leaves. The analysis
service answers or fails in any order. `tries` remembers every request.

### Tip, LedgerPage, HomePage, ContractPage, Explorer

`Tip` closes ledgers, which RPC and Horizon ingest independently. `LedgerPage` is
the lookup, the wait that polls health, one lookup after it, the capped walk over
operations, filter and pager; `HomePage` the head told by health or stream and the
feed that two reads fill; `ContractPage` the query of the instance and of the code
it names, each answered from a moment of the network's past that RPC holds, and
what the Details and Interface tabs say. `Explorer` is the three pages with the
reader between them. The contract's Storage tab and the texts of function
signatures are left out; a reader who leaves the contracts does not come back to
them (bound).

## 4. Runs

| Run | What it shows | Bounds, and why they are enough |
|---|---|---|
| `indexer` | no checkpoint runs ahead of the table; every change of table and checkpoint is a whole SaveLedger | one worker and two backfills of the same range (a checkpoint with two writers), batches of two and of one, five ledgers, two faults (a lost reply, then a kill of the retry), any number of restarts |
| `stats` | an indexed count is complete; the loops get over their faults | one worker, one backfill below it, two faults, any ledger asked for |
| `stats_backfill_ahead` | violation: divergence 1 below | a backfill above the worker's start |
| `store` | caches hold committed ids; SaveLedger is atomic; every call is made in the end | two processes with overlapping stretches, one replayed; two contracts inserted in opposite orders, so that conflicts, waits and deadlocks all occur; one fault; nine ids for the contracts: a deadlock draws four, the victim's retry two, and two more are left for one more round, so that a victim's retry that succeeds is checked and not excused by a used-up sequence |
| `paging` | a walk skips, repeats and disorders nothing, and ends | pages of one row, windows of two ledgers, two windows per page; a dense ledger, a gap wider than a window, rows of another function: the smallest sizes at which a page is cut inside a ledger, a budget ends between matches and a window inside a gap |
| `icons` | one resolver per asset, the cache adds up, everybody is answered | two requests, two assets, one overridden; the budget holds one icon and nothing else, so entries expire, are replaced and evict each other; four requests, one fault or hang-up |
| `live_stream` | no ledger twice, none lost by a resumption, the head arrives | lists of two, three ledgers, two faults, two errors before polling (four in the code, which lengthens the same path), one hiding |
| `trace` | events, calls, values, lifetimes and authorizations belong where they are shown; operations, sums and hints are right | seven stream elements, depth three, caps of three items and two levels; change lists of up to three; every operation type with each absent, malformed or special field; lists of one effect more than a page; two signatures, inner and outer |
| `txpage` | the page claims nothing it does not know, looks until it finds, and settles | two providers of which one serves meta, three concurrent calls, two changes of a provider |
| `pages` | no page of a list skipped or repeated, the pager leads on, the list settles | two accounts with five and two rows and two contracts with five and one, on pages of two; the filter lets three of the first contract's through, with others above, between and below them, and none of the second's, so that a filtered page is full, short or empty with a cursor; one operation that is yet to come, one lost lookup, four acts of the reader (two pages deep, away and back) |
| `chat` | a pending turn has one request; a retry asks what was asked | three questions, history of one, six acts |
| `explorer` | a ledger's walk is whole or owns up, its pager moves, its wait ends; rows tell first operations; code is its contract's own | four ledgers: one pruned, one past the load cap, one of exactly a page, one still to close; three contracts, one upgraded, one wrapped asset, one sharing its code |

Deadlock is checked in the runs of `Indexer`, `LedgerStats` and `TxPage`. The
others may stop, when the plan is done, the reader has acted his last or the stream has
ended; their liveness properties say what must have happened by then.

### Fairness

Weak fairness on the steps of a loop or request that is running, everywhere, and
nowhere on faults, kills, restarts, users or the publication of new ledgers:

- Indexer and LedgerStats: calls return and timers fire. Faults are finitely many
  (`MaxFaults`); a loop that fails for ever cannot progress, and the code promises
  no more. A process that is killed and not restarted ends what is promised.
- Store: a call runs to its end and PostgreSQL breaks deadlocks. `InsertKey` and
  `SendBatch` are strongly fair: a waiter is enabled and disabled again as its
  blockers come and go, and PostgreSQL wakes it when the blocker ends, long before
  an aborted caller is back from its five seconds of back-off.
- Icons: each upstream call ends, by the client's timeout at the latest.
- Paging: the server answers and the client goes on; the history is finite.
- LiveStream: timers fire, requests are answered, the browser reconnects and
  delivers.
- Failover, TxPage, History: an attempt ends by `PER_ATTEMPT_TIMEOUT_MS`
  (`failover.ts:19`), TanStack Query's polling timer fires, and what was submitted
  reaches every provider.
- Explorer: ledgers close, RPC and Horizon ingest them, queries are answered or
  fail; the reader need not act.

## 5. Proofs

TLAPS checks the following for all values of the constants that satisfy the named
assumptions next to their declarations (`FlagsAssumption`, `StoreAssumption`,
`PlanAssumption`, `PagingAssumption`, `IconsAssumption`, `LiveStreamAssumption`,
`FailoverAssumption`, `PageAssumption`, `TraceAssumption`, `NavigationAssumption`,
`HistoryAssumption`, `ChatAssumption`, `TipAssumption` and those of its pages; for
a transaction's page `DepthAssumption`, `ShapesAssumption`, `DisplayAssumption`,
`AbsentAssumption`, `UnhintedAssumption`, `RecordsAssumption`,
`EnvelopesAssumption`, `OperationsAssumption`, `EffectsAssumption`). TLC evaluates
each assumption in some run. A proof module holds the theorems of a component and
of what it is composed with.

`Indexer_proofs`, Indexer. `IInv` is `TypeOK`, `RangeCheckpointSound` and one local
assertion per process. RangeCheckpointSound alone is not inductive: that writing
`mark` is sound depends on what the process did before. `BackfillLocal` supplies
it: everything from the start of the range to `next - 1` is in the table, the
ledgers in `fetched` belong to the batch, at "save" the batch is fetched whole,
and at "mark" it is in the table. Rows are never deleted (`RangeGrows`), so no
process disturbs what another knows, and an action needs a proof only for the
process that acts. From IInv follow TypeCorrect, RangeCheckpointCorrect and
CompleteCorrect; OnlyThroughSaveCorrect shows that Indexer implements
LedgerTable. FollowCorrect proves FollowLeavesNoGap from a second invariant,
`GapInv`, under the hypothesis `BackfillsBelowStart`; without it the property is
false (divergence 1).

`Indexer_proofs`, LedgerStats. CountIsCompleteCorrect, under the same hypothesis:
between its two queries a request that found its ledger indexed may rely on the
rows of that ledger (`RequestInv`), because GapInv puts them into the table by then
and rows are never deleted.

`Store_proofs`. The argument is that of PostgreSQL's locks. `StoreInv`: a key that
an open transaction has inserted is neither committed nor inserted by another
(`InsertedOnce`), a process outside a transaction has inserted nothing and what is
still to be inserted is not inserted yet (`TransactionLocal`), and the ids of a
call are those its transaction sees (`IdsAreVisible`). NoPhantomIds alone is not
inductive: `Learn` copies `ids` into the cache, and only these three say that they
are committed by then. It gives NoPhantomIdsCorrect and IdsAreForGood.
SaveIsAtomicCorrect, that Store implements LedgerTable, needs `AtomicInv` besides:
no id is committed, inserted or drawn for two names of one dictionary
(`IdsUnique`), a call that commits has an id for each of its names (`Progress`),
and a row holds the committed ids of the names it was saved for (`RowsRead`). Then
every row of the table reads back (`RowsReadBack`), every step but the commit
leaves what readers see alone (`QuietStep`), and the commit is a save of the
abstract table (`CommitSaves`). With OnlyThroughSaveCorrect this closes the chain:
the indexer's loops call an atomic save, and the transaction is one.

`Paging_proofs`. WalkIsCompleteCorrect. That nothing is skipped is a claim about
what has not been shown yet, so the invariant is told from the cursor (`Behind`):
`GotInv` says that what the client was given is in order and none of it lies
behind the cursor, and that each row owed to it (`Owed`: matching, and there when
the walk began) was given or lies behind. A page is made by several queries,
between which rows are committed and the plan may change; `PageInv` has one part
for each of them, each of the form "a row that is owed is in `out`, or lies where
the queries to come will look". `WindowInv` and `ReplyInv` have a third case, a
page that is full: then the row is older than all of it and the cursor made of
its last row lies before. `RowsInv` needs that the ledgers picked are the newest
and that each gives the page at least one row, or a cut inside the ledgers would
lose some. The other half is what ORDER BY and LIMIT return: by rank in a strict
total order (`RankIsPlace`, `NewestFacts`, `TopLedgers`), the first n rows are in
order and newer than what they leave out; that ledger and hash tell rows apart is
in PagingAssumption.

`Icons_proofs`. `FlightInv`: besides OneResolver, the channel of an asset belongs
to a request that is resolving it, and a request that waits has a channel. It
gives OneResolverCorrect and NobodyWaitsInVain, the safety half of
RequestsAnswered: whoever waits, waits for a request at work.
BudgetAccountsCorrect is by `BudgetInv`, which adds to it only the types and that
what a request is about to cache is an entry (`DraftIsEntry`); the work is in one
critical section, `StoreEntry`, which replaces, adds and evicts. The account is
the size of a disjoint union, one block per entry, so that it can be split at the
assets that go (`BytesOfParts`); the eviction stops at the least number of oldest
assets whose removal meets the budget, which exists because an empty cache meets
it (`EvictionKeepsBudget`).

`TxPage_proofs`, Failover. The invariant says what the statement of
OneProviderIsEnough leaves out: a provider that has been steady since a call
began is not among those the call has tried (`TriedFailed`), and a call that
failed has tried `Size` of them (`FailedTriedAll`). `RotationMeetsAll`,
arithmetic modulo Size, turns `Size` attempts into all providers.

`TxPage_proofs`, TxPage. PageImplementsFailover: each step of the page is a step
of the rotation or leaves it alone, so that OneProviderIsEnough holds on the page
as a corollary. ThinTraceCorrect follows from an invariant on where the search
for the trace stands and what each source said. TraceTabCorrect needs no more
than the type of the queries: what `PageTypeOK` excludes is that the page's own
trace ever ends as "nothing", which the one asked for without an envelope
("bare") may; that they are two entries of the cache is what keeps the panel
honest.

`TxRecord_proofs`, TraceWalk. `TraceInv`: as long as the walker reads and no trap was
caught, its stack is the host's (`InStep`), and running frames were called and
have not returned, in the order of their numbers (`FramesWereCalled`); from it
EventsLandOnTheirFrame and ResultsAreTheCallsOwn. After a caught trap the stack
is no longer the host's, and NothingEscapesItsFrame says what is left: a running
frame is still somewhere on the stack (`RunningAreOpen`), the stack is a branch
of the tree (`StackNests`), so whatever is kept under its innermost node is
inside the frame that raised it. `CallsAround` is defined as an intersection over
closed sets of nodes; a node comes after its parent (`ParentsCameBefore`), so a
new one disturbs no such set. PageImplementsWalk carries these to the page:
`Decode` and the record leave the walk alone.

`TxRecord_proofs`, TraceMeta. LifetimesAreTold is about one pass over a list of
changes of any length that lets a written value replace the row of a pre-image.
`Followed` says of each prefix that there is one row for each key it touched, with
the first written value or, as long as nothing was written, the last pre-image;
`RowStays` and `RowIsNew` are what one change does to the rows. Below the cap the
rows are then as many as the keys (`RowsCounted`), and the owner a row is named
after is sought among the changes of the same meta (`OwnersResolved`).

`TxRecord_proofs`, TxRecord. The record never changes (`KnownRecord`), so its
theorems are about what the operators compute from any record Horizon can hold.

- OperationsAreToldRight goes through the kinds of operation, one lemma for each
  (`PaymentTold` to `OtherTold`): a sentence, a cell or a field of the overview
  that mentions an amount, an asset or a party mentions one of the operation's.
- HintsAreRight. The bytes of an envelope's end are located from the back: each
  decorated signature takes `Padded` bytes behind its hint (`Offsets`,
  `EntriesPlaced`), so that the parser, walking back over the reported signatures,
  meets each at its own place (`EntryRead`, `SignatureRead`). The premise
  `Reported` says which signatures Horizon gives: the envelope's own, or others
  whose last differs from the envelope's last with the same length. That is a fee
  bump's inner envelope, whose signatures are of another hash; the parser then
  finds no end to start from and no hint is shown (`NoOtherHints`). Other lists of
  inner signatures would have to coincide in their bytes with the envelope's to be
  taken for its own; those stay with TLC.
- NetChangesAreExact. Digits first: reading a decimal from the left gives the sum
  of its digits' worths (`ReadsItsWorth`), and cutting digits off a number and
  trimming zeros gives a decimal worth that number (`FormattedBack`), for any
  precision. Then the totals: after each effect there is one total for each key
  that was met, and it is the change of the one balance the key stands for
  (`TotalsAfter`, by `EffectAdded`); that needs a key to stand for one balance
  (`KeysTellApart`: XLM has no issuer, and no issued asset lacks one). So the lines
  left when zeros are dropped are as many as the balances that changed, and each is
  exact (`NetLines`). A `filter` keeps order and entries (`PickedFacts`), and what
  moves no balance adds nothing (`MovesAddUpAlike`), so the row of a history and
  the tab, which sum different lists, agree.

`Navigation_proofs`, Chat. `ChatInv`: requests carry their turn's context and
only what came before it (`AskedAs`), no two are for one turn (`SentOnce`), and a
turn is pending exactly while one is under way (`PendingIsSent`).

`Navigation_proofs`, History. `HistoryInv` says of each cached answer that it
holds all rows between its cursor and the next if it leads on, be it full
(`WholeAnswerIsFit`) or cut by the scan budget (`StoppedAnswerIsFit`), and leads on
if there is more (`CacheFits`). This stays true as rows come in, because they come
in above every cursor. PagerLeadsOnCorrect is that and nothing else.
WalkSkipsNothingCorrect needs to know of each step of the walk that it was taken
from an answer, and from which: rows kept on screen while a page is fetched are
those of the page that leads to it (`RowsLeadHere`), they have an answer in the
cache (`KeptRows`), and a page is left only with its answer, or for the same
cursor again (`AnsweredBehind`). The last two fail for a cursor that was carried
over, which is how the exception in the property was found.
NoSkeletonMidUseCorrect is an action property from `KeptRows`: the page on screen
before the step is in the cache after it.

`Explorer_proofs`, LiveStream. `NoDuplicates` is inductive with the types, by
what `MergeRecords` does to lists (`MergeFacts`). NothingLostCorrect needs
`StreamInv`: from the ledger the stream started behind to `lastToken` everything
has been on the list or is in the buffer, and a source that is not closed goes on
behind `lastToken`, whichever of the browser's last event id and the url's cursor
it uses; before the first event it stands where it started. `PollInv` (a polled
list has no source, one that is not polled has errors to spare) keeps the error
count within its type.

`Explorer_proofs`, Explorer. `ExplorerInv` is a conjunction of one part per page.
WholeLedgerCorrect: a walk under way has taken whole pages (`WalkOf`), so a page
that comes short is the end of the ledger, and only a walk at the cap is cut.
PagerMovesCorrect is an action property and rests on `PagerInv`, that the index
lies within the pages of the filter now set, which holds because the handler that
sets a filter also resets the index (`ledger/page.tsx:349-372`).
RowsTellFirstOpsCorrect: in what Horizon lists, an operation that is not its
transaction's first follows the one before (`Follows`), and cutting such a list
loses the first operation of one transaction only, the one at the cut
(`PrimaryIsCut`, `BuiltRowsTell`); the two reads may be of any two moments. That
a ledger's operations are such a list is proved of FlattenSeq, by the least
counterexample over its recursive function (`JoinsExist`, `FlattenStays`).
CodeIsItsOwnCorrect: a code entry is kept under its own hash, and a code is asked
for only once the contract has named one (`CodesInv`).

Each invariant was first checked by TLC on the run of its component.

Only model-checked: every liveness property (fairness and ENABLED are out of the
prover's reach); DrawnAsItRan, whose rows, connectors and subtrees are computed by
recursion over trees of any shape; and the inner signatures that HintsAreRight
leaves out.

## 6. Divergences

One has a run whose counterexample shows it:

1. `store.go:257-258` says zeros in an indexed ledger mean silence. `Indexed`
   (`store.go:271`) compares with a single checkpoint that a backfill's SaveLedger
   moves too: a ledger below a backfill that ran ahead of the worker is reported
   indexed without having been fetched (run `stats_backfill_ahead`). For the same
   reason FollowLeavesNoGap assumes that backfills end below the worker's start.

The others were met while modelling and are in the models as the code has them;
where a property has an exception, its comment names it.

- Indexer. A replay is not a no-op for the id sequences (`store.go:132-133`
  against 720): with empty caches `INSERT ... ON CONFLICT DO NOTHING` draws an id
  per conflicting key, so replays use up the 32767 ids of a smallserial. A
  stellar.toml or image that cannot be reached is cached as missing for the
  negative TTL (`icons.go:220-232` against 30-33).
- Live list. A page that arrives after newer streamed ledgers goes in front of
  them (`live.ts:97` against 14). An error status ends an EventSource with one
  error counted, and polling starts at the fourth (`live.ts:125-135` against
  60-61); a transaction's poll stops after one look that failed at every provider
  (`queries.ts:185`).
- Lists. `use-cursor-pages.ts:4` calls its cursor "the cursor for the page on screen",
  and `contract/page.tsx:526-527` drops the walked pages of a list that changed; but
  cursors and filter are state of the component and the routes give it no key
  (`App.tsx:18-20`), so the first request for another account or contract carries a
  cursor of the one before (`account/page.tsx:365`; in History, `visited` may end in
  a step of another page). A full last page leads to an empty page without a pager
  (`account/page.tsx:410`).
- Ledger page. A ledger that has just closed may be called older than the
  provider's history (`ledger/page.tsx:597-631`); a ledger of exactly the load cap
  is called truncated (`queries.ts:457`); its Soroban statistics, once "not
  indexed", are never asked for again (`queries.ts:474`).
- Home page. The transaction cut by `OPS_LOOKBACK` shows an operation that is not
  its first (`activity.ts:276`); a feed restarted by every ledger may never finish
  a read (`home/page.tsx:253`).
- Contract page. A code entry that is missing is cached for ever
  (`queries.ts:397-407`), although `rpc/client.ts:145-147` says not to treat such
  answers as immutable, and the Interface tab then says the code has no readable
  interface (`contract/page.tsx:282-288`); a failed background refetch hides kept
  data (`contract/page.tsx:735-783`); the count of instance storage is silently
  capped at 200 and leaves out entries that do not decode (`contract.ts:57`,
  84-94); the empty last page of a filtered search says that no invocations match,
  although earlier pages of the same search may have shown some
  (`contract/page.tsx:614-620`).
- Transaction page and rows. "No call trace is available" is also said when no
  provider was reachable (`history-table.tsx:310-313`); a call known from the
  envelope only is said to have made no further calls, to have emitted no events and,
  if no meta was found, to have changed no storage (`history-table.tsx:294-318`), and
  the row does not look at the events that the consensus meta lists beside the tree
  when there are no diagnostics, so that "did not emit events" may be said of a
  transaction that did (`history-table.tsx:301-318` against 290-293;
  NothingMoreIsTrue claims events only for a call the stream showed); a trace of which
  only counters were found that the page has no row for leaves the tab blank
  (`tx/page.tsx:164-169` against `tx-trace.ts:617-626`; NoBlankTab names it);
  the skeleton returns at each poll of a missing transaction; the overview shows
  "amount moved" for offers and failed transactions (`tx/page.tsx:635-638`); a
  swap is told by codes without issuers (`activity.ts:164-167` against 153-154); a
  removed trustline is recognised by the limit "0", while Horizon's amounts have
  seven digits (`action-summary.tsx:126`); net changes are of the first 200
  effects (`queries.ts:290-297`); of two keys with one hint the fee account wins
  (`tx/page.tsx:319-324`).
- Chat. The eye stays off for a page that is left and opened again
  (`chat-widget.tsx:46`); `askAi` has no timeout (`client.ts:72`), so a turn can
  stay pending as long as the connection lives.

## 7. Not modelled

- The argument placeholders (`store.go:804-905`), `internal/extract`, `scval.ts`,
  `search.ts` and the other conversions are functions of one record without state,
  covered by unit tests; a model would repeat them character by character.
- `store.Migrate` runs once per start of a process; the second of two that start
  together fails on its first statement and is started again.
- `cmd/verify` is a sampling audit run by hand that writes nothing.
- The API's routing, validation, headers and shutdown, the guarded HTTP client of
  the icons and the object keys of the archive have no state of their own.
- Charts, tables, panels, the contract's Storage tab, the asset page and the
  search box are presentation of one answer.
- Of the queries: retries inside TanStack Query beyond what the code configures,
  and the collection of cache entries other than those of a closed transaction
  page.
