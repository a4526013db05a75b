------------------------------- MODULE TxPage -------------------------------
(* The page of one transaction (src/frontend/src/features/tx/page.tsx), and  *)
(* the detail that opens under its row in a history (history-table.tsx),     *)
(* over the queries both read (lib/queries.ts): the transaction, its         *)
(* operations, effects and trace.  All but the trace are calls of module     *)
(* Failover to the Horizon providers, which learn of a transaction each in   *)
(* its own time; the trace is looked for in RPC, the archive and Horizon.    *)
(* A row whose transaction cannot be fetched asks for the trace without its  *)
(* envelope and ledger; that answer is a cache entry of its own, the "bare"  *)
(* trace.                                                                    *)
(*                                                                           *)
(* A query is "pending" while it has neither data nor an error.  TanStack    *)
(* Query keeps data for good (staleTime Infinity, until the page is closed   *)
(* and the entry collected), drops an error when it fetches again, fetches a *)
(* query without data whenever its page is opened, and aborts what nobody    *)
(* waits for any more.                                                       *)
EXTENDS Failover

CONSTANT MetaKeepers    \* the Horizon providers that serve execution meta

ASSUME PageAssumption ==
  /\ Call = {"tx", "operations", "effects"}
  /\ MetaKeepers \subseteq Provider

VARIABLES
  invoking,     \* the transaction is a contract call
  knows,        \* the Horizon providers that have ingested it
  retention,    \* RPC's meta of it: "early", "held", then "aged"
  archived,     \* its ledger is in the public archive
  open,         \* what is mounted: the page, the row's detail, or "neither"
  tx, operations, effects, soroban,     \* the queries
  stage,        \* where the trace is being looked for
  bare, bareStage,  \* the same for the bare trace
  saw           \* history: what each source of the trace answered

truthVars == <<invoking, knows, retention, archived>>
bareVars == <<bare, bareStage>>
traceVars == <<soroban, stage, saw, bareVars>>
pageVars == <<open, tx, operations, effects, traceVars>>
allVars == <<vars, truthVars, pageVars>>
restVars == <<vars, truthVars, open, tx, operations, effects>>

NotAsked == [rpc |-> "not asked", archive |-> "not asked", horizon |-> "not asked"]

PageTypeOK ==
  /\ invoking \in BOOLEAN /\ archived \in BOOLEAN
  /\ knows \subseteq Provider
  /\ retention \in {"early", "held", "aged"}
  /\ open \in {"page", "row", "neither"}
  /\ tx \in {"pending", "success", "notFound", "error"}
  /\ operations \in {"pending", "success", "error"}
  /\ effects \in {"pending", "success", "error"}
  /\ soroban \in {"pending", "executed", "reconstructed", "error"}
  /\ stage \in {"idle", "rpc", "archive", "horizon"}
  /\ bare \in {"pending", "executed", "nothing", "error"}
  /\ bareStage \in {"idle", "rpc", "horizon"}

PageInit ==
  /\ Init
  /\ invoking \in BOOLEAN
  /\ retention \in {"early", "aged"}
  /\ archived = (retention = "aged")
  /\ knows = IF retention = "aged" THEN Provider ELSE {}
  /\ open \in {"page", "row"}
  /\ tx = "pending" /\ operations = "pending"
  /\ effects = "pending" /\ soroban = "pending"
  /\ stage = "idle" /\ saw = NotAsked
  /\ bare = "pending" /\ bareStage = "idle"

-----------------------------------------------------------------------------
(* The network: a provider ingests the transaction, RPC ingests its meta and *)
(* drops it after its retention window, the archive publishes its ledger.    *)
Ingest(p) ==
  /\ p \notin knows
  /\ knows' = knows \cup {p}
  /\ UNCHANGED <<vars, pageVars, invoking, retention, archived>>

MetaMoves ==
  /\ \/ retention = "early" /\ retention' = "held" /\ UNCHANGED archived
     \/ ~archived /\ archived' = TRUE /\ UNCHANGED retention
     \/ retention = "held" /\ archived /\ retention' = "aged" /\ UNCHANGED archived
  /\ UNCHANGED <<vars, pageVars, invoking, knows>>

-----------------------------------------------------------------------------
(* The transaction.                                                          *)
\* A row knows from its list whether it is a contract call, and asks for the
\* transaction only if it is.
ReadsTx == open = "page" \/ (open = "row" /\ invoking)

FetchTx ==
  /\ ReadsTx /\ tx = "pending"
  /\ Begin("tx")
  /\ UNCHANGED <<truthVars, pageVars>>

(* A provider without the transaction answers 404, and that is an answer.    *)
(* With its envelope and ledger, a row turns from the bare trace to the      *)
(* whole one, and the bare request is aborted.                               *)
AnswerTx ==
  /\ Accept("tx")
  /\ tx' = IF Index("tx") \in knows THEN "success" ELSE "notFound"
  /\ bareStage' = IF tx' = "success" THEN "idle" ELSE bareStage
  /\ UNCHANGED <<truthVars, open, operations, effects, soroban, stage, saw, bare>>

FailTx ==
  /\ Rotate("tx")
  /\ tx' = IF pc'["tx"] = "failed" THEN "error" ELSE tx
  /\ UNCHANGED <<truthVars, open, operations, effects, traceVars>>

(* Mutant: the poll waits for the wrong kind of error. *)
PollOnErrors ==
  /\ ReadsTx /\ tx = "error"
  /\ tx' = "pending"
  /\ UNCHANGED <<vars, truthVars, open, operations, effects, traceVars>>

(* A 404 is asked again after ten seconds, and only a 404.                   *)
Poll ==
  /\ ReadsTx /\ tx = "notFound"
  /\ tx' = "pending"
  /\ UNCHANGED <<vars, truthVars, open, operations, effects, traceVars>>

(* The operations: on the page enabled by the transaction, in a row only of  *)
(* a classic one; every error is final.                                      *)
FetchOperations ==
  /\ \/ open = "page" /\ tx = "success"
     \/ open = "row" /\ ~invoking
  /\ operations = "pending"
  /\ Begin("operations")
  /\ UNCHANGED <<truthVars, pageVars>>

AnswerOperations ==
  /\ Accept("operations")
  /\ operations' = IF Index("operations") \in knows THEN "success" ELSE "error"
  /\ UNCHANGED <<truthVars, open, tx, effects, traceVars>>

FailOperations ==
  /\ Rotate("operations")
  /\ operations' = IF pc'["operations"] = "failed" THEN "error" ELSE operations
  /\ UNCHANGED <<truthVars, open, tx, effects, traceVars>>

\* What a row goes by for its trace.
RowTrace == IF tx = "success" THEN soroban ELSE bare

(* What is drawn under a row; without a trace, whatever the reason, it says  *)
(* that none is available.                                                   *)
RowDetail ==
  IF invoking
  THEN CASE tx = "pending" \/ RowTrace = "pending" -> "skeleton"
         [] RowTrace \in {"nothing", "error"} -> "no trace available"
         [] OTHER -> RowTrace
  ELSE CASE operations = "pending" -> "skeleton"
         [] operations = "error" -> "unreachable"
         [] OTHER -> "steps"

(* The effects: when the reader opens the tab of the balance changes, and    *)
(* under the detail of a row.                                                *)
FetchEffects ==
  /\ \/ open = "page" /\ tx = "success"
     \/ open = "row" /\ RowDetail \notin {"skeleton", "unreachable"}
  /\ effects = "pending"
  /\ Begin("effects")
  /\ UNCHANGED <<truthVars, pageVars>>

AnswerEffects ==
  /\ Accept("effects")
  /\ effects' = IF Index("effects") \in knows THEN "success" ELSE "error"
  /\ UNCHANGED <<truthVars, open, tx, operations, traceVars>>

FailEffects ==
  /\ Rotate("effects")
  /\ effects' = IF pc'["effects"] = "failed" THEN "error" ELSE effects
  /\ UNCHANGED <<truthVars, open, tx, operations, traceVars>>

\* The first operation is there and is a contract invocation.
Invokes == tx = "success" /\ operations = "success" /\ invoking

-----------------------------------------------------------------------------
(* The trace: RPC, then the archive, then each Horizon provider, and what    *)
(* the envelope says when none of them has the meta (module Trace; a meta is *)
(* taken to carry the stream, and the transaction its envelope).             *)
Found ==
  /\ soroban' = "executed"
  /\ stage' = "idle" /\ saw' = NotAsked

FetchTrace ==
  /\ \/ open = "page" /\ Invokes
     \/ open = "row" /\ invoking /\ tx = "success"
  /\ soroban = "pending" /\ stage = "idle"
  /\ stage' = "rpc" /\ saw' = NotAsked
  /\ UNCHANGED <<restVars, soroban, bareVars>>

(* NOT_FOUND is an answer; it stands for too early as for too late.          *)
AnswerRpc ==
  /\ stage = "rpc"
  /\ IF retention = "held" THEN Found
     ELSE /\ stage' = "archive" /\ saw' = [saw EXCEPT !.rpc = retention]
          /\ UNCHANGED soroban
  /\ UNCHANGED <<restVars, bareVars>>

(* Mutant: a failed call is taken for an answer without the meta. *)
FailRpcSwallowed ==
  /\ stage = "rpc"
  /\ saw' = [saw EXCEPT !.rpc = "failed"]
  /\ stage' = "archive" /\ UNCHANGED soroban
  /\ UNCHANGED <<restVars, bareVars>>

(* No RPC provider answered, or the one that did reported an error.          *)
FailRpc ==
  /\ stage = "rpc"
  /\ soroban' = "error" /\ stage' = "idle"
  /\ UNCHANGED saw
  /\ UNCHANGED <<restVars, bareVars>>

(* Any failure of the archive is as good as not having the ledger.           *)
AskArchive ==
  /\ stage = "archive"
  /\ \E failed \in BOOLEAN :
       IF archived /\ ~failed THEN Found
       ELSE /\ stage' = "horizon"
            /\ saw' = [saw EXCEPT !.archive = IF failed THEN "failed" ELSE "early"]
            /\ UNCHANGED soroban
  /\ UNCHANGED <<restVars, bareVars>>

(* Each Horizon provider is asked; those that fail are passed over.          *)
AskHorizon ==
  /\ stage = "horizon"
  /\ IF answers \cap knows \cap MetaKeepers # {} THEN Found
     ELSE /\ soroban' = "reconstructed" /\ stage' = "idle"
          /\ saw' = [saw EXCEPT !.horizon = "missing"]
  /\ UNCHANGED <<restVars, bareVars>>

(* The bare trace: without the ledger the archive is not asked, and without  *)
(* the envelope there is nothing to rebuild a trace from.                    *)
FetchBare ==
  /\ open = "row" /\ invoking /\ tx \in {"notFound", "error"}
  /\ bare = "pending" /\ bareStage = "idle"
  /\ bareStage' = "rpc"
  /\ UNCHANGED <<restVars, soroban, stage, saw, bare>>

(* Mutant: an answer is kept under the hash alone. *)
KeepBareUnderHash(answer) == soroban' = answer /\ UNCHANGED bare

(* An answer is kept under what was known when it was asked for.             *)
KeepBare(answer) == bare' = answer /\ UNCHANGED soroban

AnswerBare ==
  /\ bareStage = "rpc"
  /\ IF retention = "held" THEN KeepBare("executed") /\ bareStage' = "idle"
     ELSE bareStage' = "horizon" /\ UNCHANGED <<soroban, bare>>
  /\ UNCHANGED <<restVars, stage, saw>>

FailBare ==
  /\ bareStage = "rpc"
  /\ KeepBare("error") /\ bareStage' = "idle"
  /\ UNCHANGED <<restVars, stage, saw>>

AskHorizonBare ==
  /\ bareStage = "horizon"
  /\ KeepBare(IF answers \cap knows \cap MetaKeepers # {} THEN "executed" ELSE "nothing")
  /\ bareStage' = "idle"
  /\ UNCHANGED <<restVars, stage, saw>>

-----------------------------------------------------------------------------
(* The reader leaves: what is under way is aborted, and the trace with it.   *)
Leave ==
  /\ open # "neither" /\ open' = "neither"
  /\ Abort({c \in Call : pc[c] = "trying"})
  /\ stage' = "idle"
  /\ saw' = IF soroban = "pending" THEN NotAsked ELSE saw
  /\ bareStage' = "idle"
  /\ UNCHANGED <<truthVars, tx, operations, effects, soroban, bare>>

CancelCall(c) ==
  /\ Cancelled(c)
  /\ UNCHANGED <<truthVars, pageVars>>

\* What a query is left with when its page is opened again.
Kept(query) == IF query \in {"error", "notFound"} THEN "pending" ELSE query

(* The reader comes back, or goes on from the row to the page; entries       *)
(* nobody used for a while may be gone.                                      *)
Return ==
  /\ open = "neither" /\ \A c \in Call : pc[c] # "trying"
  /\ open' \in {"page", "row"}
  /\ \E collected \in BOOLEAN :
       /\ tx' = IF collected THEN "pending" ELSE Kept(tx)
       /\ operations' = IF collected THEN "pending" ELSE Kept(operations)
       /\ effects' = IF collected THEN "pending" ELSE Kept(effects)
       /\ soroban' = IF collected THEN "pending" ELSE Kept(soroban)
       /\ bare' = IF collected THEN "pending" ELSE Kept(bare)
  /\ UNCHANGED <<vars, truthVars, stage, saw, bareStage>>

ProviderChanges(p) == Change(p) /\ UNCHANGED <<truthVars, pageVars>>

TxStep == FetchTx \/ AnswerTx \/ FailTx \/ CancelCall("tx")
OperationsStep ==
  FetchOperations \/ AnswerOperations \/ FailOperations \/ CancelCall("operations")
EffectsStep == AnswerEffects \/ FailEffects \/ CancelCall("effects")
TraceStep == FetchTrace \/ AnswerRpc \/ FailRpc \/ AskArchive \/ AskHorizon
BareStep == FetchBare \/ AnswerBare \/ FailBare \/ AskHorizonBare

PageNext ==
  \/ TxStep \/ Poll \/ OperationsStep \/ TraceStep \/ BareStep
  \/ FetchEffects \/ EffectsStep
  \/ Leave \/ Return \/ MetaMoves
  \/ \E p \in Provider : Ingest(p) \/ ProviderChanges(p)

PageSpec == PageInit /\ [][PageNext]_allVars

(* Calls end (failover.ts:19), the poll's timer goes off, and what was       *)
(* submitted reaches every provider; nobody has to leave or to come back.    *)
FairPageSpec ==
  /\ PageSpec
  /\ WF_allVars(TxStep) /\ WF_allVars(Poll)
  /\ WF_allVars(OperationsStep) /\ WF_allVars(EffectsStep)
  /\ WF_allVars(TraceStep) /\ WF_allVars(BareStep)
  /\ \A p \in Provider : WF_allVars(Ingest(p))

-----------------------------------------------------------------------------
(* What the page shows.                                                      *)
Body ==
  CASE tx = "pending" -> "skeleton"
    [] tx = "success" -> "transaction"
    [] tx = "notFound" -> "keeps checking"
    [] OTHER -> "unreachable"

(* Mutant: an error of the operations is waited out. *)
SettledOnSuccess == operations = "success"

(* The operations have an answer or an error.                                *)
Settled == operations # "pending"

TracePanel ==
  CASE ~Settled \/ (Invokes /\ soroban = "pending") -> "skeleton"
    [] Settled /\ ~Invokes -> "no contract called"
    [] Settled /\ Invokes /\ soroban = "error" -> "unreachable"
    [] Settled /\ Invokes /\ soroban = "nothing" -> "no trace available"
    [] OTHER -> soroban

SHAREABLE_TABS ==
  {"details", "trace", "balance-changes", "operations", "xdr", "decoded"}

(* Under the tab strip: the shape of the tab while the transaction is        *)
(* awaited, then each tab as far as its own query has come; what it draws of *)
(* the records is module TxRecord.                                           *)
TabBody(tab) ==
  CASE tx = "pending" -> "skeleton"
    [] tx = "success" /\ tab = "trace" -> TracePanel
    [] tx = "success" /\ tab = "operations" ->
         IF operations = "pending" THEN "skeleton" ELSE operations
    [] tx = "success" /\ tab = "balance-changes" ->
         IF effects = "pending" THEN "skeleton" ELSE effects
    [] OTHER -> Body

(* The line under the title: the sentence, or what stands in for it.         *)
Identifier ==
  IF tx = "success" /\ operations = "success" THEN "sentence"
  ELSE IF tx = "pending" \/ (tx = "success" /\ operations = "pending")
       THEN "placeholder" ELSE "hash"

Shown == open = "page" /\ Body = "transaction"

-----------------------------------------------------------------------------
(* The trace tab says that the transaction did not call a contract only when *)
(* that is so, or when its operations could not be read (page.tsx:226-240);  *)
(* and it never says that no trace is available, because the envelope it has *)
(* yields one: what a row found without the envelope is not in its way       *)
(* (queries.ts:221-224).                                                     *)
TraceTabIsHonest ==
  Shown =>
    /\ TracePanel = "no contract called" => ~invoking \/ operations = "error"
    /\ TracePanel # "no trace available"

(* A trace rebuilt from the envelope, or given up, is cached for good; it is *)
(* so only because RPC answered that it has no meta, too early or too late,  *)
(* and neither archive nor Horizon handed one out: a failure of RPC is never *)
(* cached as a thinner trace (queries.ts:231-252).                           *)
ThinTraceHasAReason ==
  soroban = "reconstructed" =>
    /\ saw.rpc \in {"early", "aged"}
    /\ saw.archive \in {"early", "failed"}
    /\ saw.horizon = "missing"

(* While page or row is open it goes on looking for a transaction until it   *)
(* has it, unless one look failed at every provider (queries.ts:185-188).    *)
LooksUntilFound ==
  ReadsTx ~> tx = "success" \/ tx = "error" \/ ~ReadsTx

(* Once the transaction is there, every part of the page that waits for      *)
(* something stops waiting, and so does a row, whatever fails                *)
(* (page.tsx:1187-1190, 1257-1259, history-table.tsx:262-271).               *)
PageSettles ==
  /\ Shown ~> \/ open # "page"
              \/ /\ Identifier # "placeholder"
                 /\ \A tab \in SHAREABLE_TABS \ {"balance-changes"} :
                      TabBody(tab) # "skeleton"
  /\ open = "row" ~> open # "row" \/ RowDetail # "skeleton"

=============================================================================
