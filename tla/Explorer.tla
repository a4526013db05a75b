------------------------------ MODULE Explorer ------------------------------
(* The home page, the ledger page and the page of a contract on one network: *)
(* the reader starts at home or at a contract and moves between the pages,   *)
(* following a link or typing any number.  They share the variables of Tip.  *)
EXTENDS LedgerPage, HomePage, ContractPage

explorerVars == <<tipVars, ledgerVars, homeVars, contractVars>>

ExplorerInit ==
  /\ TipInit /\ LedgerInit /\ HomeInit
  /\ \/ route = "home" /\ NoContractPage
     \/ route = "contract" /\ \E c \in Contract : ArrivesAt(c)

\* Bound: a reader who leaves the contracts does not come back to them.
ForgetContracts ==
  /\ contract' = "none" /\ details' = <<>> /\ asking' = FALSE /\ failed' = {}
  /\ codes' = <<>> /\ codeAsking' = FALSE /\ codeFailed' = FALSE

\* Leaving cancels the fetch of the page that is left; its data stays.
GoToLedger(l) == OpenLedger(l) /\ CloseHome /\ ForgetContracts

GoHome ==
  /\ OpenHome
  /\ \/ CloseLedgerPage
     \/ route = "contract" /\ UNCHANGED ledgerVars
  /\ ForgetContracts

ExplorerNext ==
  \/ Network /\ UNCHANGED <<ledgerVars, homeVars, contractVars>>
  \/ HomeStep /\ UNCHANGED <<ledgerVars, contractVars>>
  \/ LedgerStep /\ UNCHANGED <<homeVars, contractVars>>
  \/ ContractStep /\ UNCHANGED <<ledgerVars, homeVars>>
  \/ \E l \in 1..Last0 : GoToLedger(l)
  \/ GoHome

(* The network goes on and its nodes keep up; the browser's polls, lookups   *)
(* and walks all come to an end.                                             *)
ExplorerFairness ==
  /\ WF_explorerVars(LedgerCloses /\ UNCHANGED <<health, route, ledgerVars, homeVars, contractVars>>)
  /\ WF_explorerVars(RpcIngests /\ UNCHANGED <<health, route, ledgerVars, homeVars, contractVars>>)
  /\ WF_explorerVars(HorizonIngests /\ UNCHANGED <<health, route, ledgerVars, homeVars, contractVars>>)
  /\ WF_explorerVars(LedgerHealth(rpc) /\ UNCHANGED <<homeVars, contractVars>>)
  /\ WF_explorerVars((LedgerAnswers \/ LedgerFails) /\ UNCHANGED <<homeVars, contractVars>>)
  /\ WF_explorerVars((InstanceAnswers \/ InstanceFails) /\ UNCHANGED <<ledgerVars, homeVars>>)
  /\ WF_explorerVars((CodeAnswers \/ CodeFails) /\ UNCHANGED <<ledgerVars, homeVars>>)

ExplorerSpec == ExplorerInit /\ [][ExplorerNext]_explorerVars /\ ExplorerFairness

-----------------------------------------------------------------------------
(* A finished walk over a ledger's operations holds all of them, in order,   *)
(* and one that was cut at the load cap says so (lib/queries.ts:424-467):    *)
(* the summary of the ledger counts its whole content or owns up.            *)
WholeLedger ==
  \A l \in DOMAIN kept :
    LET walk == kept[l]
    IN  /\ IsPrefix(walk.records, OpsOf(l))
        /\ walk.records # OpsOf(l) => walk.truncated
        /\ walk.truncated => Len(walk.records) = LEDGER_OPS_PAGE * LEDGER_OPS_MAX_PAGES

(* Every step of the pager shows another page of the filtered rows           *)
(* (ledger/page.tsx:349-372): no click is swallowed because the index ran    *)
(* past the pages that the filter left.                                      *)
PagerMoves ==
  [][(HasPager /\ HasPager' /\ seq' = seq /\ typeFilter' = typeFilter
        /\ pageIndex' # pageIndex)
      => CurrentPage' # CurrentPage]_explorerVars

(* A reader who stays on a ledger that has not closed yet gets to see it     *)
(* (ledger/page.tsx:584-601), unless the providers fail or the one lookup    *)
(* that follows the wait came before Horizon had the ledger.                 *)
WaitsForLedger ==
  \A l \in 1..Last0 :
    (route = "ledger" /\ seq = l /\ LedgerView = "not closed yet")
      ~> (\/ route # "ledger" \/ seq # l
          \/ LedgerView \in {"ledger", "unreachable"}
          \/ LedgerView = "older" /\ early)

(* A row of the feed tells the first operation of its transaction, or        *)
(* nothing; the one transaction that the lookback window cuts in the middle  *)
(* is the exception (activity.ts:283-303, queries.ts:124-176), however far   *)
(* the two reads are apart.                                                  *)
RowsTellFirstOps ==
  Cardinality({i \in DOMAIN rows : rows[i].op \notin {None, 1}}) <= 1

(* The size and the interface on a contract's page are those of the wasm     *)
(* that the page says it runs (contract/page.tsx:106-126, queries.ts:        *)
(* 391-409), through upgrades, providers a ledger behind and a reader who    *)
(* goes from contract to contract.                                           *)
CodeIsItsOwn ==
  ContractView = "tabs" /\ Runs \in Wasm =>
    /\ SizeOf \in {"bar", "could not load", Runs}
    /\ Interface \in {"bars", "no readable interface", Runs}

(* Every part of the page that is being loaded comes to what it has to say.  *)
ContractSettles ==
  /\ (route = "contract" /\ ContractView = "skeleton")
       ~> (route # "contract" \/ ContractView # "skeleton")
  /\ Interface = "bars" ~> Interface # "bars"
  /\ SizeOf = "bar" ~> SizeOf # "bar"

(* Nobody is left waiting: not for a ledger that is to close, and not for    *)
(* what a contract is, how large its code is or what its interface is.       *)
WaitingEnds == WaitsForLedger /\ ContractSettles

=============================================================================
