-------------------------------- MODULE Tip --------------------------------
(* The tip of the network as the explorer sees it: RPC ingests a ledger      *)
(* some two seconds after it closes, Horizon some five (lib/queries.ts:      *)
(* 82-84), neither waits for the other, and the health query of RPC          *)
(* (healthQuery) tells the pages how far the network is.                     *)
EXTENDS Integers, FiniteSets, SequencesExt

CONSTANTS
  Content,    \* Content[l]: the transactions of ledger l in order
  Floor,      \* the oldest ledger that Horizon keeps
  Tip0        \* the tip when the reader comes

Last0 == Len(Content)   \* bound: the ledgers that will ever close

\* A transaction: its operations, the label its first one is presented with.
Transaction == [ops : Nat \ {0}, label : STRING, failed : BOOLEAN]

ASSUME TipAssumption ==
  /\ Content \in Seq(Seq(Transaction))
  /\ Floor \in 1..Last0 /\ Tip0 \in Floor..Last0

None == 0

VARIABLES
  closed, rpc, horizon,   \* the last ledger of the network, RPC, Horizon
  health,                 \* the health query's latestLedger, or None
  route                   \* the page on screen

networkVars == <<closed, rpc, horizon>>
tipVars == <<networkVars, health, route>>

TipInit ==
  /\ closed = Tip0 /\ rpc = Tip0 /\ horizon = Tip0
  /\ health = None

LedgerCloses == closed < Last0 /\ closed' = closed + 1 /\ UNCHANGED <<rpc, horizon>>
RpcIngests == rpc < closed /\ rpc' = rpc + 1 /\ UNCHANGED <<closed, horizon>>
HorizonIngests == horizon < closed /\ horizon' = horizon + 1 /\ UNCHANGED <<closed, rpc>>

Network ==
  /\ LedgerCloses \/ RpcIngests \/ HorizonIngests
  /\ UNCHANGED <<health, route>>

(* getHealth answers; the provider whose turn it is may be a ledger behind.  *)
Reported == {l \in {rpc, rpc - 1} : l >= Tip0}

\* The operations of ledger l, oldest first: their transaction and place.
OpsOf(l) ==
  FlattenSeq([i \in DOMAIN Content[l] |->
               [j \in 1..Content[l][i].ops |-> [ledger |-> l, tx |-> i, op |-> j]]])

=============================================================================
