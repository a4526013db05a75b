------------------------------ MODULE HomePage ------------------------------
(* The home page (src/frontend/src/features/home/page.tsx): the number of    *)
(* the latest ledger, told by whichever of the health query and the ledger   *)
(* stream is ahead, and the feed of the latest transactions, which two       *)
(* independent reads fill (latestActivityQuery) and every new number starts  *)
(* over.  The stream itself is LiveStream; here it hands over a head.        *)
EXTENDS Tip

CONSTANTS TX_ROWS, OPS_LOOKBACK

ASSUME HomePageAssumption == TX_ROWS \in Nat \ {0} /\ OPS_LOOKBACK \in Nat \ {0}

VARIABLES
  head,       \* the newest record of the stream, or None
  arrival,    \* the ledger the ring was started for, or None
  rows,       \* the data of the activity query: rows [ledger, tx, op]
  fetch       \* its fetch: [status, txsAt, opsAt], the reads' Horizon heights

homeVars == <<head, arrival, rows, fetch>>

NoFetch == [status |-> "idle", txsAt |-> None, opsAt |-> None]
NewFetch == [NoFetch EXCEPT !.status = "fetching"]

HomeInit == head = None /\ arrival = None /\ rows = <<>> /\ fetch = NoFetch

-----------------------------------------------------------------------------
DisplaySeq(latest, top) == IF latest # None /\ latest > top THEN latest ELSE top

(* A query with data drops the fetch under way and starts over; one without  *)
(* data keeps it.                                                            *)
Refetched ==
  IF rows # <<>> \/ fetch.status # "fetching" THEN NewFetch ELSE fetch

(* The page is drawn with health at latest and the stream at top: the ring   *)
(* restarts for a higher number only, the feed for any other number.         *)
Drawn(latest, top) ==
  LET display == DisplaySeq(latest, top)
  IN  /\ health' = latest /\ head' = top
      /\ arrival' = IF display > arrival THEN display ELSE arrival
      /\ fetch' = IF display # None /\ display # DisplaySeq(health, head)
                  THEN Refetched ELSE fetch

HomeHealth(latest) ==
  /\ route = "home" /\ latest \in Reported
  /\ Drawn(latest, head)
  /\ UNCHANGED <<networkVars, route, rows>>

HeadArrives ==
  /\ route = "home"
  /\ \E top \in Tip0..horizon : top > head /\ Drawn(health, top)
  /\ UNCHANGED <<networkVars, route, rows>>

OpenHome ==
  /\ route # "home" /\ route' = "home"
  /\ head' = None
  /\ arrival' = health
  /\ fetch' = NewFetch
  /\ UNCHANGED <<networkVars, health, rows>>

CloseHome == head' = None /\ arrival' = None /\ fetch' = NoFetch /\ UNCHANGED rows

-----------------------------------------------------------------------------
(* The feed.                                                                 *)

\* The last n of a sequence, newest first.
Latest(n, s) == Reverse(IF Len(s) > n THEN SubSeq(s, Len(s) - n + 1, Len(s)) ELSE s)

\* What Horizon holds up to ledger l, oldest first.
OpsUpTo(l) == FlattenSeq([i \in 1..l |-> OpsOf(i)])
TxsUpTo(l) ==
  FlattenSeq([i \in 1..l |-> [j \in DOMAIN Content[i] |-> [ledger |-> i, tx |-> j, op |-> 1]]])

IsOf(op, tx) == op.ledger = tx.ledger /\ op.tx = tx.tx

(* Mutant: the operation that came last in the window is kept. *)
PrimaryNewest(tx, ops) ==
  LET own == {op.op : op \in {o \in ToSet(ops) : IsOf(o, tx)}}
  IN  IF own = {} THEN None ELSE CHOOSE n \in own : \A other \in own : n >= other

\* The first operation of tx that the window holds.
Primary(tx, ops) ==
  LET own == {op.op : op \in {o \in ToSet(ops) : IsOf(o, tx)}}
  IN  IF own = {} THEN None ELSE CHOOSE n \in own : \A other \in own : n <= other

BuildActivityRows(txs, ops) ==
  [i \in DOMAIN txs |-> [txs[i] EXCEPT !.op = Primary(txs[i], ops)]]

ReadTransactions ==
  /\ fetch.status = "fetching" /\ fetch.txsAt = None
  /\ fetch' = [fetch EXCEPT !.txsAt = horizon]
  /\ UNCHANGED <<tipVars, head, arrival, rows>>

ReadOperations ==
  /\ fetch.status = "fetching" /\ fetch.opsAt = None
  /\ fetch' = [fetch EXCEPT !.opsAt = horizon]
  /\ UNCHANGED <<tipVars, head, arrival, rows>>

(* fillMissingOps: the rows without one look their first operation up; a     *)
(* lookup that fails leaves its row as it was.                               *)
FeedAnswers ==
  /\ fetch.txsAt # None /\ fetch.opsAt # None
  /\ LET built == BuildActivityRows(Latest(TX_ROWS, TxsUpTo(fetch.txsAt)),
                                    Latest(OPS_LOOKBACK, OpsUpTo(fetch.opsAt)))
     IN  \E failing \in SUBSET {i \in DOMAIN built : built[i].op = None} :
           rows' = [i \in DOMAIN built |->
                     IF built[i].op = None /\ i \notin failing
                     THEN [built[i] EXCEPT !.op = 1] ELSE built[i]]
  /\ fetch' = NoFetch
  /\ UNCHANGED <<tipVars, head, arrival>>

\* The rows stay; the next poll or the next number asks again.
FeedFails ==
  /\ fetch.status = "fetching"
  /\ fetch' = [NoFetch EXCEPT !.status = "error"]
  /\ UNCHANGED <<tipVars, head, arrival, rows>>

FeedPolls ==
  /\ route = "home" /\ fetch.status # "fetching"
  /\ fetch' = NewFetch
  /\ UNCHANGED <<tipVars, head, arrival, rows>>

HomeStep ==
  \/ \E latest \in Reported : HomeHealth(latest)
  \/ HeadArrives
  \/ ReadTransactions \/ ReadOperations \/ FeedAnswers \/ FeedFails \/ FeedPolls

TxStatus ==
  IF fetch.status = "error" THEN "paused"
  ELSE IF rows = <<>> THEN "connecting" ELSE "live"

=============================================================================
