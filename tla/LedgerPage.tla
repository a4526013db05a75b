----------------------------- MODULE LedgerPage -----------------------------
(* The page of one ledger (src/frontend/src/features/ledger/page.tsx): the   *)
(* lookup of the ledger, which may not have closed yet, the walk over its    *)
(* operations (ledgerOperationsQuery), and the filter and the pager over its *)
(* transactions.  The route carries no key: another sequence is shown by the *)
(* same component.                                                           *)
EXTENDS Tip

CONSTANTS
  LEDGER_OPS_PAGE, LEDGER_OPS_MAX_PAGES, TX_PAGE_SIZE

ASSUME LedgerPageAssumption ==
  /\ LEDGER_OPS_PAGE \in Nat \ {0}
  /\ LEDGER_OPS_MAX_PAGES \in Nat \ {0}
  /\ TX_PAGE_SIZE \in Nat \ {0}

VARIABLES
  seq,          \* the sequence in the url
  answer,       \* the ledger query of seq
  sawFuture,    \* the ref of that name
  got,          \* the ledgers with an answer, kept for good
  activity,     \* the walk over the operations of seq
  kept,         \* the finished walks, kept for good
  typeFilter, pageIndex,
  early         \* history: the lookup after the wait was asked too early

bodyVars == <<activity, typeFilter, pageIndex>>
ledgerVars == <<seq, answer, sawFuture, got, bodyVars, kept, early>>

NoWalk == [status |-> "none", records |-> <<>>, page |-> 0, truncated |-> FALSE]
NoFilter == ""
Failed == "__failed"

LedgerInit ==
  /\ seq = 1 /\ answer = "pending" /\ sawFuture = FALSE
  /\ got = {} /\ kept = <<>>
  /\ activity = NoWalk /\ typeFilter = NoFilter /\ pageIndex = 0
  /\ early = FALSE

-----------------------------------------------------------------------------
(* The lookup.                                                               *)

\* The body of the page of ledger l: a fresh component for every sequence.
Body(l, a) ==
  /\ typeFilter' = NoFilter /\ pageIndex' = 0
  /\ activity' = IF a # "found" THEN NoWalk
                 ELSE IF l \in DOMAIN kept THEN kept[l]
                 ELSE [NoWalk EXCEPT !.status = "walking"]

(* The page is drawn with the answer a to the lookup of ledger l and with    *)
(* the network at latest; its effect remembers a ledger that was in the      *)
(* future and asks for it again once the network has reached it.             *)
Rendered(l, a, latest) ==
  LET reached == a = "notFound" /\ latest # None /\ l <= latest
      future == a = "notFound" /\ latest # None /\ l > latest
  IN  /\ seq' = l /\ health' = latest
      /\ sawFuture' = (future \/ (sawFuture /\ ~reached))
      /\ answer' = IF reached /\ sawFuture THEN "pending" ELSE a
      /\ early' = (early \/ (reached /\ sawFuture /\ l > horizon))

\* What Horizon says of ledger l: 404, and 410 where it knows it was pruned.
Lookup(l) ==
  IF l > horizon THEN {"notFound"}
  ELSE IF l < Floor THEN {"tooOld", "notFound"}
  ELSE {"found"}

LedgerAnswers ==
  /\ route = "ledger" /\ answer = "pending"
  /\ \E a \in Lookup(seq) :
       /\ Rendered(seq, a, health)
       /\ got' = IF a = "found" THEN got \cup {seq} ELSE got
       /\ Body(seq, a)
  /\ UNCHANGED <<networkVars, route, kept>>

LedgerFails ==
  /\ route = "ledger" /\ answer = "pending"
  /\ answer' = "error"
  /\ UNCHANGED <<tipVars, seq, sawFuture, got, bodyVars, kept, early>>

(* Polled at the ledgers' pace; a poll that fails leaves the data there.     *)
LedgerHealth(latest) ==
  /\ route = "ledger" /\ latest \in Reported
  /\ Rendered(seq, answer, latest)
  /\ UNCHANGED <<networkVars, route, got, bodyVars, kept>>

(* Another sequence: kept answers are shown at once, errors asked for anew.  *)
GoTo(l) ==
  LET a == IF l \in got THEN "found" ELSE "pending"
  IN  /\ seq' = l /\ answer' = a
      /\ Body(l, a)
      /\ early' = FALSE
      /\ UNCHANGED <<got, kept>>

(* The arrows beside the number; the one forward stops at the tip.           *)
AtTip == health # None /\ seq >= health

SequenceNav ==
  /\ route = "ledger"
  /\ \/ seq > 1 /\ GoTo(seq - 1)
     \/ ~AtTip /\ seq < Last0 /\ GoTo(seq + 1)
  /\ UNCHANGED <<tipVars, sawFuture>>

OpenLedger(l) ==
  /\ route # "ledger" /\ route' = "ledger"
  /\ GoTo(l) /\ sawFuture' = FALSE
  /\ UNCHANGED <<networkVars, health>>

\* The component goes, and its ref with it; the queries' data stays.
CloseLedgerPage ==
  /\ route = "ledger"
  /\ seq' = 1 /\ answer' = "pending" /\ sawFuture' = FALSE
  /\ activity' = NoWalk /\ typeFilter' = NoFilter /\ pageIndex' = 0
  /\ early' = FALSE
  /\ UNCHANGED <<got, kept>>

-----------------------------------------------------------------------------
(* The operations: pages behind the last record's token, up to a cap.        *)
Batch(walk) ==
  LET all == OpsOf(seq)
      from == Len(walk.records)
  IN  SubSeq(all, from + 1,
             IF from + LEDGER_OPS_PAGE < Len(all) THEN from + LEDGER_OPS_PAGE ELSE Len(all))

(* Mutant: the walk stops a page early and does not say so. *)
TakenBeforeCap(walk) ==
  LET batch == Batch(walk)
      full == Len(batch) = LEDGER_OPS_PAGE
      capped == walk.page + 2 >= LEDGER_OPS_MAX_PAGES
  IN  [status |-> IF full /\ ~capped THEN "walking" ELSE "done",
       records |-> walk.records \o batch,
       page |-> walk.page + 1,
       truncated |-> walk.page + 1 = LEDGER_OPS_MAX_PAGES /\ full]

Taken(walk) ==
  LET batch == Batch(walk)
      full == Len(batch) = LEDGER_OPS_PAGE
      capped == walk.page + 1 = LEDGER_OPS_MAX_PAGES
  IN  [status |-> IF full /\ ~capped THEN "walking" ELSE "done",
       records |-> walk.records \o batch,
       page |-> walk.page + 1,
       truncated |-> full /\ capped]

WalkOperations ==
  /\ route = "ledger" /\ activity.status = "walking"
  /\ activity' = Taken(activity)
  /\ kept' = IF Taken(activity).status = "walking" THEN kept
             ELSE [l \in DOMAIN kept \cup {seq} |->
                    IF l = seq THEN Taken(activity) ELSE kept[l]]
  /\ UNCHANGED <<tipVars, seq, answer, sawFuture, got, typeFilter, pageIndex, early>>

\* One page that fails fails the walk.
WalkFails ==
  /\ route = "ledger" /\ activity.status = "walking"
  /\ activity' = [NoWalk EXCEPT !.status = "error"]
  /\ UNCHANGED <<tipVars, seq, answer, sawFuture, got, typeFilter, pageIndex, kept, early>>

-----------------------------------------------------------------------------
(* The rows: a transaction each, presented by its first operation.           *)

\* groupByTransaction: a row where a run of one transaction's records starts.
Entries(records) ==
  {i \in DOMAIN records : i = 1 \/ records[i - 1].tx # records[i].tx}

Presented == [i \in Entries(activity.records) |-> Content[seq][activity.records[i].tx]]

Passes(row, filter) ==
  \/ filter = NoFilter
  \/ filter = Failed /\ row.failed
  \/ filter # Failed /\ row.label = filter

FilteredEntries == {i \in DOMAIN Presented : Passes(Presented[i], typeFilter)}

PageCount ==
  LET n == (Cardinality(FilteredEntries) + TX_PAGE_SIZE - 1) \div TX_PAGE_SIZE
  IN  IF n = 0 THEN 1 ELSE n

CurrentPage == IF pageIndex < PageCount THEN pageIndex ELSE PageCount - 1

HasPager == route = "ledger" /\ activity.status = "done" /\ DOMAIN Presented # {}

\* The chips: a label each, and the failed ones, where there is a choice.
Chips ==
  LET labels == {Presented[i].label : i \in DOMAIN Presented}
      fails == \E i \in DOMAIN Presented : Presented[i].failed
  IN  IF Cardinality(labels) < 2 /\ ~fails THEN {}
      ELSE labels \cup IF fails THEN {Failed} ELSE {}

(* Mutant: the page stays when the filter changes. *)
SelectTypeOnly(label) ==
  /\ HasPager /\ label \in Chips
  /\ typeFilter' = IF typeFilter = label THEN NoFilter ELSE label
  /\ UNCHANGED <<tipVars, seq, answer, sawFuture, got, activity, pageIndex, kept, early>>

SelectType(label) ==
  /\ HasPager /\ label \in Chips
  /\ typeFilter' = IF typeFilter = label THEN NoFilter ELSE label
  /\ pageIndex' = 0
  /\ UNCHANGED <<tipVars, seq, answer, sawFuture, got, activity, kept, early>>

TurnPage ==
  /\ HasPager
  /\ \/ CurrentPage + 1 < PageCount /\ pageIndex' = pageIndex + 1
     \/ CurrentPage > 0 /\ pageIndex' = pageIndex - 1
     \/ CurrentPage > 0 /\ pageIndex' = 0
  /\ UNCHANGED <<tipVars, seq, answer, sawFuture, got, activity, typeFilter, kept, early>>

LedgerStep ==
  \/ LedgerAnswers \/ LedgerFails \/ SequenceNav
  \/ \E latest \in Reported : LedgerHealth(latest)
  \/ WalkOperations \/ WalkFails
  \/ \E label \in Chips : SelectType(label)
  \/ TurnPage

-----------------------------------------------------------------------------
(* What the page says.                                                       *)
LedgerView ==
  CASE answer = "found" -> "ledger"
    [] answer = "tooOld" -> "older"
    [] answer = "notFound" /\ health = None -> "skeleton"
    [] answer = "notFound" /\ health # None /\ seq > health -> "not closed yet"
    [] answer = "notFound" /\ health # None /\ seq <= health -> "older"
    [] answer = "pending" -> "skeleton"
    [] OTHER -> "unreachable"

=============================================================================
