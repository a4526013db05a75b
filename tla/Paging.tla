------------------------------- MODULE Paging -------------------------------
(***************************************************************************)
(* A client walks one contract's history through the API, page by page     *)
(* (contractTransactions over Store.TransactionsByContract), while the     *)
(* indexer commits ledgers in any order: newer ones from the worker, older *)
(* ones from a backfill.  Each query of a page is a statement of its own,  *)
(* so a commit may fall between any two.  A function-filtered page tries   *)
(* the streaming plan and falls back to scanning windows when it is slow.  *)
(***************************************************************************)
EXTENDS Integers, Sequences, FiniteSets, SequencesExt

CONSTANTS
  History,         \* the contract's rows: [ledger, hash, fn] records
  Wanted,          \* the function a filtered walk asks for
  Limit,           \* the page size of the API
  WindowLedgers,   \* scanWindowLedgers
  WindowsPerPage,  \* scanWindowsPerPage
  TimeBounds       \* the from/to filters a walk may use, as ledger bounds

ASSUME PagingAssumption ==
  /\ IsFiniteSet(History)
  /\ \A r \in History : {r.ledger, r.hash} \subseteq Nat \ {0}
  /\ \A r, s \in History : r.ledger = s.ledger /\ r.hash = s.hash => r = s
  /\ {Limit, WindowLedgers, WindowsPerPage} \subseteq Nat \ {0}
  /\ \A t \in TimeBounds : {t.from, t.to} \subseteq Nat

VARIABLES
  table,    \* contract_transactions, committed
  initial,  \* history: the rows committed when the walk began
  filter,   \* of the walk: [function, from, to]
  cursor,   \* before and filter.ContinueScan of the current request
  pc,       \* the statement the request is about to send
  out,      \* the rows of the page so far
  ledgers,  \* the answer of recentLedgers
  floor, hi, window,  \* of pageByWindows
  more,     \* page.ContinueLedger
  got       \* the rows the client has been given, in order

filterVars == <<initial, filter>>
scanVars == <<floor, hi, window>>
vars == <<table, filterVars, cursor, pc, out, ledgers, scanVars, more, got>>

(* "one extra row answers whether another page exists" *)
limit == Limit + 1

NoCursor == [ledger |-> 0, hash |-> 0, scan |-> FALSE]

Newer(r, s) == r.ledger > s.ledger \/ (r.ledger = s.ledger /\ r.hash > s.hash)

Ledgers(rows) == {r.ledger : r \in rows}

(* ORDER BY ledger DESC, tx_hash DESC LIMIT n *)
Newest(rows, n) ==
  LET size == Cardinality(rows)
  IN  [i \in 1..(IF size < n THEN size ELSE n) |->
         CHOOSE r \in rows : Cardinality({s \in rows : Newer(s, r)}) = i - 1]

InTime(r) == r.ledger >= filter.from /\ r.ledger <= filter.to

(* filterPredicates *)
Matching == {r \in table : InTime(r) /\ (filter.function => r.fn = Wanted)}

TypeOK ==
  /\ table \subseteq History
  /\ initial \subseteq table
  /\ filter \in [function : BOOLEAN, from : Nat, to : Nat]
  /\ cursor \in [ledger : Nat, hash : Nat, scan : BOOLEAN]
  /\ pc \in {"lookup", "rest", "ledgers", "rows", "floor", "ceiling", "window", "reply", "done"}
  /\ out \in Seq(History) /\ Len(out) <= limit + 1
  /\ ledgers \subseteq Ledgers(History)
  /\ {floor, hi, more} \subseteq Nat
  /\ window \in 0..WindowsPerPage
  /\ got \in Seq(History)

(* A ledger's rows are committed together. *)
Committed(ls) == {r \in History : r.ledger \in ls}

Init ==
  /\ \E ls \in SUBSET Ledgers(History) : table = Committed(ls)
  /\ initial = table
  /\ \E f \in BOOLEAN, t \in TimeBounds :
       filter = [function |-> f, from |-> t.from, to |-> t.to]
  /\ cursor = NoCursor
  /\ pc = "lookup"
  /\ out = <<>>
  /\ ledgers = {}
  /\ floor = 0 /\ hi = 0 /\ window = 0
  /\ more = 0
  /\ got = <<>>

(* SaveLedger, by the worker or a backfill *)
CommitLedger(l) ==
  /\ pc # "done"
  /\ l \in Ledgers(History \ table)
  /\ table' = table \cup Committed({l})
  /\ UNCHANGED <<filterVars, cursor, pc, out, ledgers, scanVars, more, got>>

-----------------------------------------------------------------------------
(* TransactionsByContract *)

Known == table # {} /\ (filter.function => \E r \in table : r.fn = Wanted)

(* The ids of the contract and the function; an unknown one has no rows.   *)
Lookup ==
  /\ pc = "lookup"
  /\ pc' = IF ~Known THEN "reply" ELSE IF cursor.scan THEN "floor" ELSE "rest"
  /\ out' = <<>>
  /\ more' = 0
  /\ UNCHANGED <<table, filterVars, cursor, ledgers, scanVars, got>>

(* pageByLedgers, first: the rest of the cursor's own ledger. *)
QueryRest ==
  /\ pc = "rest"
  /\ out' = Newest({r \in Matching : r.ledger = cursor.ledger /\ r.hash < cursor.hash}, limit)
  /\ pc' = IF Len(out') < limit THEN "ledgers" ELSE "reply"
  /\ UNCHANGED <<table, filterVars, cursor, ledgers, scanVars, more, got>>

Below == IF cursor = NoCursor THEN Matching ELSE {r \in Matching : r.ledger < cursor.ledger}

(* recentLedgers: the newest ledgers below, at most one per missing row. *)
QueryLedgers ==
  /\ pc = "ledgers"
  /\ ledgers' = {l \in Ledgers(Below) :
                   Cardinality({k \in Ledgers(Below) : k > l}) < limit - Len(out)}
  /\ pc' = IF ledgers' = {} THEN "reply" ELSE "rows"
  /\ UNCHANGED <<table, filterVars, cursor, out, scanVars, more, got>>

(* All the rows of those ledgers, cut to the page. *)
QueryRows ==
  /\ pc = "rows"
  /\ LET found == {r \in Matching : r.ledger \in ledgers}
     IN  out' = out \o Newest(found, limit - Len(out))
  /\ pc' = "reply"
  /\ UNCHANGED <<table, filterVars, cursor, ledgers, scanVars, more, got>>

(* fastPathTimeout: what the streaming plan has found is thrown away. *)
FastPathTimeout ==
  /\ filter.function
  /\ pc \in {"rest", "ledgers", "rows"}
  /\ pc' = "floor"
  /\ out' = <<>>
  /\ UNCHANGED <<table, filterVars, cursor, ledgers, scanVars, more, got>>

-----------------------------------------------------------------------------
(* pageByWindows *)

Oldest(ls) == CHOOSE l \in ls : \A k \in ls : l <= k
Latest(ls) == CHOOSE l \in ls : \A k \in ls : l >= k

(* scanFloor: the first row of the contract in the time bound, whatever    *)
(* its function.                                                           *)
QueryFloor ==
  /\ pc = "floor"
  /\ LET ls == {l \in Ledgers(table) : l >= filter.from}
     IN  IF ls = {}
           THEN pc' = "reply" /\ UNCHANGED <<floor, hi>>
           ELSE /\ floor' = Oldest(ls)
                /\ hi' = IF cursor.scan THEN cursor.ledger ELSE cursor.ledger + 1
                /\ pc' = IF cursor = NoCursor THEN "ceiling" ELSE "window"
  /\ window' = 0
  /\ UNCHANGED <<table, filterVars, cursor, out, ledgers, more, got>>

(* scanCeiling: the newest row in the time bound. *)
QueryCeiling ==
  /\ pc = "ceiling"
  /\ LET ls == {l \in Ledgers(table) : l <= filter.to}
     IN  IF ls = {}
           THEN pc' = "reply" /\ UNCHANGED hi
           ELSE hi' = Latest(ls) + 1 /\ pc' = "window"
  /\ UNCHANGED <<table, filterVars, cursor, out, ledgers, floor, window, more, got>>

Scanning == window < WindowsPerPage /\ hi > floor /\ Len(out) <= limit

(* rowBound: the first window below a row cursor still holds its ledger. *)
BelowCursor(r) ==
  (window = 0 /\ cursor # NoCursor /\ ~cursor.scan)
    => (r.ledger < cursor.ledger \/ r.hash < cursor.hash)

(* Mutant: `hi = lo` forgotten. *)
QueryWindowAgain ==
  /\ pc = "window" /\ Scanning
  /\ LET lo    == IF hi - WindowLedgers < floor THEN floor ELSE hi - WindowLedgers
         found == {r \in Matching : r.ledger >= lo /\ r.ledger < hi /\ BelowCursor(r)}
     IN  out' = out \o Newest(found, limit + 1 - Len(out))
  /\ window' = window + 1
  /\ UNCHANGED <<table, filterVars, cursor, pc, ledgers, floor, hi, more, got>>

QueryWindow ==
  /\ pc = "window" /\ Scanning
  /\ LET lo    == IF hi - WindowLedgers < floor THEN floor ELSE hi - WindowLedgers
         found == {r \in Matching : r.ledger >= lo /\ r.ledger < hi /\ BelowCursor(r)}
     IN  out' = out \o Newest(found, limit + 1 - Len(out)) /\ hi' = lo
  /\ window' = window + 1
  /\ UNCHANGED <<table, filterVars, cursor, pc, ledgers, floor, more, got>>

(* The budget may run out before the history does. *)
EndScan ==
  /\ pc = "window" /\ ~Scanning
  /\ more' = IF Len(out) <= limit /\ hi > floor THEN hi ELSE 0
  /\ pc' = "reply"
  /\ UNCHANGED <<table, filterVars, cursor, out, ledgers, scanVars, got>>

-----------------------------------------------------------------------------
(* contractTransactions: the page and its next_cursor; the client comes    *)
(* back with it, parsed by parseCursor.                                    *)
Page == IF Len(out) > Limit THEN SubSeq(out, 1, Limit) ELSE out

(* Mutant: the cursor is a ledger without a hash. *)
NextCursorLedgerOnly ==
  IF Len(out) > Limit
    THEN [ledger |-> Last(Page).ledger, hash |-> 0, scan |-> FALSE]
    ELSE IF more > 0 THEN [ledger |-> more, hash |-> 0, scan |-> TRUE] ELSE NoCursor

NextCursor ==
  IF Len(out) > Limit
    THEN [ledger |-> Last(Page).ledger, hash |-> Last(Page).hash, scan |-> FALSE]
    ELSE IF more > 0 THEN [ledger |-> more, hash |-> 0, scan |-> TRUE] ELSE NoCursor

Reply ==
  /\ pc = "reply"
  /\ got' = got \o Page
  /\ cursor' = NextCursor
  /\ pc' = IF NextCursor = NoCursor THEN "done" ELSE "lookup"
  /\ UNCHANGED <<table, filterVars, out, ledgers, scanVars, more>>

-----------------------------------------------------------------------------
Serve ==
  \/ Lookup
  \/ QueryRest \/ QueryLedgers \/ QueryRows
  \/ FastPathTimeout
  \/ QueryFloor \/ QueryCeiling \/ QueryWindow \/ EndScan
  \/ Reply

Next == Serve \/ \E l \in Ledgers(History) : CommitLedger(l)

Spec == Init /\ [][Next]_vars

(* The server answers and the client goes on to the next page. *)
FairSpec == Spec /\ WF_vars(Serve)

-----------------------------------------------------------------------------
(* Properties *)

(* A cursor never skips rows and never goes back (store.go:283-285,        *)
(* 327-329, 408-410, 478-480): over the whole walk, across cursors, plans  *)
(* and commits in between, no row comes twice or out of order, and a walk  *)
(* that reached its end has shown every matching row that was there when   *)
(* it began, through dense ledgers, cut pages, slow plans and exhausted    *)
(* scan budgets.                                                           *)
WalkIsComplete ==
  /\ \A i, j \in 1..Len(got) : i < j => Newer(got[i], got[j])
  /\ pc = "done" =>
       \A r \in initial :
         (InTime(r) /\ (filter.function => r.fn = Wanted)) => r \in Range(got)

(* "Deterministic progress" (store.go:429-431): every walk ends, although  *)
(* every page may time out and scan windows without a match.               *)
WalkEnds == <>(pc = "done")

=============================================================================
