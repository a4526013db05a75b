------------------------------ MODULE History ------------------------------
(* The paged list on the page of an account (its operations,                 *)
(* features/account/page.tsx) or of a contract (its invocations,             *)
(* features/contract/page.tsx): the walked cursors of useCursorPages, the    *)
(* filter, and the query of the page on screen.  The list is a component of  *)
(* the page: it lives while its tab is open and its page is loaded, and is   *)
(* the same component for every page of one kind.                            *)
EXTENDS Navigation, FiniteSets, FiniteSetsExt

CONSTANTS
  First,      \* First[p]: the operations of p at the start, newest highest
  Selected,   \* the operations that the filter lets through
  PageSize,   \* HISTORY_PAGE, INDEXER_PAGE
  Late,       \* operations that are yet to come
  MaxLost     \* bound: lookups of an operation that fail

ASSUME HistoryAssumption ==
  /\ "none" \notin Page
  /\ First \in [Page -> SUBSET (Nat \ {0})] /\ \A p \in Page : IsFiniteSet(First[p])
  /\ Late \subseteq Nat \ {0}
  /\ PageSize \in Nat \ {0}
  /\ MaxLost \in Nat
  /\ \A p \in Page : \A n \in First[p], m \in Late : n < m

None == 0       \* no cursor: the first page

VARIABLES
  ops,        \* what the providers have of each page
  loaded,     \* the pages whose own query has an answer
  mounted, visited, filter,    \* the list: is there, its state
  carried,    \* history: pages it walked before are another page's
  asking, failed,              \* its query: under way, ended in an error
  previous,   \* the last page it showed (keepPreviousData)
  cache,      \* the answers
  lost        \* how many lookups failed

listVars == <<mounted, visited, filter, carried, asking, failed, previous>>
historyVars == <<ops, loaded, listVars, cache, lost>>

Filter == {"all", "selected"}
Key == [page : Page, filter : Filter, cursor : Nat]
NoKey == [page |-> "none", filter |-> "all", cursor |-> None]

\* A walked cursor; history: the list and the rows of the page it was taken from.
Step == [token : Nat, page : Page, filter : Filter, found : SUBSET Nat]

HistoryTypeOK ==
  /\ ops \in [Page -> SUBSET Nat] /\ loaded \subseteq Page
  /\ mounted \in BOOLEAN /\ carried \in BOOLEAN /\ asking \in BOOLEAN /\ failed \in BOOLEAN
  /\ visited \in Seq(Step)
  /\ filter \in Filter /\ previous \in Key \cup {NoKey}
  /\ DOMAIN cache \subseteq Key /\ lost \in 0..MaxLost

Cursor == IF visited = <<>> THEN None ELSE visited[Len(visited)].token
KeyNow == [page |-> Here, filter |-> filter, cursor |-> Cursor]

-----------------------------------------------------------------------------
(* The providers: a page of a list, newest first.                            *)
Listed(p, f) == {n \in ops[p] : f = "selected" => n \in Selected}
Below(key) ==
  {n \in Listed(key.page, key.filter) : key.cursor = None \/ n < key.cursor}
RowsOf(key) ==
  {n \in Below(key) : Cardinality({m \in Below(key) : m > n}) < PageSize}

EndOf(rows) == IF rows = {} THEN None ELSE Min(rows)

(* Where the indexer's search for the rows of a filter may stop before the   *)
(* page is full or the history at its end (contract/page.tsx:562-565;        *)
(* store.go, pageByWindows, as in Paging): somewhere below the newest row of *)
(* the contract and the cursor, and above its oldest.                        *)
Stops(key) ==
  IF KindOf[key.page] = "account" \/ key.filter = "all" THEN {}
  ELSE {c \in UNION {1..n : n \in ops[key.page]} :
          /\ key.cursor = None \/ c < key.cursor
          /\ \E n \in ops[key.page] : n < c
          /\ Cardinality({n \in Below(key) : n >= c}) <= PageSize}

\* The rows of a page, searched as far as stop, or until it is full.
Found(key, stop) ==
  IF stop = None THEN RowsOf(key) ELSE {n \in Below(key) : n >= stop}

(* A page of answers, from which the rows that are gone were left out.  The  *)
(* cursor of the next page comes from the indexer, which knows whether there *)
(* is one and goes on where it stopped, or is the last row of Horizon's.     *)
Answer(key, stop, gone) ==
  [rows |-> Found(key, stop) \ gone,
   found |-> Found(key, stop),
   last |-> IF stop = None THEN EndOf(RowsOf(key)) ELSE stop,
   next |-> IF stop # None THEN stop
            ELSE IF KindOf[key.page] = "contract" /\ RowsOf(key) = Below(key)
            THEN None ELSE EndOf(RowsOf(key))]

(* An operation happens on a page.                                           *)
Happens(p, n) ==
  /\ n \in Late /\ \A q \in Page : \A m \in ops[q] : n > m
  /\ ops' = [ops EXCEPT ![p] = @ \cup {n}]
  /\ UNCHANGED <<navVars, loaded, listVars, cache, lost>>

-----------------------------------------------------------------------------
(* What is on screen: the answer to the key, or, on a contract's page, the   *)
(* rows of the last key that had one.                                        *)
ShownKey ==
  IF KeyNow \in DOMAIN cache THEN KeyNow
  ELSE IF KindOf[Here] = "contract" THEN previous ELSE NoKey

Data == cache[ShownKey]

View ==
  CASE ~mounted -> "closed"
    [] mounted /\ failed -> "error"
    [] mounted /\ ~failed /\ ShownKey = NoKey -> "skeleton"
    [] mounted /\ ~failed /\ ShownKey # NoKey ->
         IF KindOf[Here] = "account" /\ Data.rows = {} THEN "no activity" ELSE "rows"

(* Mutant: a page is full when it shows as many rows as were asked for. *)
HasMoreOfRows == Cardinality(Data.rows) = PageSize /\ Data.next # None

(* The indexer's word, or, for Horizon, a full page.                         *)
HasMore ==
  IF KindOf[Here] = "contract" THEN Data.next # None
  ELSE Cardinality(Data.found) = PageSize /\ Data.next # None

-----------------------------------------------------------------------------
(* The life of the component and of its query.                               *)

\* Old answers are asked for again: any of Horizon's, and an unwalked list.
Stale(key) == KindOf[key.page] = "account" \/ key.cursor = None

(* Mutant: an open list asks for nothing more. *)
ShowAskingOnce ==
  /\ failed' = FALSE
  /\ asking' \in IF mounted THEN {FALSE}
                 ELSE IF KeyNow' \notin DOMAIN cache THEN {TRUE} ELSE BOOLEAN
  /\ previous' = IF KindOf[Here'] = "account" THEN NoKey
                 ELSE IF KeyNow' \in DOMAIN cache THEN KeyNow'
                 ELSE IF mounted THEN previous ELSE NoKey

(* A key comes on screen: its cached answer at once, and a request unless    *)
(* that answer is still good.                                                *)
Show ==
  /\ failed' = FALSE
  /\ asking' \in IF KeyNow' \notin DOMAIN cache THEN {TRUE}
                 ELSE IF Stale(KeyNow') THEN BOOLEAN ELSE {FALSE}
  /\ previous' = IF KindOf[Here'] = "account" THEN NoKey
                 ELSE IF KeyNow' \in DOMAIN cache THEN KeyNow'
                 ELSE IF mounted THEN previous ELSE NoKey

Close ==
  /\ mounted' = FALSE /\ asking' = FALSE /\ failed' = FALSE
  /\ visited' = <<>> /\ filter' = "all" /\ carried' = FALSE
  /\ previous' = NoKey

Mount ==
  /\ mounted' = TRUE
  /\ visited' = <<>> /\ filter' = "all" /\ carried' = FALSE
  /\ Show

Opens == urls'[at'].tab = "list" /\ Here' \in loaded'

(* The routes carry no key: from one account to another, or from contract to *)
(* contract, an open list stays what it is under another page's name.        *)
Move ==
  /\ Go
  /\ UNCHANGED <<ops, loaded, cache, lost>>
  /\ IF ~Opens THEN Close
     ELSE IF mounted /\ KindOf[Here'] = KindOf[Here]
          THEN /\ UNCHANGED <<mounted, visited, filter>>
               /\ carried' = (carried \/ (visited # <<>> /\ Here' # Here))
               /\ Show
          ELSE Mount

(* The page's own query answers; without an answer there are no tabs.        *)
PageLoads ==
  /\ Here \notin loaded
  /\ loaded' = loaded \cup {Here}
  /\ UNCHANGED <<navVars, ops, cache, lost>>
  /\ IF Opens THEN Mount ELSE UNCHANGED listVars

(* The answer; on a contract's page a row whose operation cannot be fetched  *)
(* is left out of it.                                                        *)
Receive(stop, gone) ==
  /\ mounted /\ asking
  /\ gone \subseteq Found(KeyNow, stop)
  /\ gone # {} => KindOf[Here] = "contract"
  /\ lost' = lost + Cardinality(gone) /\ lost' <= MaxLost
  /\ cache' = [key \in DOMAIN cache \cup {KeyNow} |->
                IF key = KeyNow THEN Answer(key, stop, gone) ELSE cache[key]]
  /\ asking' = FALSE /\ failed' = FALSE
  /\ previous' = IF KindOf[Here] = "contract" THEN KeyNow ELSE NoKey
  /\ UNCHANGED <<navVars, ops, loaded, mounted, visited, filter, carried>>

(* No provider answered: an error, over a cached answer too, until the key   *)
(* changes or the list is opened again.                                      *)
Fails ==
  /\ mounted /\ asking
  /\ asking' = FALSE /\ failed' = TRUE
  /\ UNCHANGED <<navVars, ops, loaded, mounted, visited, filter, carried>>
  /\ UNCHANGED <<previous, cache, lost>>

(* The next page of an account's history, fetched ahead.                     *)
Prefetch ==
  /\ View = "rows" /\ KindOf[Here] = "account" /\ HasMore
  /\ LET ahead == [KeyNow EXCEPT !.cursor = Data.next]
     IN /\ ahead \notin DOMAIN cache
        /\ cache' = [key \in DOMAIN cache \cup {ahead} |->
                      IF key = ahead THEN Answer(key, None, {}) ELSE cache[key]]
  /\ UNCHANGED <<navVars, ops, loaded, listVars, lost>>

-----------------------------------------------------------------------------
(* The reader at the pager, and at the filter of a contract's list.          *)
AtPager == View = "rows" /\ Act

Redraw ==
  /\ UNCHANGED <<urls, at, ops, loaded, mounted, cache, lost>>
  /\ carried' = (carried /\ visited' # <<>>)
  /\ IF KeyNow' = KeyNow THEN UNCHANGED <<asking, failed, previous>> ELSE Show

(* Mutant: the cursor is the first row's. *)
NextFromTop ==
  /\ AtPager /\ HasMore
  /\ visited' = Append(visited, [token |-> IF Data.found = {} THEN Data.next
                                               ELSE Max(Data.found),
                                  page |-> ShownKey.page, filter |-> ShownKey.filter,
                                  found |-> Data.found])
  /\ UNCHANGED filter
  /\ Redraw

Next ==
  /\ AtPager /\ HasMore
  /\ visited' = Append(visited, [token |-> Data.next, page |-> ShownKey.page,
                                  filter |-> ShownKey.filter, found |-> Data.found])
  /\ UNCHANGED filter
  /\ Redraw

Previous ==
  /\ AtPager /\ visited # <<>>
  /\ visited' = SubSeq(visited, 1, Len(visited) - 1)
  /\ UNCHANGED filter
  /\ Redraw

ToFirst ==
  /\ AtPager /\ visited # <<>>
  /\ visited' = <<>>
  /\ UNCHANGED filter
  /\ Redraw

(* "a changed filter describes a different list" (contract/page.tsx:526).    *)
ApplyFilter(f) ==
  /\ AtPager /\ KindOf[Here] = "contract" /\ f # filter
  /\ filter' = f
  /\ visited' = <<>>
  /\ Redraw

-----------------------------------------------------------------------------
HistoryInit ==
  /\ NavInit
  /\ ops = First /\ loaded = {}
  /\ mounted = FALSE /\ visited = <<>> /\ filter = "all" /\ carried = FALSE
  /\ asking = FALSE /\ failed = FALSE /\ previous = NoKey
  /\ cache = <<>> /\ lost = 0

Query ==
  \/ PageLoads \/ Fails
  \/ \E stop \in {None} \cup Stops(KeyNow) :
       \E gone \in SUBSET Found(KeyNow, stop) : Receive(stop, gone)

HistoryNext ==
  \/ Move \/ Query \/ Prefetch
  \/ Next \/ Previous \/ ToFirst
  \/ \E f \in Filter : ApplyFilter(f)
  \/ \E p \in Page, n \in Late : Happens(p, n)

HistorySpec == HistoryInit /\ [][HistoryNext]_<<navVars, historyVars>>

(* A call to the providers ends (failover.ts:19); the reader need not act.   *)
FairHistorySpec == HistorySpec /\ WF_<<navVars, historyVars>>(Query)

-----------------------------------------------------------------------------
(* Properties                                                                *)

\* The list the reader asked for, and the one a cursor came from.
OfThisList(step) == step.page = Here /\ step.filter = filter

\* Of a list, what lies between two cursors.
Between(p, f, low, high) == {n \in Listed(p, f) : low <= n /\ n < high}

(* The pages a reader walks of one list follow each other: between a page's  *)
(* cursor and the next one's lie exactly the rows that the page was answered *)
(* with, full, short or empty (contract/page.tsx:562-565), or nothing (a     *)
(* second press before the answer), whatever was prefetched, cached, lost or *)
(* came in meanwhile (history-table.tsx:104-117): no row of the list is      *)
(* skipped and none repeated.  On a contract's page only while no page of    *)
(* another contract was walked in the same list: from such a page the pager  *)
(* also leads on, and back to the middle of the first list.                  *)
WalkSkipsNothing ==
  KindOf[Here] = "account" \/ ~carried =>
    \A i \in 2..Len(visited) :
      OfThisList(visited[i - 1]) /\ OfThisList(visited[i]) =>
        Between(Here, filter, visited[i].token, visited[i - 1].token)
          \in {{}, visited[i].found}

(* While the list goes on below where the page on screen ends or its search  *)
(* stopped, the pager leads on, even when the page is short or empty or rows *)
(* of it could not be fetched (history-table.tsx:70-74, queries.ts:513-533,  *)
(* contract/page.tsx:562-579).                                               *)
PagerLeadsOn ==
  View = "rows" /\ ShownKey = KeyNow =>
    ((\E n \in Listed(Here, filter) : n < Data.last) => HasMore)

(* "dropping to a skeleton would close the filter popover mid-use"           *)
(* (contract/page.tsx:521-522): a contract's list that has shown rows never  *)
(* goes back to a skeleton while it is open.                                 *)
NoSkeletonMidUse ==
  [][View = "rows" /\ KindOf[Here] = "contract" /\ mounted' /\ KindOf[Here'] = "contract"
     => View' # "skeleton"]_<<navVars, historyVars>>

(* A list that is being loaded comes to rows, to a note or to an error, also *)
(* when it was left, reopened or refiltered during a request.                *)
ListSettles == View = "skeleton" ~> View # "skeleton"

=============================================================================
