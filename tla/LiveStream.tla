----------------------------- MODULE LiveStream -----------------------------
(***************************************************************************)
(* useHorizonStream (frontend/src/lib/live.ts): the list of the newest     *)
(* ledgers on the home page.  A REST page seeds the list, an EventSource   *)
(* adds to it through a buffer that is flushed by a timer, a hidden tab    *)
(* closes the source and a visible one resumes it or seeds again, and a    *)
(* source that keeps failing is given up for polling.                      *)
(***************************************************************************)
EXTENDS Integers, Sequences, FiniteSets, SequencesExt, FiniteSetsExt

CONSTANTS
  Cap,         \* cap, also the length of a page
  MaxErrors,   \* MAX_STREAM_ERRORS
  MaxPages,    \* bound: page requests under way at one time
  First,       \* the newest ledger when the page is opened
  MaxLedger,   \* bound: the last ledger that closes
  MaxFaults,   \* bound: dropped and refused connections, failed pages, redeliveries
  MaxHides     \* bound: times the tab is hidden

ASSUME LiveStreamAssumption ==
  /\ {Cap, MaxErrors, MaxPages, First} \subseteq Nat \ {0}
  /\ MaxLedger \in Nat /\ First <= MaxLedger
  /\ {MaxFaults, MaxHides} \subseteq Nat

VARIABLES
  published,  \* the newest ledger at Horizon
  records, status,
  buffer, lastToken, errors,   \* state
  source,     \* the EventSource
  polling,    \* pollTimer is set
  pages,      \* the calls of refreshInitial: Free, Asked or the newest ledger of the answer
  screen,     \* the tab: visible, hidden, or gone when the component unmounts
  seen,       \* history: ledgers that were ever in records
  base,       \* history: the ledger the stream last started from
  streamed,   \* history: an event came since the last seed
  refused,    \* history: a connection was refused
  faults, hides

streamVars == <<buffer, lastToken, errors, source>>
listVars == <<records, seen>>
history == <<base, streamed>>
bounds == <<faults, hides>>
vars == <<published, listVars, status, streamVars, polling, pages, screen, history, refused, bounds>>

(* lastToken and cursor "now", a cursor of no ledger *)
Now == 0

Free == -1
Asked == 0

(* readyState, the cursor of the URL, lastEventId and the server's position *)
Closed == [state |-> "closed", cursor |-> Now, lastId |-> Now, pos |-> 0]

Open(cursor) == [state |-> "connecting", cursor |-> cursor, lastId |-> Now, pos |-> 0]

Ledgers == 1..MaxLedger

PageId == 1..MaxPages

TypeOK ==
  /\ published \in First..MaxLedger
  /\ records \in Seq(Ledgers) /\ Len(records) <= Cap
  /\ status \in {"connecting", "live", "paused"}
  /\ buffer \in Seq(Ledgers)
  /\ lastToken \in Ledgers \cup {Now}
  /\ errors \in 0..MaxErrors
  /\ source \in [state : {"closed", "connecting", "open"}, cursor : Ledgers \cup {Now},
                 lastId : Ledgers \cup {Now}, pos : 0..MaxLedger]
  /\ polling \in BOOLEAN /\ (polling <=> status = "paused")
  /\ pages \in [PageId -> Ledgers \cup {Free, Asked}]
  /\ screen \in {"visible", "hidden", "gone"}
  /\ seen \subseteq Ledgers
  /\ base \in 0..MaxLedger /\ streamed \in BOOLEAN /\ refused \in BOOLEAN
  /\ faults \in 0..MaxFaults /\ hides \in 0..MaxHides

(* The effect asks for a page and opens the source. *)
Init ==
  /\ published = First
  /\ records = <<>> /\ seen = {}
  /\ status = "connecting"
  /\ buffer = <<>> /\ lastToken = Now /\ errors = 0
  /\ source = Open(Now)
  /\ polling = FALSE
  /\ pages = [i \in PageId |-> IF i = 1 THEN Asked ELSE Free]
  /\ screen \in {"visible", "hidden"}
  /\ base = 0 /\ streamed = FALSE /\ refused = FALSE
  /\ faults = 0 /\ hides = 0

Fault == faults < MaxFaults /\ faults' = faults + 1

-----------------------------------------------------------------------------
(* mergeRecords, flush, refreshInitial *)

(* The entries of a list at some of its places, in their order *)
AtPlaces(list, places) ==
  [k \in 1..Cardinality(places) |->
     list[CHOOSE i \in places : Cardinality({j \in places : j < i}) = k - 1]]

Deduped(incoming) ==
  AtPlaces(incoming, {i \in DOMAIN incoming : \A j \in 1..(i - 1) : incoming[j] # incoming[i]})

Cut(list) == SubSeq(list, 1, Min({Cap, Len(list)}))

(* Mutant: what is already on the list stays where it is, too. *)
MergeRecordsUnfiltered(existing, incoming) == Cut(Deduped(incoming) \o existing)

MergeRecords(existing, incoming) ==
  LET kept == {i \in DOMAIN existing : ~Contains(incoming, existing[i])}
  IN  Cut(Deduped(incoming) \o AtPlaces(existing, kept))

Prepend(incoming) ==
  /\ records' = MergeRecords(records, incoming)
  /\ seen' = seen \cup ToSet(incoming)

Flush ==
  /\ buffer # <<>>
  /\ Prepend(Reverse(buffer))
  /\ buffer' = <<>>
  /\ UNCHANGED <<published, status, lastToken, errors, source, polling, pages, screen, history, refused, bounds>>

(* The newest ledgers up to n, newest first *)
Page(n) == [i \in 1..Min({Cap, n}) |-> n + 1 - i]

FreePages == {i \in PageId : pages[i] = Free}

(* A call of refreshInitial starts. *)
RefreshInitial ==
  /\ FreePages # {}
  /\ pages' = [pages EXCEPT ![Min(FreePages)] = Asked]

(* Horizon reads its answer. *)
ServePage(i) ==
  /\ pages[i] = Asked
  /\ pages' = [pages EXCEPT ![i] = published]
  /\ UNCHANGED <<published, listVars, status, streamVars, polling, screen, history, refused, bounds>>

ReceivePage(i) ==
  /\ pages[i] \notin {Free, Asked}
  /\ Prepend(Page(pages[i]))
  /\ pages' = [pages EXCEPT ![i] = Free]
  /\ UNCHANGED <<published, status, streamVars, polling, screen, history, refused, bounds>>

PageFails(i) ==
  /\ pages[i] # Free
  /\ Fault
  /\ pages' = [pages EXCEPT ![i] = Free]
  /\ UNCHANGED <<published, listVars, status, streamVars, polling, screen, history, refused, hides>>

-----------------------------------------------------------------------------
(* The EventSource *)

(* Where the server starts: behind lastEventId, else behind the URL's      *)
(* cursor, else behind the newest ledger.                                  *)
Position ==
  IF source.lastId # Now THEN source.lastId
  ELSE IF source.cursor # Now THEN source.cursor ELSE published

(* onopen *)
Connect ==
  /\ source.state = "connecting"
  /\ source' = [source EXCEPT !.state = "open", !.pos = Position]
  /\ errors' = 0
  /\ status' = "live"
  /\ base' = IF streamed THEN base ELSE Position
  /\ UNCHANGED <<published, listVars, buffer, lastToken, polling, pages, screen, streamed, refused, bounds>>

(* onmessage *)
OnMessage(l) ==
  /\ source' = [source EXCEPT !.lastId = l, !.pos = l]
  /\ lastToken' = l
  /\ buffer' = Append(buffer, l)
  /\ streamed' = TRUE

Receive ==
  /\ source.state = "open" /\ source.pos < published
  /\ OnMessage(source.pos + 1)
  /\ UNCHANGED <<published, listVars, status, errors, polling, pages, screen, base, refused, bounds>>

(* "A re-delivering stream may repeat keys within one batch." *)
Redeliver ==
  /\ source.state = "open" /\ source.lastId # Now
  /\ Fault
  /\ OnMessage(source.lastId)
  /\ UNCHANGED <<published, listVars, status, errors, polling, pages, screen, base, refused, hides>>

(* Mutant: the source is given up and nothing takes its place. *)
OnErrorNoPoll(next) ==
  /\ errors' = errors + 1
  /\ source' = IF errors' >= MaxErrors THEN Closed ELSE next
  /\ UNCHANGED <<status, polling>>

(* onerror *)
OnError(next) ==
  /\ errors' = errors + 1
  /\ IF errors' >= MaxErrors
       THEN source' = Closed /\ status' = "paused" /\ polling' = TRUE
       ELSE source' = next /\ UNCHANGED <<status, polling>>

(* The connection drops or cannot be made; the browser reconnects. *)
Drop ==
  /\ source.state # "closed"
  /\ Fault
  /\ OnError([source EXCEPT !.state = "connecting", !.pos = 0])
  /\ UNCHANGED <<published, listVars, buffer, lastToken, pages, screen, history, refused, hides>>

(* Horizon answers with an error status; the browser does not reconnect. *)
Refuse ==
  /\ source.state = "connecting"
  /\ Fault
  /\ OnError(Closed)
  /\ refused' = TRUE
  /\ UNCHANGED <<published, listVars, buffer, lastToken, pages, screen, history, hides>>

(* The poll timer *)
Poll ==
  /\ polling
  /\ RefreshInitial
  /\ UNCHANGED <<published, listVars, status, streamVars, polling, screen, history, refused, bounds>>

-----------------------------------------------------------------------------
(* onVisibility and the teardown *)

Hide ==
  /\ screen = "visible"
  /\ hides < MaxHides /\ hides' = hides + 1
  /\ screen' = "hidden"
  /\ source' = Closed
  /\ UNCHANGED <<published, listVars, status, buffer, lastToken, errors, polling, pages, history, faults, refused>>

(* More than STALE_GAP_MS since the last event: seed again. *)
Seed ==
  /\ RefreshInitial
  /\ source' = Open(Now)
  /\ base' = 0 /\ streamed' = FALSE

(* Mutant: the stream starts from now however short the gap was. *)
ResumeFromNow ==
  /\ lastToken # Now
  /\ source' = Open(Now)
  /\ UNCHANGED <<pages, history>>

(* Less than STALE_GAP_MS since the last event *)
Resume ==
  /\ lastToken # Now
  /\ source' = Open(lastToken)
  /\ UNCHANGED <<pages, history>>

Show ==
  /\ screen = "hidden"
  /\ screen' = "visible"
  /\ IF polling
       THEN UNCHANGED <<source, pages, history>>
       ELSE Seed \/ Resume
  /\ UNCHANGED <<published, listVars, status, buffer, lastToken, errors, polling, refused, bounds>>

(* disposed: requests are aborted, the source and the timers stopped, and  *)
(* the state goes with the component.                                      *)
Unmount ==
  /\ screen # "gone"
  /\ screen' = "gone"
  /\ source' = Closed /\ polling' = FALSE
  /\ pages' = [i \in PageId |-> Free]
  /\ records' = <<>> /\ seen' = {} /\ status' = "connecting"
  /\ buffer' = <<>> /\ lastToken' = Now /\ errors' = 0
  /\ base' = 0 /\ streamed' = FALSE
  /\ UNCHANGED <<published, refused, bounds>>

-----------------------------------------------------------------------------
(* A ledger closes. *)
CloseLedger ==
  /\ published < MaxLedger
  /\ published' = published + 1
  /\ UNCHANGED <<listVars, status, streamVars, polling, pages, screen, history, refused, bounds>>

Next ==
  \/ CloseLedger
  \/ Flush \/ Poll
  \/ \E i \in PageId : ServePage(i) \/ ReceivePage(i) \/ PageFails(i)
  \/ Connect \/ Receive \/ Redeliver \/ Drop \/ Refuse
  \/ Hide \/ Show \/ Unmount

Spec == Init /\ [][Next]_vars

(* Timers fire, requests are answered or time out, the browser reconnects  *)
(* and delivers.  Nobody has to show the tab.                              *)
Fairness ==
  /\ WF_vars(Flush) /\ WF_vars(Poll)
  /\ WF_vars(\E i \in PageId : ServePage(i) \/ ReceivePage(i))
  /\ WF_vars(Connect \/ Receive)

FairSpec == Spec /\ Fairness

-----------------------------------------------------------------------------
(* Properties *)

(* "Dropping duplicates by key" (live.ts:14) over the whole life of the    *)
(* list: pages, resumed streams and redelivered events overlap, and no     *)
(* ledger shows twice.                                                     *)
NoDuplicates == \A i, j \in 1..Len(records) : records[i] = records[j] => i = j

(* "Last-Event-ID style resumption" (live.ts:60): every ledger between the *)
(* one the stream started from and the one it goes on behind has been on   *)
(* the list or is in the buffer, through drops, reconnections and short    *)
(* hidings.                                                                *)
NothingLostInResume ==
  (streamed /\ source.state = "open") =>
    (base + 1)..source.pos \subseteq seen \cup ToSet(buffer)

Behind ==
  /\ source.state = "open" /\ streamed
  /\ published = MaxLedger /\ source.pos < MaxLedger

Caught == Contains(records, MaxLedger) \/ screen # "visible"

(* The last ledger an established stream has not delivered yet comes to    *)
(* the list of a tab that stays visible, by the stream, a reconnected one  *)
(* or a poll, while connections end and cannot be made but none is         *)
(* refused by Horizon (live.ts:104-138).                                   *)
HeadReachesUnlessRefused == Behind ~> (Caught \/ refused)

=============================================================================
