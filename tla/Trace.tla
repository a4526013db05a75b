------------------------------- MODULE Trace -------------------------------
(* The execution trace of a transaction, from the walk of its diagnostic    *)
(* stream to the table on its page: decodeTrace of                          *)
(* src/frontend/src/lib/tx-trace.ts over TraceWalk, TraceMeta and CallTree. *)
(* The stream is walked, then the rest of the meta is read; a transaction   *)
(* whose meta shows no call is described by what its envelope authorizes.   *)
EXTENDS TraceMeta, CallTree

CONSTANT
    EventShapes     \* the shapes of its events, in the order they are raised

VARIABLES
    tx,         \* the transaction that is read
    decoded,    \* it was decoded
    trace       \* its trace; NothingFound is shown as none

traceVars == <<vars, tx, decoded, trace>>

(* A transaction: whether its meta is at hand and readable, and if so       *)
(* whether the provider kept the stream, the events the ledger itself keeps *)
(* (counted), the changes, whether there are fees and whether the browser   *)
(* has a digest; and its envelope.                                          *)
TransactionFields ==
    {"meta", "diagnostics", "flat", "changes", "fees", "digest", "envelope"}

ASSUME ShapesAssumption == Len(EventShapes) >= MAX_ITEMS

-----------------------------------------------------------------------------
(* The walker's nodes, as the tree of calls it returns.                     *)
EventNode(n) ==
    [id |-> n, seq |-> events[n].seq, shape |-> EventShapes[n]]

OnNode(n) == Ascending({i \in DOMAIN events : events[i].on = n})

UnderNode(n) == Ascending({i \in DOMAIN calls : calls[i].parent = n})

CallNode(n) ==
    [id |-> n, seq |-> calls[n].seq,
     events |-> [i \in DOMAIN OnNode(n) |-> EventNode(OnNode(n)[i])],
     calls |-> UnderNode(n)]

CallTreeOf(source) ==
    IF source = "auth" THEN AuthTree(tx.envelope)
    ELSE [n \in DOMAIN calls |-> CallNode(n)]

\* The number beside the trace tab.
CountTraceCalls(tree, roots) ==
    LET count[call \in DOMAIN tree] ==
            FoldLeft(LAMBDA total, sub : total + count[sub], 1, tree[call].calls)
    IN  FoldLeft(LAMBDA total, root : total + count[root], 0, roots)

(* Without diagnostics the consensus meta still lists the events.           *)
FlatEvents(t) ==
    [i \in 1 .. (IF t.flat < MAX_ITEMS THEN t.flat ELSE MAX_ITEMS) |-> i]

NothingFound ==
    [source |-> "diagnostics", calls |-> <<>>, events |-> <<>>,
     state |-> <<>>, ttls |-> <<>>, metrics |-> {}, fees |-> FALSE,
     truncated |-> FALSE]

\* What the meta yields; one that is absent, unreadable or of a classic
\* transaction yields nothing.
FromMeta ==
    IF tx.meta # "soroban" THEN NothingFound
    ELSE LET rest == ResolveTtlOwners(WalkChanges(tx.changes), tx.digest)
         IN  [NothingFound EXCEPT
                !.calls = UnderNode(Top),
                !.events = IF UnderNode(Top) = <<>> /\ OnNode(Top) = <<>>
                           THEN FlatEvents(tx) ELSE OnNode(Top),
                !.state = rest.state,
                !.ttls = rest.ttls,
                !.metrics = metrics,
                !.fees = tx.fees,
                !.truncated = truncated]

\* The envelope is asked when the meta showed no call.
FromEnvelope(found) ==
    IF found.calls = <<>> /\ WalkEnvelope(tx.envelope) # <<>>
    THEN [found EXCEPT !.calls = WalkEnvelope(tx.envelope), !.source = "auth"]
    ELSE found

DecodeTrace == FromEnvelope(FromMeta)

-----------------------------------------------------------------------------
TraceInit(transaction) ==
    /\ Init
    /\ DOMAIN transaction = TransactionFields
    /\ tx = transaction
    /\ decoded = FALSE
    /\ trace = NothingFound

\* The host ran and left a stream; its walk is one element behind it.
WalkTheStream ==
    /\ ~decoded
    /\ tx.meta = "soroban" /\ tx.diagnostics
    /\ Next
    /\ UNCHANGED <<tx, decoded, trace>>

Decode ==
    /\ ~decoded
    /\ tx.meta = "soroban" /\ tx.diagnostics => ended \/ truncated
    /\ decoded' = TRUE
    /\ trace' = DecodeTrace
    /\ UNCHANGED <<vars, tx>>

TraceNext == WalkTheStream \/ Decode

-----------------------------------------------------------------------------
Decoded == decoded /\ trace # NothingFound

Executed == Decoded /\ trace.source = "diagnostics"

Tree == CallTreeOf(trace.source)

(* The rows of an executed tree, moves apart, are every call and every      *)
(* event inside one, once, in the order they happened, whichever list of    *)
(* its frame each was kept in, and a balance that moved is told right under *)
(* its own event.                                                           *)
InOrder(rows) ==
    LET main == {i \in DOMAIN rows : rows[i].kind # "move"}
    IN  /\ \A i, j \in main : i < j => rows[i].seq < rows[j].seq
        /\ Cardinality(main) = Len(calls) + Len(events) - Len(OnNode(Top))
        /\ \A i \in DOMAIN rows : rows[i].kind = "move" =>
             /\ rows[i - 1].kind = "event"
             /\ rows[i - 1].of = rows[i].of
             /\ rows[i].depth = rows[i - 1].depth + 1

\* One signer repeats the call itself, and another authorizes a call apart.
MixedAuth ==
    /\ \E i \in DOMAIN tx.envelope.auth : tx.envelope.auth[i].fn = tx.envelope.root
    /\ \E i \in DOMAIN tx.envelope.auth : tx.envelope.auth[i].fn # tx.envelope.root

AuthRows ==
    LET rows == TreeRows(Tree, trace.calls, TRUE)
    IN  [i \in DOMAIN rows |-> rows[i].of]

(* A tree taken from the authorizations shows every call they list, once    *)
(* each; and, unless some repeat the call and some do not, in the order     *)
(* they are listed in (tx-trace.ts:482-483).                                *)
AuthDrawnAsListed ==
    /\ Len(AuthRows) = Len(ListedUnder(tx.envelope))
    /\ ToSet(AuthRows) = ToSet(ListedUnder(tx.envelope))
    /\ ~MixedAuth => AuthRows = ListedUnder(tx.envelope)

(* What the row of a history says of a call below its line.                 *)
RowSays ==
    LET deeper == \E i \in DOMAIN trace.calls :
                    \/ Tree[trace.calls[i]].calls # <<>>
                    \/ Tree[trace.calls[i]].events # <<>>
    IN  IF trace = NothingFound THEN "no trace"
        ELSE IF deeper \/ trace.state # <<>> \/ trace.ttls # <<>> THEN "tree"
        ELSE "nothing more"

(* The parts the trace tab of a transaction shows.                          *)
Part(name, shown) == IF shown THEN {name} ELSE {}

(* Of the counters only those with a row, the number of events among them;   *)
(* the others stand beside one of these or nowhere.                         *)
ResourcesSection ==
    Part("resources", "named" \in trace.metrics \/ trace.fees)

TraceStorageChanges ==
    Part("changes", trace.state # <<>>) \cup Part("lifetimes", trace.ttls # <<>>)

TracePanel ==
    IF trace = NothingFound THEN {}
    ELSE Part("note", trace.source = "auth" /\ trace.calls # <<>>)
         \cup Part("cut", trace.truncated)
         \cup Part("tree", trace.calls # <<>>)
         \cup Part("events", trace.events # <<>>)
         \cup TraceStorageChanges \cup ResourcesSection

(* A row says that a call did nothing more ("truly nothing this call did",  *)
(* history-table.tsx:290-293) only of a transaction that is known to have   *)
(* written nothing, and, when the stream showed the call, of one in which   *)
(* no contract called another or raised an event.  Of a call that the       *)
(* stream did not show it says so all the same: the events of the consensus *)
(* meta stand beside the tree, where the row does not look, and without the *)
(* meta nothing is known of what it wrote.                                  *)
NothingMoreIsTrue ==
    Decoded /\ ~truncated /\ RowSays = "nothing more" =>
        /\ tx.meta = "soroban" => /\ WalkChanges(tx.changes).state = <<>>
                                  /\ TouchedTtls(tx.changes) = {}
        /\ calls # <<>> => /\ \A i \in DOMAIN calls : calls[i].opener = Top
                           /\ \A i \in DOMAIN events : events[i].raiser = Top

(* No trace that was found leaves its tab blank, but for one of which only  *)
(* counters were found that the page has no row for.                        *)
NoBlankTab ==
    Decoded /\ TracePanel = {} =>
        trace = [NothingFound EXCEPT !.metrics = {"unnamed"}]

(* An executed tree is drawn as it ran (call-tree.tsx:81-166), and its tab  *)
(* counts every call.  The connector lines of every tree, executed or       *)
(* authorized, whole or picked up below a row that showed its root, join    *)
(* the rows they belong to: a line runs on exactly where its branch does    *)
(* (call-tree.tsx:178-193).  What a row says in the place of a tree is true *)
(* (NothingMoreIsTrue), and the tab has something to show (NoBlankTab).     *)
DrawnAsItRan ==
    /\ Executed => /\ InOrder(TreeRows(Tree, trace.calls, FALSE))
                   /\ CountTraceCalls(Tree, trace.calls) = Len(calls)
    /\ NothingMoreIsTrue /\ NoBlankTab
    /\ Decoded => \A continuation \in BOOLEAN :
                    LinesMeetTheirRows(TreeRows(Tree, trace.calls, continuation))
    /\ Decoded /\ trace.source = "auth" => AuthDrawnAsListed

(* Each key whose lifetime the transaction wrote or read is listed once,    *)
(* until when the written value says if one was written, and is named after *)
(* a key the same meta touched.  (At the cap of the list a written value no *)
(* longer replaces its pre-image.)                                          *)
LifetimesAreRight ==
    Decoded /\ tx.meta = "soroban" /\ Cardinality(TouchedTtls(tx.changes)) < MAX_ITEMS
    => /\ Len(trace.ttls) = Cardinality(TouchedTtls(tx.changes))
       /\ \A i \in DOMAIN trace.ttls :
            LET row == trace.ttls[i]
                owners == {j \in DOMAIN tx.changes :
                              /\ tx.changes[j].type \in {"data", "code"}
                              /\ tx.changes[j].key = row.key}
            IN  /\ row.key \in TouchedTtls(tx.changes)
                /\ row.until = LifetimeOf(tx.changes, row.key)
                /\ row.owner \in {row.key, Unnamed}
                /\ row.owner = row.key => tx.digest /\ owners # {}
=============================================================================
