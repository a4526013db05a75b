----------------------------- MODULE TraceWalk -----------------------------
(* How the explorer rebuilds the call tree of a transaction from the flat   *)
(* stream of diagnostic events the Soroban host wrote while it ran it       *)
(* (src/frontend/src/lib/tx-trace.ts, walkDiagnostics).  The host is        *)
(* external: it calls, returns, raises events, counts metrics and may trap. *)
(* The walker reads the elements in the order they were written, so each    *)
(* element is walked in the step that emits it.                             *)
EXTENDS Naturals, Sequences

CONSTANTS
    MAX_ITEMS,      \* tx-trace.ts:88, the most calls and the most events read
    MaxStream,      \* bound: elements of the stream
    MaxDepth,       \* bound: frames running at once
    CaughtTraps     \* whether a caller may survive the trap of its callee

ASSUME TraceAssumption ==
    /\ MAX_ITEMS \in Nat \ {0}
    /\ MaxStream \in Nat /\ MaxDepth \in Nat
    /\ CaughtTraps \in BOOLEAN

VARIABLES
    running,    \* host: the frames that are executing, outermost first
    returned,   \* history: the frames that returned
    caught,     \* history: a frame trapped and its caller went on
    emitted,    \* elements of the stream so far
    ended,      \* host: the transaction is over
    calls,      \* walker: calls[n] is the n-th call node it made
    events,     \* walker: events[n] is the n-th contract event it kept
    stack,      \* walker: the nodes it takes to be executing
    seq,        \* walker: the next position in the stream's order
    metrics,    \* walker: the kinds of counters of the host it kept
    truncated   \* walker: it stopped at a cap

hostVars == <<running, returned, caught, ended>>
walkVars == <<calls, events, stack, seq, metrics, truncated>>
vars == <<hostVars, emitted, walkVars>>

\* Outside every call: the list of roots, or of events no call is known for.
Top == 0

\* A frame is known by the number of the call that opened it: the host and
\* the walker count the same fn_call elements.
Frame == Nat \ {Top}

\* A counter that the page has a row for, or another one.
Counter == {"named", "unnamed"}

\* history: "opener" and "raiser" are the frames that were really executing.
Call == [parent : Nat, seq : Nat, returns : Nat, opener : Nat]
Event == [on : Nat, seq : Nat, raiser : Nat]

Innermost(frames) == IF frames = <<>> THEN Top ELSE frames[Len(frames)]

Pop(frames) == SubSeq(frames, 1, Len(frames) - 1)

TypeOK ==
    /\ running \in Seq(Frame) /\ stack \in Seq(Frame)
    /\ returned \subseteq Frame
    /\ calls \in Seq(Call) /\ events \in Seq(Event)
    /\ emitted \in Nat /\ seq \in Nat
    /\ caught \in BOOLEAN /\ ended \in BOOLEAN
    /\ metrics \in SUBSET Counter /\ truncated \in BOOLEAN

Init ==
    /\ running = <<>> /\ stack = <<>>
    /\ returned = {}
    /\ caught = FALSE /\ ended = FALSE
    /\ metrics = {} /\ truncated = FALSE
    /\ emitted = 0 /\ seq = 0
    /\ calls = <<>> /\ events = <<>>

Emits ==
    /\ ~ended /\ ~truncated
    /\ emitted < MaxStream
    /\ emitted' = emitted + 1

Truncate ==
    /\ truncated' = TRUE
    /\ UNCHANGED <<calls, events, stack, seq>>

\* Mutant: a call is not taken off the cap before it is placed on the stack.
OpenNodeOnCaller(opener) ==
    IF Len(calls) >= MAX_ITEMS
    THEN Truncate
    ELSE /\ calls' = Append(calls, [parent |-> Innermost(stack), seq |-> seq,
                                    returns |-> Top, opener |-> opener])
         /\ stack' = <<Len(calls) + 1>>
         /\ seq' = seq + 1
         /\ UNCHANGED <<events, truncated>>

(* fn_call: a node under the innermost open one, then innermost itself.     *)
OpenNode(opener) ==
    IF Len(calls) >= MAX_ITEMS
    THEN Truncate
    ELSE /\ calls' = Append(calls, [parent |-> Innermost(stack), seq |-> seq,
                                    returns |-> Top, opener |-> opener])
         /\ stack' = Append(stack, Len(calls) + 1)
         /\ seq' = seq + 1
         /\ UNCHANGED <<events, truncated>>

\* Mutant: the return value is given to the first open node.
CloseOutermost(frame) ==
    /\ IF stack = <<>>
       THEN UNCHANGED <<calls, stack>>
       ELSE /\ calls' = [calls EXCEPT ![Head(stack)].returns = frame]
            /\ stack' = Pop(stack)
    /\ UNCHANGED <<events, seq, truncated>>

(* fn_return: the innermost node is closed and takes the value, which is    *)
(* known here by the frame it came from; with no node open it is ignored.   *)
CloseNode(frame) ==
    /\ IF stack = <<>>
       THEN UNCHANGED <<calls, stack>>
       ELSE /\ calls' = [calls EXCEPT ![Innermost(stack)].returns = frame]
            /\ stack' = Pop(stack)
    /\ UNCHANGED <<events, seq, truncated>>

\* Mutant: the event is kept by the outermost node.
KeepEventOnRoot(raiser) ==
    IF Len(events) >= MAX_ITEMS
    THEN Truncate
    ELSE /\ events' = Append(events,
                             [on |-> IF stack = <<>> THEN Top ELSE Head(stack),
                              seq |-> seq, raiser |-> raiser])
         /\ seq' = seq + 1
         /\ UNCHANGED <<calls, stack, truncated>>

(* A contract event: on the innermost node, or on none.                     *)
KeepEvent(raiser) ==
    IF Len(events) >= MAX_ITEMS
    THEN Truncate
    ELSE /\ events' = Append(events, [on |-> Innermost(stack), seq |-> seq,
                                      raiser |-> raiser])
         /\ seq' = seq + 1
         /\ UNCHANGED <<calls, stack, truncated>>

-----------------------------------------------------------------------------
(* The host calls a contract: the transaction's own call, or one made by    *)
(* the contract that is executing.  A transaction has one of its own.       *)
HostCalls ==
    /\ Emits
    /\ running = <<>> => calls = <<>>
    /\ Len(running) < MaxDepth
    /\ running' = Append(running, Len(calls) + 1)
    /\ OpenNode(Innermost(running))
    /\ UNCHANGED <<returned, caught, ended, metrics>>

HostReturns ==
    /\ Emits
    /\ running # <<>>
    /\ returned' = returned \cup {Innermost(running)}
    /\ running' = Pop(running)
    /\ CloseNode(Innermost(running))
    /\ UNCHANGED <<caught, ended, metrics>>

(* A contract raises an event while it runs; the host itself may raise one  *)
(* outside every call (the fee events).                                     *)
HostRaises ==
    /\ Emits
    /\ KeepEvent(Innermost(running))
    /\ UNCHANGED <<hostVars, metrics>>

(* A counter of the host (core_metrics) is kept; any other element, and a   *)
(* counter without a name or a plain value, is passed over.                 *)
HostCounts ==
    /\ Emits
    /\ metrics' \in {metrics} \cup {metrics \cup {c} : c \in Counter}
    /\ UNCHANGED <<hostVars, calls, events, stack, seq, truncated>>

(* The executing contract traps and its caller goes on.  A call that did    *)
(* not return leaves no fn_return behind.                                   *)
HostCatches ==
    /\ CaughtTraps
    /\ ~ended /\ ~truncated
    /\ Len(running) > 1
    /\ running' = Pop(running)
    /\ caught' = TRUE
    /\ UNCHANGED <<returned, emitted, ended, walkVars>>

(* The transaction is over: its call returned, or it trapped.               *)
HostEnds ==
    /\ ~ended
    /\ ended' = TRUE
    /\ running' = <<>>
    /\ UNCHANGED <<returned, caught, emitted, walkVars>>

Next ==
    \/ HostCalls
    \/ HostReturns
    \/ HostRaises
    \/ HostCounts
    \/ HostCatches
    \/ HostEnds

Spec == Init /\ [][Next]_vars

-----------------------------------------------------------------------------
(* Unless a trap was caught, an event is shown on the call that raised it,  *)
(* and a call under the call that made it ("a contract event lands on the   *)
(* frame that was executing when it fired", tx-trace.ts:184-185).           *)
LandsOnItsFrame ==
    ~caught => /\ \A n \in DOMAIN events : events[n].on = events[n].raiser
               /\ \A n \in DOMAIN calls : calls[n].parent = calls[n].opener

(* Unless a trap was caught, the value shown for a call is the one that     *)
(* call returned, and a value is shown for every call that returned.        *)
ReturnsItsOwn ==
    ~caught => \A n \in DOMAIN calls :
                 calls[n].returns = IF n \in returned THEN n ELSE Top

\* A call and every call it was made in, in the tree as it is drawn: what is
\* in every set that holds the call and, with each call, the one it is under.
CallsAround(n) ==
    {m \in 0 .. Len(calls) :
        \A tree \in SUBSET (0 .. Len(calls)) :
            n \in tree /\ (\A k \in tree \ {Top} : calls[k].parent \in tree)
              => m \in tree}

(* Caught traps or not, what a call raised or called is drawn inside it: a  *)
(* call nobody closed can only push things further in, never out to a       *)
(* caller or to a sibling.                                                  *)
LandsInsideItsFrame ==
    /\ \A n \in DOMAIN events : events[n].raiser \in CallsAround(events[n].on)
    /\ \A n \in DOMAIN calls : calls[n].opener \in CallsAround(n)
=============================================================================
