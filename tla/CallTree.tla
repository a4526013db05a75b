------------------------------ MODULE CallTree ------------------------------
(* The table the call tree of a transaction is drawn as                     *)
(* (src/frontend/src/components/call-tree.tsx, lib/token-move.ts).          *)
(* A tree holds its calls as the page's objects do, by reference: it is a   *)
(* function from addresses to [id, seq, events, calls], a call's own events *)
(* and the addresses of its sub-calls in two lists, each entry with its     *)
(* position (tx-trace.ts, TraceCall).  An event is [id, seq, shape]; its    *)
(* shape is the part a token move is read from: the name, the parties after *)
(* it and the type of the value.                                            *)
EXTENDS Selection, SequencesExt

None == "none"

-----------------------------------------------------------------------------
(* token-move.ts                                                            *)
MOVE_EVENTS == {"transfer", "mint", "burn", "clawback"}
AMOUNT_TYPES == {"i128", "u128", "i64", "u64", "i32", "u32"}

Party(shape, i) ==
    IF i \in DOMAIN shape.parties /\ shape.parties[i].kind = "address"
    THEN shape.parties[i].text
    ELSE None

MoveFrom(shape) == IF shape.name = "mint" THEN None ELSE Party(shape, 1)

MoveTo(shape) ==
    CASE shape.name = "mint" -> Party(shape, 1)
      [] shape.name = "transfer" -> Party(shape, 2)
      [] OTHER -> None

(* The asset's code: the last party, when it is a text; "native" stands for *)
(* XLM, and "CODE:ISSUER" is given here as its code.                        *)
MoveCode(shape) ==
    IF shape.parties = <<>> \/ Last(shape.parties).kind # "text" THEN None
    ELSE IF Last(shape.parties).text = "native" THEN "XLM"
    ELSE Last(shape.parties).text

(* The balance an event moved, as a sequence of none or one.               *)
TokenMove(shape) ==
    IF \/ shape.name \notin MOVE_EVENTS
       \/ shape.type \notin AMOUNT_TYPES
       \/ MoveFrom(shape) = None /\ MoveTo(shape) = None
    THEN <<>>
    ELSE <<[from |-> MoveFrom(shape), to |-> MoveTo(shape),
            code |-> MoveCode(shape)]>>

-----------------------------------------------------------------------------
(* call-tree.tsx                                                            *)

\* The events and the sub-calls of a call, one list behind the other.
InTwoLists(tree, call) ==
    [i \in DOMAIN tree[call].events |->
        [kind |-> "event", seq |-> tree[call].events[i].seq,
         it |-> tree[call].events[i]]]
    \o
    [i \in DOMAIN tree[call].calls |->
        [kind |-> "call", seq |-> tree[tree[call].calls[i]].seq,
         it |-> tree[call].calls[i]]]

\* Mutant: the frame's events are all drawn before its sub-calls.
ChildrenByKind(tree, call) == InTwoLists(tree, call)

\* A frame's events and its sub-calls, put back into the one order they had;
\* entries of the same position keep the order of the lists.
Children(tree, call) ==
    LET both == InTwoLists(tree, call)
    IN  SortedBy(both, [i \in DOMAIN both |-> both[i].seq])

Row(kind, of, depth, guides, last) ==
    [kind |-> kind, of |-> of.id, seq |-> of.seq, depth |-> depth,
     guides |-> guides, last |-> last]

\* A root occupies no column of its own.
ChildGuides(depth, guides, last) ==
    IF depth = 0 THEN <<>> ELSE Append(guides, ~last)

\* An event's row, and the row of the balance it moved below it.
EventRows(event, depth, guides, last) ==
    <<Row("event", event, depth, guides, last)>>
    \o IF TokenMove(event.shape) = <<>> THEN <<>>
       ELSE <<Row("move", event, depth + 1,
                  IF last THEN guides ELSE Append(guides, TRUE), TRUE)>>

FlattenCall(tree) ==
    LET flatten[call \in DOMAIN tree, depth \in Nat,
                guides \in Seq(BOOLEAN), last \in BOOLEAN] ==
            LET children == Children(tree, call)
                below == ChildGuides(depth, guides, last)
                rows(i) ==
                    LET final == i = Len(children)
                    IN  IF children[i].kind = "event"
                        THEN EventRows(children[i].it, depth + 1, below, final)
                        ELSE flatten[children[i].it, depth + 1, below, final]
            IN  <<Row("call", tree[call], depth, guides, last)>>
                \o FlattenSeq([i \in DOMAIN children |-> rows(i)])
    IN  flatten

Flatten(tree, roots) ==
    FlattenSeq([i \in DOMAIN roots |->
                  FlattenCall(tree)[roots[i], 0, <<>>, i = Len(roots)]])

(* A continuation leaves out the root the row above it already showed.      *)
TreeRows(tree, roots, continuation) ==
    LET rows == Flatten(tree, roots)
    IN  Picked(rows, {i \in DOMAIN rows : ~continuation \/ rows[i].depth > 0})

-----------------------------------------------------------------------------
\* What the lines of the table mean: the branch at this depth that row i is
\* on goes on below it.
Continues(rows, i, depth) ==
    \E j \in i + 1 .. Len(rows) :
        /\ rows[j].depth = depth
        /\ \A k \in i + 1 .. j : rows[k].depth >= depth

(* "for each ancestor column, whether its branch continues below this row"  *)
(* (call-tree.tsx:24-25), and an elbow ends at the last child.              *)
LinesMeetTheirRows(rows) ==
    \A i \in DOMAIN rows :
        /\ \A d \in 1 .. rows[i].depth - 1 :
             (d <= Len(rows[i].guides) /\ rows[i].guides[d])
                 <=> Continues(rows, i, d)
        /\ rows[i].depth > 0 => rows[i].last <=> ~Continues(rows, i, rows[i].depth)
=============================================================================
