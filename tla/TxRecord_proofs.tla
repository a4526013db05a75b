--------------------------- MODULE TxRecord_proofs ---------------------------
(* Proofs about the page of a transaction: for every cap, every stream and  *)
(* every nesting, that events, calls and return values are kept where they  *)
(* belong; for every transaction Horizon can hold, that its operations are  *)
(* told right, its signatures hinted right and its lifetimes listed right.  *)
EXTENDS TxRecord, SequenceTheorems, FiniteSetTheorems, WellFoundedInduction, TLAPS

\* The frames the walker has open, and the calls it made, are the host's own
\* for as long as it reads and no trap was caught.
InStep ==
    ~caught /\ ~ended /\ ~truncated => stack = running

\* A frame that runs was called, and has not returned; one that returned was
\* called.  Numbers are given in the order of the calls, so they increase
\* inwards.
FramesWereCalled ==
    /\ returned \subseteq 1 .. Len(calls)
    /\ ~truncated =>
         /\ \A i \in 1 .. Len(running) : /\ running[i] \in 1 .. Len(calls)
                                         /\ running[i] \notin returned
         /\ \A i, j \in 1 .. Len(running) : i < j => running[i] < running[j]
    /\ \A i \in 1 .. Len(stack) : stack[i] \in 1 .. Len(calls)

TraceInv ==
    /\ TypeOK
    /\ InStep
    /\ FramesWereCalled
    /\ LandsOnItsFrame
    /\ ReturnsItsOwn

LEMMA PopFacts ==
    ASSUME NEW s \in Seq(Nat \ {Top}), s # <<>>
    PROVE  /\ Len(s) \in Nat \ {0}
           /\ Pop(s) \in Seq(Nat \ {Top})
           /\ Len(Pop(s)) = Len(s) - 1
           /\ \A i \in 1 .. Len(s) - 1 : Pop(s)[i] = s[i]
           /\ Innermost(s) = s[Len(s)]
           /\ Innermost(s) \in Nat \ {Top}
  <1>1. Len(s) \in Nat \ {0}
    OBVIOUS
  <1>2. Innermost(s) = s[Len(s)] /\ s[Len(s)] \in Nat \ {Top}
    BY <1>1 DEF Innermost
  <1>3. /\ SubSeq(s, 1, Len(s) - 1) \in Seq(Nat \ {Top})
        /\ Len(SubSeq(s, 1, Len(s) - 1)) = Len(s) - 1
        /\ \A i \in 1 .. Len(s) - 1 : SubSeq(s, 1, Len(s) - 1)[i] = s[i]
    <2>1. \A i \in 1 .. Len(s) - 1 : s[i] \in Nat \ {Top}
      BY <1>1
    <2> DEFINE n == Len(s) - 1
    <2>2. n \in Nat
      BY <1>1
    <2> HIDE DEF n
    <2>3. \A i \in 1 .. n : s[i] \in Nat \ {Top}
      BY <2>1 DEF n
    <2>4. /\ SubSeq(s, 1, n) \in Seq(Nat \ {Top})
          /\ Len(SubSeq(s, 1, n)) = IF 1 <= n THEN n - 1 + 1 ELSE 0
          /\ \A i \in 1 .. n - 1 + 1 : SubSeq(s, 1, n)[i] = s[1 + i - 1]
      BY <2>2, <2>3, SubSeqProperties
    <2>5. /\ Len(SubSeq(s, 1, n)) = n
          /\ \A i \in 1 .. n : SubSeq(s, 1, n)[i] = s[i]
      BY <2>2, <2>4
    <2> QED BY <2>4, <2>5 DEF n
  <1> QED BY <1>1, <1>2, <1>3 DEF Pop

LEMMA AppendFacts ==
    ASSUME NEW S, NEW s \in Seq(S), NEW e \in S
    PROVE  /\ Append(s, e) \in Seq(S)
           /\ Len(Append(s, e)) = Len(s) + 1
           /\ \A i \in 1 .. Len(s) : Append(s, e)[i] = s[i]
           /\ Append(s, e)[Len(s) + 1] = e
  OBVIOUS

LEMMA InnermostInNat ==
    ASSUME NEW s \in Seq(Nat \ {Top})
    PROVE  Innermost(s) \in Nat
  <1>1. CASE s = <<>>
    BY <1>1 DEF Innermost, Top
  <1>2. CASE s # <<>>
    BY <1>2, PopFacts
  <1> QED BY <1>1, <1>2

LEMMA InitTraceInv == Init => TraceInv
  <1> SUFFICES ASSUME Init PROVE TraceInv
    OBVIOUS
  <1>1. TypeOK
    <2>1. \A S : <<>> \in Seq(S)
      OBVIOUS
    <2>2. /\ running \in Seq(Frame) /\ stack \in Seq(Frame)
          /\ calls \in Seq(Call) /\ events \in Seq(Event)
      BY <2>1 DEF Init
    <2>3. /\ returned \subseteq Frame
          /\ emitted \in Nat /\ seq \in Nat
      BY DEF Init
    <2>4. /\ caught \in BOOLEAN /\ ended \in BOOLEAN
          /\ metrics \in SUBSET Counter /\ truncated \in BOOLEAN
      BY DEF Init
    <2> QED BY <2>2, <2>3, <2>4 DEF TypeOK
  <1>2. InStep /\ FramesWereCalled
    BY DEF Init, InStep, FramesWereCalled
  <1>3. LandsOnItsFrame /\ ReturnsItsOwn
    BY DEF Init, LandsOnItsFrame, ReturnsItsOwn
  <1> QED BY <1>1, <1>2, <1>3 DEF TraceInv

\* A fn_call keeps the invariant: the new node is the new frame, and its
\* caller is the innermost open node.
LEMMA HostCallsKeeps == TraceInv /\ HostCalls => TraceInv'
  <1> SUFFICES ASSUME TraceInv, HostCalls PROVE TraceInv'
    OBVIOUS
  <1> USE DEF TraceInv
  <1>0. TypeOK /\ running \in Seq(Nat \ {Top}) /\ stack \in Seq(Nat \ {Top})
    BY DEF TypeOK, Frame
  <1>1. Innermost(running) \in Nat /\ Innermost(stack) \in Nat
    BY <1>0, InnermostInNat
  <1>2. Len(calls) + 1 \in Frame /\ Len(calls) \in Nat
    BY <1>0 DEF TypeOK, Frame, Top
  <1>3. running' \in Seq(Frame) /\ emitted' \in Nat
    BY <1>0, <1>2, AppendFacts DEF TypeOK, HostCalls, Emits
  <1>6. metrics' = metrics
    BY DEF HostCalls
  <1>4. CASE Len(calls) >= MAX_ITEMS
    <2>1. truncated' /\ UNCHANGED <<calls, events, stack, seq, returned, caught,
                                    ended>>
      BY <1>4 DEF HostCalls, OpenNode, Truncate
    <2>2. TypeOK'
      BY <1>0, <1>3, <1>6, <2>1 DEF TypeOK
    <2> QED
      BY <2>1, <2>2
         DEF InStep, FramesWereCalled, LandsOnItsFrame, ReturnsItsOwn
  <1>5. CASE ~(Len(calls) >= MAX_ITEMS)
    <2> DEFINE node == [parent |-> Innermost(stack), seq |-> seq,
                        returns |-> Top, opener |-> Innermost(running)]
    <2>1. /\ calls' = Append(calls, node)
          /\ stack' = Append(stack, Len(calls) + 1)
          /\ running' = Append(running, Len(calls) + 1)
          /\ seq' = seq + 1
          /\ UNCHANGED <<events, truncated, returned, caught, ended>>
          /\ ~truncated /\ ~ended
      BY <1>5 DEF HostCalls, OpenNode, Emits
    <2>2. node \in Call
      BY <1>0, <1>1 DEF Call, TypeOK, Top
    <2>3. /\ calls' \in Seq(Call) /\ Len(calls') = Len(calls) + 1
          /\ \A i \in 1 .. Len(calls) : calls'[i] = calls[i]
          /\ calls'[Len(calls) + 1] = node
      BY <1>0, <2>1, <2>2, AppendFacts DEF TypeOK
    <2>4. stack' \in Seq(Frame)
      BY <1>0, <1>2, <2>1, AppendFacts DEF TypeOK
    <2>5. TypeOK'
      BY <1>0, <1>3, <1>6, <2>1, <2>3, <2>4 DEF TypeOK
    <2>6. InStep'
      BY <2>1 DEF InStep
    <2>7. FramesWereCalled'
      <3>1. returned' \subseteq 1 .. Len(calls')
        BY <1>2, <2>1, <2>3 DEF FramesWereCalled
      <3>2. /\ Len(running') = Len(running) + 1
            /\ \A i \in 1 .. Len(running) : running'[i] = running[i]
            /\ running'[Len(running) + 1] = Len(calls) + 1
            /\ Len(running) \in Nat
        BY <1>0, <1>2, <2>1, AppendFacts DEF Frame
      <3>3. /\ Len(stack') = Len(stack) + 1
            /\ \A i \in 1 .. Len(stack) : stack'[i] = stack[i]
            /\ stack'[Len(stack) + 1] = Len(calls) + 1
            /\ Len(stack) \in Nat
        BY <1>0, <1>2, <2>1, AppendFacts DEF Frame
      <3>4. \A i \in 1 .. Len(running') : /\ running'[i] \in 1 .. Len(calls')
                                          /\ running'[i] \notin returned'
        BY <1>2, <2>1, <2>3, <3>2 DEF FramesWereCalled
      <3>5. \A i, j \in 1 .. Len(running') : i < j => running'[i] < running'[j]
        <4> SUFFICES ASSUME NEW i \in 1 .. Len(running'),
                            NEW j \in 1 .. Len(running'), i < j
                     PROVE  running'[i] < running'[j]
          OBVIOUS
        <4>1. i \in 1 .. Len(running) /\ running'[i] = running[i]
          BY <3>2
        <4>2. running[i] \in 1 .. Len(calls)
          BY <2>1, <4>1 DEF FramesWereCalled
        <4>3. CASE j = Len(running) + 1
          BY <1>2, <3>2, <4>1, <4>2, <4>3
        <4>4. CASE j # Len(running) + 1
          <5>1. j \in 1 .. Len(running) /\ running'[j] = running[j]
            BY <3>2, <4>4
          <5> QED BY <2>1, <4>1, <5>1 DEF FramesWereCalled
        <4> QED BY <4>3, <4>4
      <3>6. \A i \in 1 .. Len(stack') : stack'[i] \in 1 .. Len(calls')
        BY <1>2, <2>3, <3>3, SMTT(30) DEF FramesWereCalled
      <3> QED BY <3>1, <3>4, <3>5, <3>6 DEF FramesWereCalled
    <2>8. LandsOnItsFrame'
      BY <1>0, <1>2, <2>1, <2>3 DEF LandsOnItsFrame, InStep, TypeOK
    <2>9. ReturnsItsOwn'
      <3>1. Len(calls) + 1 \notin returned
        BY <1>2 DEF FramesWereCalled
      <3> QED BY <1>0, <1>2, <2>1, <2>3, <3>1 DEF ReturnsItsOwn, TypeOK
    <2> QED BY <2>5, <2>6, <2>7, <2>8, <2>9
  <1> QED BY <1>4, <1>5

\* A fn_return keeps it: the frame that returns is the innermost open node.
LEMMA HostReturnsKeeps == TraceInv /\ HostReturns => TraceInv'
  <1> SUFFICES ASSUME TraceInv, HostReturns PROVE TraceInv'
    OBVIOUS
  <1> USE DEF TraceInv
  <1> DEFINE frame == Innermost(running)
  <1>0. TypeOK /\ running \in Seq(Nat \ {Top}) /\ stack \in Seq(Nat \ {Top})
    BY DEF TypeOK, Frame
  <1>1. /\ running # <<>> /\ ~ended /\ ~truncated
        /\ returned' = returned \cup {frame}
        /\ running' = Pop(running)
        /\ UNCHANGED <<caught, ended, events, seq, metrics, truncated>>
        /\ emitted' \in Nat
    BY <1>0 DEF HostReturns, CloseNode, Emits, TypeOK
  <1>2. /\ Len(running) \in Nat \ {0}
        /\ running' \in Seq(Nat \ {Top})
        /\ Len(running') = Len(running) - 1
        /\ \A i \in 1 .. Len(running) - 1 : running'[i] = running[i]
        /\ frame = running[Len(running)]
        /\ frame \in Nat \ {Top}
    BY <1>0, <1>1, PopFacts
  <1>3. frame \in 1 .. Len(calls) /\ frame \notin returned
    BY <1>1, <1>2 DEF FramesWereCalled
  <1>4. Len(calls) \in Nat
    BY <1>0 DEF TypeOK
  <1>7. /\ \A i \in 1 .. Len(running') :
             /\ i \in 1 .. Len(running)
             /\ running'[i] = running[i]
             /\ running[i] < frame
        /\ \A i, j \in 1 .. Len(running') : i < j => running'[i] < running'[j]
    <2>1. \A i \in 1 .. Len(running') : /\ i \in 1 .. Len(running)
                                        /\ i < Len(running)
                                        /\ running'[i] = running[i]
      BY <1>2
    <2>2. Len(running) \in 1 .. Len(running)
      BY <1>2
    <2>3. \A i, j \in 1 .. Len(running) : i < j => running[i] < running[j]
      BY <1>1 DEF FramesWereCalled
    <2>4. \A i \in 1 .. Len(running') : running[i] < frame
      BY <1>2, <2>1, <2>2, <2>3
    <2> QED BY <2>1, <2>3, <2>4
  <1>8. \A i \in 1 .. Len(running') : /\ running'[i] \in 1 .. Len(calls)
                                      /\ running'[i] \notin returned'
    <2> SUFFICES ASSUME NEW i \in 1 .. Len(running')
                 PROVE  /\ running'[i] \in 1 .. Len(calls)
                        /\ running'[i] \notin returned'
      OBVIOUS
    <2>1. running[i] \in 1 .. Len(calls) /\ running[i] \notin returned
      BY <1>1, <1>7 DEF FramesWereCalled
    <2>2. running[i] # frame
      BY <1>2, <1>4, <1>7, <2>1
    <2> QED BY <1>1, <1>7, <2>1, <2>2
  <1>5. CASE stack = <<>>
    <2>1. calls' = calls /\ stack' = stack
      BY <1>5 DEF HostReturns, CloseNode
    <2>2. caught
      BY <1>1, <1>5 DEF InStep
    <2>3. TypeOK'
      BY <1>0, <1>1, <1>2, <2>1 DEF TypeOK, Frame
    <2>4. FramesWereCalled'
      BY <1>1, <1>3, <1>7, <1>8, <2>1 DEF FramesWereCalled
    <2> QED
      BY <1>1, <2>1, <2>2, <2>3, <2>4 DEF InStep, LandsOnItsFrame, ReturnsItsOwn
  <1>6. CASE stack # <<>>
    <2> DEFINE inner == Innermost(stack)
    <2>1. /\ calls' = [calls EXCEPT ![inner].returns = frame]
          /\ stack' = Pop(stack)
      BY <1>6 DEF HostReturns, CloseNode
    <2>2. /\ Len(stack) \in Nat \ {0}
          /\ stack' \in Seq(Nat \ {Top})
          /\ Len(stack') = Len(stack) - 1
          /\ \A i \in 1 .. Len(stack) - 1 : stack'[i] = stack[i]
          /\ inner = stack[Len(stack)]
      BY <1>0, <1>6, <2>1, PopFacts
    <2>3. inner \in 1 .. Len(calls)
      BY <2>2 DEF FramesWereCalled
    <2>4. /\ calls' \in Seq(Call) /\ Len(calls') = Len(calls)
          /\ \A n \in 1 .. Len(calls) :
               /\ calls'[n].returns = IF n = inner THEN frame
                                      ELSE calls[n].returns
               /\ calls'[n].parent = calls[n].parent
               /\ calls'[n].opener = calls[n].opener
      <3>1. calls \in Seq(Call) /\ DOMAIN calls = 1 .. Len(calls)
        BY <1>0 DEF TypeOK
      <3>2. \A n \in 1 .. Len(calls) :
              /\ calls[n] \in Call
              /\ calls'[n] = IF n = inner
                             THEN [calls[n] EXCEPT !.returns = frame]
                             ELSE calls[n]
        BY <2>1, <3>1
      <3>3. \A c \in Call : /\ [c EXCEPT !.returns = frame] \in Call
                            /\ [c EXCEPT !.returns = frame].returns = frame
                            /\ [c EXCEPT !.returns = frame].parent = c.parent
                            /\ [c EXCEPT !.returns = frame].opener = c.opener
        BY <1>2 DEF Call
      <3>4. \A n \in 1 .. Len(calls) : calls'[n] \in Call
        BY <3>2, <3>3
      <3>5. calls' \in Seq(Call) /\ Len(calls') = Len(calls)
        BY <1>4, <2>1, <2>3, <3>1, <3>4
      <3> QED BY <3>2, <3>3, <3>5
    <2>5. TypeOK'
      BY <1>0, <1>1, <1>2, <2>2, <2>4 DEF TypeOK, Frame
    <2>6. InStep'
      BY <1>1, <2>1 DEF InStep
    <2>7. FramesWereCalled'
      <3>1. returned' \subseteq 1 .. Len(calls')
        BY <1>1, <1>3, <2>4 DEF FramesWereCalled
      <3>2. \A i \in 1 .. Len(running') : /\ running'[i] \in 1 .. Len(calls')
                                          /\ running'[i] \notin returned'
        BY <1>8, <2>4
      <3>3. \A i, j \in 1 .. Len(running') : i < j => running'[i] < running'[j]
        BY <1>7
      <3>4. \A i \in 1 .. Len(stack') : stack'[i] \in 1 .. Len(calls')
        <4>1. \A i \in 1 .. Len(stack) : stack[i] \in 1 .. Len(calls)
          BY DEF FramesWereCalled
        <4>2. SUFFICES ASSUME NEW i \in 1 .. Len(stack')
                       PROVE  stack'[i] \in 1 .. Len(calls')
          OBVIOUS
        <4>3. i \in 1 .. Len(stack) - 1 /\ i \in 1 .. Len(stack)
          BY <2>2, <4>2
        <4>4. stack'[i] = stack[i]
          BY <2>2, <4>3
        <4>5. Len(calls') = Len(calls)
          BY <2>4
        <4> QED BY <4>1, <4>3, <4>4, <4>5
      <3> QED BY <3>1, <3>2, <3>3, <3>4 DEF FramesWereCalled
    <2> DEFINE Shown == DOMAIN calls
    <2>10. Shown = 1 .. Len(calls) /\ DOMAIN calls' = Shown
      BY <1>0, <2>4 DEF TypeOK
    <2>8. LandsOnItsFrame'
      BY <1>1, <2>4, <2>10 DEF LandsOnItsFrame
    <2>9. ReturnsItsOwn'
      <3>1. ~caught => inner = frame
        BY <1>1 DEF InStep
      <3> QED
        BY <1>1, <1>3, <2>4, <2>10, <3>1 DEF ReturnsItsOwn
    <2> QED BY <2>5, <2>6, <2>7, <2>8, <2>9
  <1> QED BY <1>5, <1>6

\* An event keeps it: it is placed on the frame that is executing.
LEMMA HostRaisesKeeps == TraceInv /\ HostRaises => TraceInv'
  <1> SUFFICES ASSUME TraceInv, HostRaises PROVE TraceInv'
    OBVIOUS
  <1> USE DEF TraceInv
  <1>0. TypeOK /\ running \in Seq(Nat \ {Top}) /\ stack \in Seq(Nat \ {Top})
    BY DEF TypeOK, Frame
  <1>1. Innermost(running) \in Nat /\ Innermost(stack) \in Nat
    BY <1>0, InnermostInNat
  <1>2. /\ UNCHANGED <<running, returned, caught, ended, calls, stack, metrics>>
        /\ ~ended /\ ~truncated /\ emitted' \in Nat
    BY <1>0 DEF HostRaises, KeepEvent, Truncate, Emits, hostVars, TypeOK
  <1>3. CASE Len(events) >= MAX_ITEMS
    <2>1. truncated' /\ UNCHANGED <<events, seq>>
      BY <1>3 DEF HostRaises, KeepEvent, Truncate
    <2> QED
      BY <1>0, <1>2, <2>1
         DEF TypeOK, InStep, FramesWereCalled, LandsOnItsFrame, ReturnsItsOwn
  <1>4. CASE ~(Len(events) >= MAX_ITEMS)
    <2> DEFINE event == [on |-> Innermost(stack), seq |-> seq,
                         raiser |-> Innermost(running)]
    <2>1. events' = Append(events, event) /\ seq' = seq + 1
          /\ UNCHANGED truncated
      BY <1>4 DEF HostRaises, KeepEvent
    <2>2. event \in Event
      BY <1>0, <1>1 DEF Event, TypeOK
    <2>3. /\ events' \in Seq(Event) /\ Len(events') = Len(events) + 1
          /\ \A i \in 1 .. Len(events) : events'[i] = events[i]
          /\ events'[Len(events) + 1] = event
      BY <1>0, <2>1, <2>2, AppendFacts DEF TypeOK
    <2>4. TypeOK'
      BY <1>0, <1>2, <2>1, <2>3 DEF TypeOK
    <2>5. LandsOnItsFrame'
      BY <1>0, <1>2, <2>1, <2>3 DEF LandsOnItsFrame, InStep, TypeOK
    <2> QED
      BY <1>2, <2>1, <2>4, <2>5 DEF InStep, FramesWereCalled, ReturnsItsOwn
  <1> QED BY <1>3, <1>4

\* An element the walker skips, a caught trap and the end of the transaction
\* leave the tree as it is.
LEMMA OtherStepsKeep ==
    TraceInv /\ (HostCounts \/ HostCatches \/ HostEnds \/ UNCHANGED vars)
      => TraceInv'
  <1> SUFFICES ASSUME TraceInv PROVE
        (HostCounts \/ HostCatches \/ HostEnds \/ UNCHANGED vars) => TraceInv'
    OBVIOUS
  <1> USE DEF TraceInv
  <1>0. TypeOK /\ running \in Seq(Nat \ {Top})
    BY DEF TypeOK, Frame
  <1>1. ASSUME HostCounts PROVE TraceInv'
    <2>1. /\ UNCHANGED <<running, returned, caught, ended, calls, events,
                         stack, seq, truncated>>
      BY <1>1 DEF HostCounts, hostVars
    <2>3. emitted' \in Nat
      BY <1>0, <1>1 DEF HostCounts, Emits, TypeOK
    <2>4. metrics \in SUBSET Counter
          /\ metrics' \in {metrics} \cup {metrics \cup {c} : c \in Counter}
      BY <1>0, <1>1 DEF HostCounts, TypeOK
    <2>5. metrics' \in SUBSET Counter
      BY <2>4
    <2>2. TypeOK'
      BY <1>0, <2>1, <2>3, <2>5 DEF TypeOK
    <2> QED
      BY <2>1, <2>2
         DEF InStep, FramesWereCalled, LandsOnItsFrame, ReturnsItsOwn
  <1>2. ASSUME HostCatches PROVE TraceInv'
    <2>1. /\ running' = Pop(running) /\ caught' = TRUE /\ running # <<>>
          /\ UNCHANGED <<returned, emitted, ended, calls, events, stack, seq,
                         metrics, truncated>>
      BY <1>0, <1>2 DEF HostCatches, walkVars
    <2>2. /\ Len(running) \in Nat \ {0}
          /\ running' \in Seq(Nat \ {Top})
          /\ Len(running') = Len(running) - 1
          /\ \A i \in 1 .. Len(running) - 1 : running'[i] = running[i]
      BY <1>0, <2>1, PopFacts
    <2>3. TypeOK'
      BY <1>0, <2>1, <2>2 DEF TypeOK, Frame
    <2>4. FramesWereCalled'
      BY <2>1, <2>2 DEF FramesWereCalled
    <2> QED
      BY <2>1, <2>3, <2>4 DEF InStep, LandsOnItsFrame, ReturnsItsOwn
  <1>3. ASSUME HostEnds PROVE TraceInv'
    <2>1. /\ running' = <<>> /\ ended'
          /\ UNCHANGED <<returned, caught, emitted, calls, events, stack, seq,
                         metrics, truncated>>
      BY <1>3 DEF HostEnds, walkVars
    <2>2. TypeOK'
      BY <1>0, <2>1 DEF TypeOK, Frame
    <2> QED
      BY <2>1, <2>2
         DEF InStep, FramesWereCalled, LandsOnItsFrame, ReturnsItsOwn
  <1>4. ASSUME UNCHANGED vars PROVE TraceInv'
    BY <1>4 DEF vars, hostVars, walkVars, TypeOK, InStep, FramesWereCalled, LandsOnItsFrame,
                ReturnsItsOwn
  <1> QED BY <1>1, <1>2, <1>3, <1>4

LEMMA TraceInvHolds == Spec => []TraceInv
  <1>1. Init => TraceInv
    BY InitTraceInv
  <1>2. TraceInv /\ [Next]_vars => TraceInv'
    BY HostCallsKeeps, HostReturnsKeeps, HostRaisesKeeps, OtherStepsKeep
       DEF Next
  <1> QED BY <1>1, <1>2, PTL DEF Spec

-----------------------------------------------------------------------------
\* Whatever the host emits and wherever the walk stops, the walker's tree is
\* well typed.
THEOREM TraceTypeCorrect == Spec => []TypeOK
  <1>1. TraceInv => TypeOK
    BY DEF TraceInv
  <1> QED BY <1>1, TraceInvHolds, PTL

\* For every cap and every stream without a caught trap, each event is shown
\* on the call that raised it and each call under the one that made it.
THEOREM EventsLandOnTheirFrame == Spec => []LandsOnItsFrame
  <1>1. TraceInv => LandsOnItsFrame
    BY DEF TraceInv
  <1> QED BY <1>1, TraceInvHolds, PTL

\* For every cap and every stream without a caught trap, a call shows the
\* value it returned, and shows one exactly when it returned.
THEOREM ResultsAreTheCallsOwn == Spec => []ReturnsItsOwn
  <1>1. TraceInv => ReturnsItsOwn
    BY DEF TraceInv
  <1> QED BY <1>1, TraceInvHolds, PTL

-----------------------------------------------------------------------------
\* What is drawn around what.

\* A node is under an older one.
ParentsCameBefore ==
    \A n \in 1 .. Len(calls) : calls[n].parent \in 0 .. n - 1

\* The open nodes are nested in each other, the oldest outermost.
StackNests ==
    /\ \A i \in 1 .. Len(stack) : Top \in CallsAround(stack[i])
    /\ \A i, j \in 1 .. Len(stack) :
         i < j => stack[i] < stack[j] /\ stack[i] \in CallsAround(stack[j])

\* A frame that runs is an open node, though not every open node still runs.
RunningAreOpen ==
    ~truncated =>
        \A i \in 1 .. Len(running) : \E j \in 1 .. Len(stack) : running[i] = stack[j]

EventsWerePlaced == \A n \in 1 .. Len(events) : events[n].on \in 0 .. Len(calls)

NestInv ==
    /\ TraceInv
    /\ ParentsCameBefore /\ StackNests /\ RunningAreOpen /\ EventsWerePlaced
    /\ LandsInsideItsFrame

\* A node is around itself, and what is around its parent is around it.
LEMMA AroundFacts ==
    ASSUME TypeOK
    PROVE  /\ \A n \in 0 .. Len(calls) : n \in CallsAround(n)
           /\ \A n \in 1 .. Len(calls) :
                CallsAround(calls[n].parent) \subseteq CallsAround(n)
  <1>1. \A n \in 0 .. Len(calls) : n \in CallsAround(n)
    BY DEF CallsAround
  <1>2. ASSUME NEW n \in 1 .. Len(calls), NEW m \in CallsAround(calls[n].parent)
        PROVE  m \in CallsAround(n)
    <2>1. m \in 0 .. Len(calls)
      BY <1>2 DEF CallsAround
    <2> SUFFICES ASSUME NEW tree \in SUBSET (0 .. Len(calls)), n \in tree,
                        \A k \in tree \ {Top} : calls[k].parent \in tree
                 PROVE  m \in tree
      BY <2>1 DEF CallsAround
    <2>2. n \in tree \ {Top}
      BY DEF Top, TypeOK
    <2> QED BY <1>2, <2>2 DEF CallsAround
  <1> QED BY <1>1, <1>2

\* The tree only grows: a new node is around none of the old ones, and a
\* return value moves nothing.
LEMMA AroundGrows ==
    ASSUME TypeOK, ParentsCameBefore, Len(calls)' \in Nat, Len(calls) <= Len(calls)',
           \A k \in 1 .. Len(calls) : calls'[k].parent = calls[k].parent,
           NEW n \in 0 .. Len(calls)
    PROVE  CallsAround(n) \subseteq CallsAround(n)'
  <1>0. Len(calls) \in Nat
    BY DEF TypeOK
  <1> SUFFICES ASSUME NEW m \in CallsAround(n) PROVE m \in CallsAround(n)'
    OBVIOUS
  <1>1. m \in 0 .. Len(calls) /\ m \in 0 .. Len(calls)'
    BY <1>0 DEF CallsAround
  <1> SUFFICES ASSUME NEW tree \in SUBSET (0 .. Len(calls)'), n \in tree,
                      \A k \in tree \ {Top} : calls'[k].parent \in tree
               PROVE  m \in tree
    BY <1>1 DEF CallsAround
  <1> DEFINE old == tree \cap (0 .. Len(calls))
  <1>2. old \in SUBSET (0 .. Len(calls)) /\ n \in old
    OBVIOUS
  <1>3. ASSUME NEW k \in old \ {Top} PROVE calls[k].parent \in old
    <2>1. k \in 1 .. Len(calls) /\ k \in tree \ {Top}
      BY <1>0 DEF Top
    <2>2. calls[k].parent \in tree
      BY <2>1
    <2>3. calls[k].parent \in 0 .. Len(calls)
      BY <1>0, <2>1 DEF ParentsCameBefore
    <2> QED BY <2>2, <2>3
  <1> HIDE DEF old
  <1>4. m \in old
    BY <1>2, <1>3 DEF CallsAround
  <1> QED BY <1>4 DEF old

\* Whatever is raised or called now lands inside the frame that runs.
LEMMA InnermostIsInside ==
    ASSUME NestInv, ~truncated
    PROVE  /\ Innermost(stack) \in 0 .. Len(calls)
           /\ Innermost(running) \in CallsAround(Innermost(stack))
  <1>0. /\ running \in Seq(Nat \ {Top}) /\ stack \in Seq(Nat \ {Top})
        /\ Len(running) \in Nat /\ Len(stack) \in Nat /\ Len(calls) \in Nat /\ TypeOK
    BY DEF NestInv, TraceInv, TypeOK, Frame
  <1>1. CASE stack = <<>>
    <2>1. running = <<>>
      BY <1>0, <1>1 DEF NestInv, RunningAreOpen
    <2>2. Innermost(stack) = Top /\ Innermost(running) = Top /\ Top \in 0 .. Len(calls)
      BY <1>0, <1>1, <2>1 DEF Innermost, Top
    <2> QED BY <1>0, <2>2, AroundFacts
  <1>2. CASE stack # <<>>
    <2> DEFINE inner == Innermost(stack)
    <2>1. inner = stack[Len(stack)] /\ Len(stack) \in 1 .. Len(stack)
      BY <1>0, <1>2, PopFacts
    <2> HIDE DEF inner
    <2>2. inner \in 0 .. Len(calls)
      BY <1>0, <2>1 DEF NestInv, TraceInv, FramesWereCalled
    <2>3. CASE running = <<>>
      <3>1. Innermost(running) = Top
        BY <2>3 DEF Innermost
      <3> QED BY <2>1, <2>2, <3>1 DEF NestInv, StackNests, inner
    <2>4. CASE running # <<>>
      <3>1. Innermost(running) = running[Len(running)] /\ Len(running) \in 1 .. Len(running)
        BY <1>0, <2>4, PopFacts
      <3>2. PICK j \in 1 .. Len(stack) : running[Len(running)] = stack[j]
        BY <3>1 DEF NestInv, RunningAreOpen
      <3>3. j = Len(stack) \/ j < Len(stack)
        BY <1>0
      <3>4. stack[j] \in CallsAround(inner)
        BY <1>0, <2>1, <2>2, <3>3, AroundFacts DEF NestInv, StackNests
      <3> QED BY <2>2, <3>1, <3>2, <3>4 DEF inner
    <2> QED BY <2>3, <2>4
  <1> QED BY <1>1, <1>2

\* A new node is under the innermost open one, so inside all of them.
LEMMA HostCallsNests == NestInv /\ HostCalls => NestInv'
  <1> SUFFICES ASSUME NestInv, HostCalls PROVE NestInv'
    OBVIOUS
  <1>0. /\ TraceInv /\ TypeOK /\ ~truncated /\ TraceInv'
        /\ running \in Seq(Nat \ {Top}) /\ stack \in Seq(Nat \ {Top})
        /\ Len(running) \in Nat /\ Len(stack) \in Nat /\ Len(calls) \in Nat
        /\ Len(events) \in Nat
    BY HostCallsKeeps, SMTT(30) DEF NestInv, TraceInv, TypeOK, Frame, HostCalls, Emits
  <1>1. CASE Len(calls) >= MAX_ITEMS
    <2>1. truncated' /\ UNCHANGED <<calls, events, stack>>
      BY <1>1 DEF HostCalls, OpenNode, Truncate
    <2>2. \A n : CallsAround(n)' = CallsAround(n)
      BY <2>1 DEF CallsAround
    <2> QED BY <1>0, <2>1, <2>2
            DEF NestInv, ParentsCameBefore, StackNests, RunningAreOpen, EventsWerePlaced,
                LandsInsideItsFrame
  <1>2. CASE ~(Len(calls) >= MAX_ITEMS)
    <2>0. PICK new \in Nat, under \in Nat, opener \in Nat :
            new = Len(calls) + 1 /\ under = Innermost(stack) /\ opener = Innermost(running)
      BY <1>0, InnermostInNat, SMTT(30)
    <2> DEFINE node == [parent |-> under, seq |-> seq, returns |-> Top, opener |-> opener]
    <2>1. /\ calls' = Append(calls, node) /\ stack' = Append(stack, new)
          /\ running' = Append(running, new)
          /\ UNCHANGED <<events, truncated>>
      BY <1>2, <2>0 DEF HostCalls, OpenNode
    <2>2. under \in 0 .. Len(calls) /\ opener \in CallsAround(under)
      BY <1>0, <2>0, InnermostIsInside
    <2>3. node \in Call
      BY <1>0, <2>0 DEF Call, TypeOK, Top
    <2>4. /\ Len(calls)' = new /\ new \in Nat
          /\ \A i \in 1 .. Len(calls) : calls'[i] = calls[i]
          /\ calls'[new] = node
      BY <1>0, <2>0, <2>1, <2>3, AppendFacts DEF TypeOK
    <2>5. new \in Nat \ {Top}
      BY <1>0, <2>0 DEF Top
    <2>6. /\ Len(stack)' = Len(stack) + 1 /\ stack'[Len(stack) + 1] = new
          /\ \A i \in 1 .. Len(stack) : stack'[i] = stack[i]
          /\ Len(running)' = Len(running) + 1 /\ running'[Len(running) + 1] = new
          /\ \A i \in 1 .. Len(running) : running'[i] = running[i]
      BY <1>0, <2>1, <2>5, AppendFacts
    <2> HIDE DEF node
    <2>7. ParentsCameBefore'
      <3> SUFFICES ASSUME NEW n \in 1 .. new PROVE calls'[n].parent \in 0 .. n - 1
        BY <2>4 DEF ParentsCameBefore
      <3>1. CASE n = new
        BY <1>0, <2>2, <2>4, <3>1, <2>0 DEF node
      <3>2. CASE n # new
        <4>1. n \in 1 .. Len(calls)
          BY <1>0, <3>2, <2>0
        <4> QED BY <2>4, <4>1 DEF NestInv, ParentsCameBefore
      <3> QED BY <3>1, <3>2
    <2>8. \A n \in 0 .. Len(calls) : CallsAround(n) \subseteq CallsAround(n)'
      <3>1. Len(calls) <= Len(calls)' /\ Len(calls)' \in Nat
        BY <1>0, <2>4, <2>0
      <3> QED BY <1>0, <2>4, <3>1, AroundGrows DEF NestInv
    <2>9. \A m \in CallsAround(under) : m \in CallsAround(new)'
      <3> SUFFICES ASSUME NEW m \in CallsAround(under) PROVE m \in CallsAround(new)'
        OBVIOUS
      <3>1. m \in CallsAround(under)'
        BY <2>2, <2>8
      <3>2. m \in 0 .. Len(calls)'
        BY <3>1 DEF CallsAround
      <3> SUFFICES ASSUME NEW tree \in SUBSET (0 .. Len(calls)'), new \in tree,
                          \A k \in tree \ {Top} : calls'[k].parent \in tree
                   PROVE  m \in tree
        BY <3>2 DEF CallsAround
      <3>3. under \in tree
        BY <2>4, <2>5 DEF node
      <3> QED BY <3>1, <3>3 DEF CallsAround
    <2>10. \A i \in 1 .. Len(stack) : /\ stack[i] \in 1 .. Len(calls)
                                      /\ Top \in CallsAround(stack[i])
                                      /\ stack[i] \in CallsAround(under)
      <3> TAKE i \in 1 .. Len(stack)
      <3>1. stack # <<>>
        OBVIOUS
      <3>2. under = stack[Len(stack)] /\ Len(stack) \in 1 .. Len(stack)
        BY <1>0, <3>1, PopFacts, <2>0
      <3>3. i = Len(stack) \/ i < Len(stack)
        BY <1>0
      <3>4. stack[i] \in CallsAround(under)
        BY <1>0, <2>2, <3>2, <3>3, AroundFacts DEF NestInv, StackNests
      <3> QED BY <1>0, <3>4 DEF NestInv, StackNests, TraceInv, FramesWereCalled
    <2>11. Top \in CallsAround(under)
      <3>1. CASE stack = <<>>
        <4>1. under = Top
          BY <3>1, <2>0 DEF Innermost
        <4> QED BY <1>0, <2>2, <4>1, AroundFacts
      <3>2. CASE stack # <<>>
        <4>1. under = stack[Len(stack)] /\ Len(stack) \in 1 .. Len(stack)
          BY <1>0, <3>2, PopFacts, <2>0
        <4> QED BY <4>1 DEF NestInv, StackNests
      <3> QED BY <3>1, <3>2
    <2>12. StackNests'
      <3>1. \A i \in 1 .. Len(stack)' : Top \in CallsAround(stack[i])'
        <4> SUFFICES ASSUME NEW i \in 1 .. Len(stack) + 1
                     PROVE  Top \in CallsAround(stack[i])'
          BY <2>6
        <4>1. CASE i = Len(stack) + 1
          BY <2>6, <2>9, <2>11, <4>1
        <4>2. CASE i # Len(stack) + 1
          <5>1. i \in 1 .. Len(stack) /\ stack'[i] = stack[i]
            BY <1>0, <2>6, <4>2
          <5>2. stack[i] \in 0 .. Len(calls) /\ Top \in CallsAround(stack[i])
            BY <1>0, <2>10, <5>1
          <5> QED BY <2>8, <5>1, <5>2
        <4> QED BY <4>1, <4>2
      <3>2. \A i, j \in 1 .. Len(stack)' :
              i < j => stack'[i] < stack'[j] /\ stack'[i] \in CallsAround(stack[j])'
        <4> SUFFICES ASSUME NEW i \in 1 .. Len(stack) + 1, NEW j \in 1 .. Len(stack) + 1,
                            i < j
                     PROVE  stack'[i] < stack'[j] /\ stack'[i] \in CallsAround(stack[j])'
          BY <2>6
        <4>1. i \in 1 .. Len(stack) /\ stack'[i] = stack[i] /\ stack[i] \in 1 .. Len(calls)
          BY <1>0, <2>6, <2>10
        <4>2. CASE j = Len(stack) + 1
          BY <1>0, <2>6, <2>9, <2>10, <4>1, <4>2, <2>0, SMTT(30)
        <4>3. CASE j # Len(stack) + 1
          <5>0. j \in 1 .. Len(stack)
            <6>1. Len(stack) \in Nat
              BY <1>0
            <6> QED BY <6>1, <4>3
          <5>1. j \in 1 .. Len(stack) /\ stack'[j] = stack[j]
            BY <2>6, <5>0
          <5>2. /\ stack[j] \in 0 .. Len(calls)
                /\ stack[i] < stack[j] /\ stack[i] \in CallsAround(stack[j])
            BY <1>0, <2>10, <4>1, <5>1 DEF NestInv, StackNests
          <5> QED BY <2>8, <4>1, <5>1, <5>2
        <4> QED BY <4>2, <4>3
      <3> QED BY <3>1, <3>2 DEF StackNests
    <2>13. RunningAreOpen'
      <3> SUFFICES ASSUME NEW i \in 1 .. Len(running) + 1
                   PROVE  \E j \in 1 .. Len(stack) + 1 : running'[i] = stack'[j]
        BY <2>6 DEF RunningAreOpen
      <3>1. CASE i = Len(running) + 1
        BY <1>0, <2>6, <3>1, SMTT(30)
      <3>2. CASE i # Len(running) + 1
        <4>1. i \in 1 .. Len(running)
          BY <1>0, <3>2
        <4>2. PICK j \in 1 .. Len(stack) : running[i] = stack[j]
          BY <1>0, <4>1 DEF NestInv, RunningAreOpen
        <4>3. j \in 1 .. Len(stack) + 1
          BY <1>0
        <4> QED BY <2>6, <4>1, <4>2, <4>3
      <3> QED BY <3>1, <3>2
    <2>14. EventsWerePlaced'
      BY <1>0, <2>0, <2>1, <2>4 DEF NestInv, EventsWerePlaced
    <2>15. LandsInsideItsFrame'
      <3>1. DOMAIN events = 1 .. Len(events) /\ DOMAIN calls = 1 .. Len(calls)
            /\ (DOMAIN calls)' = 1 .. new
        BY <1>0, <2>4 DEF TypeOK, TraceInv
      <3>2. \A n \in 1 .. Len(events) : events[n].raiser \in CallsAround(events[n].on)'
        BY <2>1, <2>8, <3>1 DEF NestInv, EventsWerePlaced, LandsInsideItsFrame
      <3>3. \A n \in 1 .. new : calls'[n].opener \in CallsAround(n)'
        <4> TAKE n \in 1 .. new
        <4>1. CASE n = new
          BY <2>2, <2>4, <2>9, <4>1 DEF node
        <4>2. CASE n # new
          <5>1. n \in 1 .. Len(calls) /\ n \in 0 .. Len(calls)
            BY <1>0, <4>2, <2>0
          <5> QED BY <2>4, <2>8, <3>1, <5>1 DEF NestInv, LandsInsideItsFrame
        <4> QED BY <4>1, <4>2
      <3> QED BY <2>1, <3>1, <3>2, <3>3 DEF LandsInsideItsFrame
    <2> QED BY <1>0, <2>7, <2>12, <2>13, <2>14, <2>15 DEF NestInv
  <1> QED BY <1>1, <1>2

\* A return closes the innermost open node.  Without a caught trap that is the
\* frame's own; with one it may be a node deeper in, never one further out, so
\* the frames that still run stay open.
LEMMA HostReturnsNests == NestInv /\ HostReturns => NestInv'
  <1> SUFFICES ASSUME NestInv, HostReturns PROVE NestInv'
    OBVIOUS
  <1>0. /\ TraceInv /\ TypeOK /\ ~truncated /\ TraceInv'
        /\ running \in Seq(Nat \ {Top}) /\ stack \in Seq(Nat \ {Top})
        /\ calls \in Seq(Call)
        /\ Len(running) \in Nat /\ Len(stack) \in Nat /\ Len(calls) \in Nat
    <2>1. TraceInv /\ TraceInv' /\ ~truncated
      BY HostReturnsKeeps DEF NestInv, HostReturns, Emits
    <2> QED BY <2>1 DEF TraceInv, TypeOK, Frame
  <1>1. /\ running # <<>> /\ running' = Pop(running)
        /\ UNCHANGED <<events, truncated>>
    BY DEF HostReturns, CloseNode
  <1>2. /\ Len(running) \in 1 .. Len(running)
        /\ Len(running)' = Len(running) - 1
        /\ \A i \in 1 .. Len(running) - 1 : running'[i] = running[i]
    <2>1. /\ Len(running) \in Nat \ {0} /\ Len(Pop(running)) = Len(running) - 1
          /\ \A i \in 1 .. Len(running) - 1 : Pop(running)[i] = running[i]
      BY <1>0, <1>1, PopFacts
    <2> QED BY <1>1, <2>1
  <1>3. \E j \in 1 .. Len(stack) : running[Len(running)] = stack[j]
    BY <1>0, <1>2 DEF NestInv, RunningAreOpen
  <1>4. stack # <<>>
    BY <1>0, <1>3
  <1>5. /\ Len(stack) \in 1 .. Len(stack)
        /\ Len(Pop(stack)) = Len(stack) - 1
        /\ \A i \in 1 .. Len(stack) - 1 : Pop(stack)[i] = stack[i]
        /\ Innermost(stack) \in Nat
    BY <1>0, <1>4, PopFacts
  <1>6. /\ stack' = Pop(stack)
        /\ calls' = [calls EXCEPT ![Innermost(stack)].returns = Innermost(running)]
    BY <1>4 DEF HostReturns, CloseNode
  <1>7. /\ Len(calls)' = Len(calls) /\ DOMAIN calls' = DOMAIN calls
        /\ DOMAIN calls = 1 .. Len(calls)
        /\ \A k \in 1 .. Len(calls) : /\ calls'[k].parent = calls[k].parent
                                      /\ calls'[k].opener = calls[k].opener
    <2>1. /\ calls' \in [DOMAIN calls -> Call] /\ DOMAIN calls = 1 .. Len(calls)
          /\ \A k \in DOMAIN calls : calls'[k] = calls[k]
                \/ calls'[k] = [calls[k] EXCEPT !.returns = Innermost(running)]
      <3>1. Innermost(running) \in Nat
        BY <1>0, InnermostInNat
      <3>2. /\ DOMAIN calls = 1 .. Len(calls)
            /\ \A k \in 1 .. Len(calls) : calls[k] \in Call
        BY <1>0
      <3>3. \A c \in Call, v \in Nat : [c EXCEPT !.returns = v] \in Call
        BY DEF Call
      <3> QED BY <1>6, <3>1, <3>2, <3>3
    <2>2. \A k \in 1 .. Len(calls) : /\ calls'[k].parent = calls[k].parent
                                     /\ calls'[k].opener = calls[k].opener
      <3>1. SUFFICES ASSUME NEW k \in 1 .. Len(calls)
                     PROVE  calls'[k].parent = calls[k].parent /\ calls'[k].opener = calls[k].opener
        OBVIOUS
      <3>2. calls[k] \in [parent : Nat, seq : Nat, returns : Nat, opener : Nat]
        <4>1. calls[k] \in Call
          BY <1>0, ElementOfSeq
        <4> QED BY <4>1 DEF Call
      <3>3. \/ calls'[k] = calls[k]
            \/ calls'[k] = [calls[k] EXCEPT !.returns = Innermost(running)]
        BY <2>1
      <3> QED BY <3>2, <3>3
    <2>3. Len(calls)' = Len(calls)
      BY <1>0, <2>1
    <2> QED BY <2>1, <2>2, <2>3
  <1>8. \A n \in 0 .. Len(calls) : CallsAround(n) \subseteq CallsAround(n)'
    BY <1>0, <1>7, AroundGrows DEF NestInv
  <1>9. \A i \in 1 .. Len(stack) - 1 : /\ i \in 1 .. Len(stack) /\ stack'[i] = stack[i]
                                       /\ stack[i] \in 0 .. Len(calls)
    BY <1>0, <1>5, <1>6 DEF TraceInv, FramesWereCalled
  <1>10. Len(stack)' = Len(stack) - 1
    BY <1>5, <1>6
  <1>11. ParentsCameBefore'
    BY <1>7 DEF NestInv, ParentsCameBefore
  <1>12. StackNests'
    <2>1. \A i \in 1 .. Len(stack)' : Top \in CallsAround(stack[i])'
      <3> SUFFICES ASSUME NEW i \in 1 .. Len(stack) - 1 PROVE Top \in CallsAround(stack[i])'
        BY <1>10
      <3>1. /\ stack[i] \in 0 .. Len(calls) /\ stack'[i] = stack[i]
            /\ Top \in CallsAround(stack[i])
        BY <1>9 DEF NestInv, StackNests
      <3> QED BY <1>8, <3>1
    <2>2. \A i, j \in 1 .. Len(stack)' :
            i < j => stack'[i] < stack'[j] /\ stack'[i] \in CallsAround(stack[j])'
      <3> SUFFICES ASSUME NEW i \in 1 .. Len(stack) - 1, NEW j \in 1 .. Len(stack) - 1, i < j
                   PROVE  stack'[i] < stack'[j] /\ stack'[i] \in CallsAround(stack[j])'
        BY <1>10
      <3>1. /\ stack[j] \in 0 .. Len(calls) /\ stack'[i] = stack[i] /\ stack'[j] = stack[j]
            /\ stack[i] < stack[j] /\ stack[i] \in CallsAround(stack[j])
        BY <1>9 DEF NestInv, StackNests
      <3> QED BY <1>8, <3>1
    <2> QED BY <2>1, <2>2 DEF StackNests
  <1>13. RunningAreOpen'
    <2> SUFFICES ASSUME NEW i \in 1 .. Len(running) - 1
                 PROVE  \E j \in 1 .. Len(stack) - 1 : running'[i] = stack'[j]
      BY <1>2, <1>10 DEF RunningAreOpen
    <2>1. /\ i \in 1 .. Len(running) /\ i < Len(running) /\ running'[i] = running[i]
      BY <1>0, <1>2
    <2>2. PICK j \in 1 .. Len(stack) : running[i] = stack[j]
      BY <1>0, <2>1 DEF NestInv, RunningAreOpen
    <2>3. PICK k \in 1 .. Len(stack) : running[Len(running)] = stack[k]
      BY <1>3
    <2>4. running[i] < running[Len(running)]
      BY <1>0, <1>2, <2>1 DEF TraceInv, FramesWereCalled
    <2>5. stack[j] < stack[k] /\ stack[j] \in Nat /\ stack[k] \in Nat
      BY <1>0, <2>2, <2>3, <2>4, SMTT(30)
    <2>6. ~(k < j) /\ k # j
      <3>1. k < j => stack[k] < stack[j]
        BY DEF NestInv, StackNests
      <3> QED BY <2>5, <3>1
    <2>7. j \in 1 .. Len(stack) - 1
      BY <1>0, <2>6
    <2> QED BY <1>9, <2>1, <2>2, <2>7
  <1>14. EventsWerePlaced'
    BY <1>1, <1>7 DEF NestInv, EventsWerePlaced
  <1>15. LandsInsideItsFrame'
    <2>1. \A n \in DOMAIN events : events[n].raiser \in CallsAround(events[n].on)'
      <3>1. DOMAIN events = 1 .. Len(events)
        BY <1>0 DEF TypeOK
      <3> QED BY <1>1, <1>8, <3>1 DEF NestInv, EventsWerePlaced, LandsInsideItsFrame
    <2>2. \A n \in DOMAIN calls : calls'[n].opener \in CallsAround(n)'
      <3>1. \A n \in DOMAIN calls : n \in 0 .. Len(calls) /\ calls[n].opener \in CallsAround(n)
        BY <1>0, <1>7 DEF NestInv, LandsInsideItsFrame
      <3> QED BY <1>7, <1>8, <3>1
    <2> QED BY <1>1, <1>7, <2>1, <2>2 DEF LandsInsideItsFrame
  <1> QED BY <1>0, <1>11, <1>12, <1>13, <1>14, <1>15 DEF NestInv

LEMMA HostRaisesNests == NestInv /\ HostRaises => NestInv'
  <1> SUFFICES ASSUME NestInv, HostRaises PROVE NestInv'
    OBVIOUS
  <1>0. /\ TraceInv /\ TypeOK /\ ~truncated /\ TraceInv'
        /\ running \in Seq(Nat \ {Top}) /\ stack \in Seq(Nat \ {Top})
        /\ Len(calls) \in Nat /\ Len(events) \in Nat
    BY HostRaisesKeeps, SMTT(30) DEF NestInv, TraceInv, TypeOK, Frame, HostRaises, Emits
  <1>1. UNCHANGED <<calls, stack, running>>
    BY DEF HostRaises, KeepEvent, Truncate, hostVars
  <1>2. \A n : CallsAround(n)' = CallsAround(n)
    BY <1>1 DEF CallsAround
  <1>3. ParentsCameBefore' /\ StackNests' /\ RunningAreOpen'
    BY <1>0, <1>1, <1>2 DEF NestInv, ParentsCameBefore, StackNests, RunningAreOpen
  <1>4. CASE Len(events) >= MAX_ITEMS
    <2>1. events' = events
      BY <1>4 DEF HostRaises, KeepEvent, Truncate
    <2> QED BY <1>0, <1>1, <1>2, <1>3, <2>1
            DEF NestInv, EventsWerePlaced, LandsInsideItsFrame
  <1>5. CASE ~(Len(events) >= MAX_ITEMS)
    <2>1. /\ Innermost(stack) \in 0 .. Len(calls)
          /\ Innermost(running) \in CallsAround(Innermost(stack))
          /\ Innermost(running) \in Nat
      BY <1>0, InnermostIsInside, InnermostInNat
    <2> DEFINE event == [on |-> Innermost(stack), seq |-> seq, raiser |-> Innermost(running)]
    <2>2. events' = Append(events, event)
      BY <1>5 DEF HostRaises, KeepEvent
    <2>3. event \in Event
      BY <1>0, <2>1 DEF Event, TypeOK
    <2>4. /\ event.on = Innermost(stack) /\ event.raiser = Innermost(running)
      OBVIOUS
    <2> HIDE DEF event
    <2>5. /\ DOMAIN events' = 1 .. Len(events) + 1 /\ DOMAIN events = 1 .. Len(events)
          /\ Len(events)' = Len(events) + 1
          /\ \A i \in 1 .. Len(events) : events'[i] = events[i]
          /\ events'[Len(events) + 1] = event
      BY <1>0, <2>2, <2>3, AppendFacts DEF TypeOK
    <2>6. \A n \in 1 .. Len(events) + 1 :
             /\ events'[n].on \in 0 .. Len(calls)
             /\ events'[n].raiser \in CallsAround(events'[n].on)
      <3> TAKE n \in 1 .. Len(events) + 1
      <3>1. CASE n = Len(events) + 1
        BY <2>1, <2>4, <2>5, <3>1
      <3>2. CASE n # Len(events) + 1
        <4>1. n \in 1 .. Len(events)
          BY <1>0, <3>2
        <4> QED BY <2>5, <4>1 DEF NestInv, EventsWerePlaced, LandsInsideItsFrame
      <3> QED BY <3>1, <3>2
    <2>7. EventsWerePlaced'
      BY <1>1, <2>5, <2>6 DEF EventsWerePlaced
    <2>8. LandsInsideItsFrame'
      <3>1. \A n \in 1 .. Len(events) + 1 : events'[n].raiser \in CallsAround(events[n].on)'
        BY <1>2, <2>6
      <3> QED BY <1>1, <1>2, <2>5, <3>1 DEF NestInv, LandsInsideItsFrame
    <2> QED BY <1>0, <1>3, <2>7, <2>8 DEF NestInv
  <1> QED BY <1>4, <1>5

\* A caught trap takes the frame off the host's stack alone, and the end of
\* the transaction all of them.
LEMMA OtherStepsNest ==
    NestInv /\ (HostCounts \/ HostCatches \/ HostEnds \/ UNCHANGED vars) => NestInv'
  <1> SUFFICES ASSUME NestInv, HostCounts \/ HostCatches \/ HostEnds \/ UNCHANGED vars
               PROVE  NestInv'
    OBVIOUS
  <1>0. TraceInv' /\ TypeOK
    BY OtherStepsKeep DEF NestInv, TraceInv
  <1>1. UNCHANGED <<calls, events, stack, truncated>>
    BY DEF HostCounts, HostCatches, HostEnds, vars, walkVars
  <1>2. \A n : CallsAround(n)' = CallsAround(n)
    BY <1>1 DEF CallsAround
  <1>3. ParentsCameBefore' /\ StackNests' /\ EventsWerePlaced' /\ LandsInsideItsFrame'
    BY <1>1, <1>2
       DEF NestInv, ParentsCameBefore, StackNests, EventsWerePlaced, LandsInsideItsFrame
  <1>4. RunningAreOpen'
    <2>1. CASE running' = running
      BY <1>1, <2>1 DEF NestInv, RunningAreOpen
    <2>2. CASE HostCatches
      <3>1. running \in Seq(Nat \ {Top}) /\ Len(running) > 1 /\ running' = Pop(running)
        BY <1>0, <2>2 DEF HostCatches, TypeOK, Frame
      <3>2. /\ Len(running)' = Len(running) - 1 /\ Len(running) \in Nat
            /\ \A i \in 1 .. Len(running) - 1 : running'[i] = running[i]
        BY <3>1, PopFacts, SMTT(30)
      <3> QED BY <1>1, <3>2, SMTT(30) DEF NestInv, RunningAreOpen
    <2>3. CASE HostEnds
      BY <2>3 DEF HostEnds, RunningAreOpen
    <2> QED BY <2>1, <2>2, <2>3 DEF HostCounts, vars, hostVars
  <1> QED BY <1>0, <1>3, <1>4 DEF NestInv

LEMMA NestInvHolds == Spec => []NestInv
  <1>1. Init => NestInv
    <2> SUFFICES ASSUME Init PROVE NestInv
      OBVIOUS
    <2>1. TraceInv
      BY InitTraceInv
    <2> QED BY <2>1 DEF Init, NestInv, ParentsCameBefore, StackNests, RunningAreOpen,
                        EventsWerePlaced, LandsInsideItsFrame
  <1>2. NestInv /\ [Next]_vars => NestInv'
    BY HostCallsNests, HostReturnsNests, HostRaisesNests, OtherStepsNest DEF Next
  <1> QED BY <1>1, <1>2, PTL DEF Spec

\* For every cap, every stream and any number of caught traps, what a call
\* raised or called is drawn inside it (tx-trace.ts:184-185): a call nobody
\* closed pushes things further in, never out to a caller or to a sibling.
THEOREM NothingEscapesItsFrame == Spec => []LandsInsideItsFrame
  <1>1. NestInv => LandsInsideItsFrame
    BY DEF NestInv
  <1> QED BY <1>1, NestInvHolds, PTL

-----------------------------------------------------------------------------
\* What is told of an operation.

\* A set of natural numbers that is not empty has a least element.
LEMMA LeastNat ==
  ASSUME NEW S, S \subseteq Nat, S # {}
  PROVE  \E n \in S : \A m \in S : n <= m
<1> DEFINE R == {ss \in Nat \X Nat : ss[1] < ss[2]}
<1>1. IsWellFoundedOn(R, Nat)
  BY NatLessThanWellFounded DEF OpToRel
<1> HIDE DEF R
<1>2. PICK n \in S : \A m \in S : ~(<<m, n>> \in R)
  BY <1>1, WFMin
<1>3. \A m \in S : <<m, n>> \in R <=> m < n
  BY DEF R
<1>4. \A m \in S : n <= m
  <2>1. SUFFICES ASSUME NEW m \in S PROVE n <= m
    OBVIOUS
  <2>2. m \in Nat /\ n \in Nat /\ ~(m < n)
    BY <1>2, <1>3, <2>1
  <2> QED
    BY <2>2
<1> QED
  BY <1>4

LEMMA Entries ==
    /\ \A s : s = <<>> => DOMAIN s = {}
    /\ \A s, x : s = <<x>> => DOMAIN s = {1} /\ s[1] = x
    /\ \A s, x, y : s = <<x, y>> => DOMAIN s = {1, 2} /\ s[1] = x /\ s[2] = y
  <1>1. ASSUME NEW s, s = <<>> PROVE DOMAIN s = {}
    BY <1>1
  <1>2. ASSUME NEW s, NEW x, s = <<x>> PROVE DOMAIN s = {1} /\ s[1] = x
    BY <1>2
  <1>3. ASSUME NEW s, NEW x, NEW y, s = <<x, y>>
        PROVE  DOMAIN s = {1, 2} /\ s[1] = x /\ s[2] = y
    BY <1>3
  <1> QED BY <1>1, <1>2, <1>3

LEMMA AmountsAreTold ==
    ASSUME NEW x, AmountOf(x) # Absent
    PROVE  AmountOf(x) = x
  BY DEF AmountOf

\* An amount given by two fields of an operation stands beside its asset.
LEMMA MovedTogether ==
    ASSUME NEW op, NEW amount, NEW asset,
           Moved(op, amount, asset).amount # Absent
    PROVE  AssetMention(Moved(op, amount, asset)) \in Counts(op, amount, asset)
  <1>1. /\ Moved(op, amount, asset).amount = AmountOf(Field(op, amount))
        /\ Moved(op, amount, asset).asset = Named(Field(op, asset))
    BY DEF Moved, Given
  <1> QED BY <1>1, AmountsAreTold DEF AssetMention, Counts

\* What is to be shown of an operation once its sentence and its value are
\* known.
LEMMA ToldWhenSaid ==
    ASSUME NEW op, NEW shown, shown = PresentOperation(op),
           NEW said, said = ActionSummary(shown),
           \A i \in DOMAIN said.assets :
              said.assets[i].amount # Absent => said.assets[i] \in TrueAmounts(op),
           shown.amount # Absent => AssetMention(shown) \in TrueAmounts(op),
           {said.to, shown.to} \subseteq TrueReceivers(op) \cup {Absent},
           said.verb = "swapped" =>
              /\ said.assets[1] \in Counts(op, "source_amount", "source_asset")
              /\ said.assets[2] \in Counts(op, "amount", "asset"),
           said.verb \in {"offered", "offered to buy"} =>
              {said.assets[1].asset, said.assets[2].asset}
                = {Named(op.selling), Named(op.buying)}
    PROVE  ToldRight(op)
  <1>1. \A i \in DOMAIN Value(shown) :
           Value(shown)[i].amount # Absent => Value(shown)[i] \in TrueAmounts(op)
    <2> DEFINE mention == AssetMention(shown)
    <2>1. CASE shown.amount = Absent
      <3>1. Value(shown) = <<>>
        BY <2>1 DEF Value
      <3>2. DOMAIN Value(shown) = {}
        BY <3>1, Entries
      <3> QED BY <3>2
    <2>2. CASE shown.amount # Absent
      <3>1. Value(shown) = <<mention>> /\ mention \in TrueAmounts(op)
        BY <2>2 DEF Value
      <3> HIDE DEF mention
      <3>2. DOMAIN Value(shown) = {1} /\ Value(shown)[1] = mention
        BY <3>1, Entries
      <3> QED BY <3>1, <3>2
    <2> QED BY <2>1, <2>2
  <1> DEFINE mentions == {said.assets[i] : i \in DOMAIN said.assets}
                         \cup {Value(shown)[i] : i \in DOMAIN Value(shown)}
  <1>2. ASSUME NEW m \in mentions, m.amount # Absent PROVE m \in TrueAmounts(op)
    <2>1. CASE m \in {said.assets[i] : i \in DOMAIN said.assets}
      BY <1>2, <2>1
    <2>2. CASE m \in {Value(shown)[i] : i \in DOMAIN Value(shown)}
      BY <1>1, <1>2, <2>2
    <2> QED BY <2>1, <2>2
  <1> HIDE DEF mentions
  <1> QED BY <1>2, Zenon DEF ToldRight, mentions

LEMMA ToldWithNoAsset ==
    ASSUME NEW op, NEW shown, shown = PresentOperation(op),
           NEW verb, verb \notin {"swapped", "offered", "offered to buy"},
           NEW to, ActionSummary(shown) = Says(verb, <<>>, to),
           shown.amount # Absent => AssetMention(shown) \in TrueAmounts(op),
           {to, shown.to} \subseteq TrueReceivers(op) \cup {Absent}
    PROVE  ToldRight(op)
  <1> DEFINE said == Says(verb, <<>>, to)
  <1>1. said.assets = <<>> /\ said.to = to /\ said.verb = verb
    BY DEF Says
  <1>2. DOMAIN said.assets = {}
    BY <1>1, Entries
  <1> HIDE DEF said
  <1>3. said = ActionSummary(shown)
    BY DEF said
  <1> QED BY <1>1, <1>2, <1>3, ToldWhenSaid

LEMMA ToldWithOneAsset ==
    ASSUME NEW op, NEW shown, shown = PresentOperation(op),
           NEW verb, verb \notin {"swapped", "offered", "offered to buy"},
           NEW to, NEW mention, ActionSummary(shown) = Says(verb, <<mention>>, to),
           mention.amount # Absent => mention \in TrueAmounts(op),
           shown.amount # Absent => AssetMention(shown) \in TrueAmounts(op),
           {to, shown.to} \subseteq TrueReceivers(op) \cup {Absent}
    PROVE  ToldRight(op)
  <1> DEFINE said == Says(verb, <<mention>>, to)
  <1>1. said.assets = <<mention>> /\ said.to = to /\ said.verb = verb
    BY DEF Says
  <1>2. DOMAIN said.assets = {1} /\ said.assets[1] = mention
    BY <1>1, Entries
  <1> HIDE DEF said
  <1>3. said = ActionSummary(shown)
    BY DEF said
  <1> QED BY <1>1, <1>2, <1>3, ToldWhenSaid

\* What the sentence says of a payment is what is to be shown of it.
LEMMA PaidSays ==
    ASSUME NEW shown
    PROVE  \/ Paid(shown) = Says("sent a payment", <<>>, Absent)
           \/ /\ Paid(shown) = Says("sent", <<AssetMention(shown)>>, shown.to)
              /\ shown.amount # Absent
  BY DEF Paid

LEMMA PaymentTold ==
    ASSUME NEW op, HorizonOperation(op, Accounts), op.type = "payment"
    PROVE  /\ ToldRight(op)
           /\ PresentOperation(op).to \in Accounts \cup {Absent}
           /\ PresentOperation(op).amount # Absent =>
                AssetMention(PresentOperation(op)) \in TrueAmounts(op)
  <1> DEFINE shown == PresentOperation(op)
  <1>1. /\ {"from", "to", "amount", "asset"} \subseteq DOMAIN op
        /\ op.to \in Accounts
    BY DEF HorizonOperation, FieldsOf, AccountFields
  <1>2. shown = Between(Moved(op, "amount", "asset"), op.from, op.to)
    BY DEF PresentOperation
  <1>3. /\ shown.amount = Moved(op, "amount", "asset").amount
        /\ shown.asset = Moved(op, "amount", "asset").asset
        /\ shown.to = op.to
        /\ shown.type = "payment"
    BY <1>2 DEF Between, Moved, Given
  <1>4. Counts(op, "amount", "asset") = TrueAmounts(op)
    BY DEF TrueAmounts
  <1>5. TrueReceivers(op) = {op.to}
    BY <1>1 DEF TrueReceivers, Field
  <1>6. ActionSummary(shown) = Paid(shown)
    BY <1>3 DEF ActionSummary
  <1>7. shown.amount # Absent => AssetMention(shown) \in TrueAmounts(op)
    BY <1>3, <1>4, MovedTogether DEF AssetMention
  <1> HIDE DEF shown
  <1>8. ToldRight(op)
    <2>1. CASE Paid(shown) = Says("sent a payment", <<>>, Absent)
      BY <2>1, <1>3, <1>5, <1>6, <1>7, ToldWithNoAsset DEF shown
    <2>2. CASE /\ Paid(shown) = Says("sent", <<AssetMention(shown)>>, shown.to)
               /\ shown.amount # Absent
      BY <2>2, <1>3, <1>5, <1>6, <1>7, ToldWithOneAsset DEF shown
    <2> QED BY <2>1, <2>2, PaidSays
  <1> QED BY <1>1, <1>3, <1>7, <1>8 DEF shown

LEMMA PathPaymentTold ==
    ASSUME NEW op, HorizonOperation(op, Accounts),
           op.type \in {"path_payment_strict_send", "path_payment_strict_receive"}
    PROVE  /\ ToldRight(op)
           /\ PresentOperation(op).to \in Accounts \cup {Absent}
           /\ PresentOperation(op).amount # Absent =>
                AssetMention(PresentOperation(op)) \in TrueAmounts(op)
  <1> DEFINE shown == PresentOperation(op)
             moved == Moved(op, "amount", "asset")
             source == Mention(shown.sourceAmount, shown.sourceAsset)
  <1>1. /\ {"from", "to", "amount", "asset", "source_amount", "source_asset"}
             \subseteq DOMAIN op
        /\ op.to \in Accounts
    BY DEF HorizonOperation, FieldsOf, AccountFields
  <1>2. shown = PathPayment(op)
    BY DEF PresentOperation
  <1>3. /\ shown.amount = moved.amount
        /\ shown.asset = moved.asset
        /\ shown.to = op.to /\ shown.from = op.from
        /\ shown.type = op.type
        /\ shown.sourceAmount = AmountOf(op.source_amount)
        /\ shown.sourceAsset = Named(op.source_asset)
    BY <1>2 DEF Between, Moved, Given, PathPayment
  <1>4. /\ Counts(op, "amount", "asset") \subseteq TrueAmounts(op)
        /\ Counts(op, "source_amount", "source_asset") \subseteq TrueAmounts(op)
    BY DEF TrueAmounts
  <1>5. TrueReceivers(op) = {op.to}
    BY <1>1 DEF TrueReceivers, Field
  <1>6. ActionSummary(shown) = PaidByPath(shown)
    BY <1>3 DEF ActionSummary
  <1>7. shown.amount # Absent => AssetMention(shown) \in Counts(op, "amount", "asset")
    BY <1>3, MovedTogether DEF AssetMention
  <1>8. shown.sourceAmount # Absent =>
           source \in Counts(op, "source_amount", "source_asset")
    BY <1>1, <1>3, AmountsAreTold DEF Counts, Field
  <1> HIDE DEF shown, source, moved
  <1>9. ToldRight(op)
    <2>1. CASE PaidByPath(shown) = Paid(shown)
      <3>1. CASE Paid(shown) = Says("sent a payment", <<>>, Absent)
        BY <2>1, <3>1, <1>3, <1>4, <1>5, <1>6, <1>7, ToldWithNoAsset DEF shown
      <3>2. CASE /\ Paid(shown) = Says("sent", <<AssetMention(shown)>>, shown.to)
                 /\ shown.amount # Absent
        BY <2>1, <3>2, <1>3, <1>4, <1>5, <1>6, <1>7, ToldWithOneAsset DEF shown
      <3> QED BY <3>1, <3>2, PaidSays
    <2>2. CASE PaidByPath(shown) # Paid(shown)
      <3> DEFINE to == IF shown.to = shown.from THEN Absent ELSE shown.to
                 said == Says("swapped", <<source, AssetMention(shown)>>, to)
                 mention == AssetMention(shown)
      <3>1. /\ ActionSummary(shown) = said
            /\ shown.amount # Absent /\ shown.sourceAmount # Absent
        BY <2>2, <1>6 DEF PaidByPath, source
      <3>2. said.assets = <<source, mention>> /\ said.to = to /\ said.verb = "swapped"
        BY DEF Says
      <3> HIDE DEF said, mention
      <3>3. /\ DOMAIN said.assets = {1, 2}
            /\ said.assets[1] = source /\ said.assets[2] = mention
        BY <3>2, Entries
      <3>4. /\ source \in Counts(op, "source_amount", "source_asset")
            /\ mention \in Counts(op, "amount", "asset")
        BY <3>1, <1>7, <1>8 DEF mention
      <3>5. \A i \in DOMAIN said.assets : said.assets[i] \in TrueAmounts(op)
        BY <3>3, <3>4, <1>4
      <3>6. {said.to, shown.to} \subseteq TrueReceivers(op) \cup {Absent}
        BY <3>2, <1>3, <1>5
      <3> QED
        BY <3>1, <3>2, <3>3, <3>4, <3>5, <3>6, <1>4, ToldWhenSaid DEF mention, shown
    <2> QED BY <2>1, <2>2
  <1> QED BY <1>1, <1>3, <1>4, <1>7, <1>9 DEF shown

LEMMA CreateAccountTold ==
    ASSUME NEW op, HorizonOperation(op, Accounts), op.type = "create_account"
    PROVE  /\ ToldRight(op)
           /\ PresentOperation(op).to \in Accounts \cup {Absent}
           /\ PresentOperation(op).amount # Absent =>
                AssetMention(PresentOperation(op)) \in TrueAmounts(op)
  <1> DEFINE shown == PresentOperation(op)
             mention == Mention(shown.amount, [code |-> XLM, issuer |-> Absent])
  <1>1. /\ {"funder", "account", "starting_balance"} \subseteq DOMAIN op
        /\ "none" \notin DOMAIN op
        /\ op.account \in Accounts
    BY DEF HorizonOperation, FieldsOf, AccountFields, AssetFields, OtherFields
  <1>2. shown = [Between(Moved(op, "starting_balance", "none"), op.funder, op.account)
                   EXCEPT !.asset.code = XLM]
    BY DEF PresentOperation
  <1>3. /\ shown.amount = AmountOf(op.starting_balance)
        /\ shown.asset = [code |-> XLM, issuer |-> Absent]
        /\ shown.to = op.account
        /\ shown.type = "create_account"
    <2>1. Named(Field(op, "none")) = [code |-> Absent, issuer |-> Absent]
      BY <1>1 DEF Named, Field, NoAsset
    <2>2. Field(op, "starting_balance") = op.starting_balance
      BY <1>1 DEF Field
    <2> QED BY <1>2, <2>1, <2>2 DEF Between, Moved, Given
  <1>4. TrueAmounts(op) =
          {Mention(op.starting_balance, [code |-> XLM, issuer |-> Absent])}
    BY DEF TrueAmounts
  <1>5. TrueReceivers(op) = {op.account}
    BY DEF TrueReceivers
  <1>6. ActionSummary(shown) = Created(shown)
    BY <1>3 DEF ActionSummary
  <1>7. /\ AssetMention(shown) = mention
        /\ shown.amount # Absent => mention \in TrueAmounts(op)
    BY <1>3, <1>4, AmountsAreTold DEF AssetMention
  <1> HIDE DEF shown, mention
  <1>8. ToldRight(op)
    <2>1. CASE Created(shown) = Says("created an account", <<>>, Absent)
      BY <2>1, <1>3, <1>5, <1>6, <1>7, ToldWithNoAsset DEF shown
    <2>2. CASE /\ Created(shown) = Says("created account", <<mention>>, shown.to)
               /\ shown.amount # Absent
      BY <2>2, <1>3, <1>5, <1>6, <1>7, ToldWithOneAsset DEF shown
    <2> QED BY <2>1, <2>2 DEF Created, mention
  <1> QED BY <1>1, <1>3, <1>7, <1>8 DEF shown

LEMMA OfferTold ==
    ASSUME NEW op, HorizonOperation(op, Accounts),
           op.type \in {"manage_sell_offer", "create_passive_sell_offer",
                        "manage_buy_offer"}
    PROVE  /\ ToldRight(op)
           /\ PresentOperation(op).to \in Accounts \cup {Absent}
           /\ PresentOperation(op).amount # Absent =>
                AssetMention(PresentOperation(op)) \in TrueAmounts(op)
  <1> DEFINE shown == PresentOperation(op)
             given == IF op.type = "manage_buy_offer" THEN "buying" ELSE "selling"
             moved == Moved(op, "amount", given)
             paidIn == IF op.type = "manage_buy_offer" THEN op.selling ELSE op.buying
             mention == AssetMention(shown)
             asked == Mention(Absent, shown.buying)
  <1>1. {"amount", "selling", "buying"} \subseteq DOMAIN op
    BY DEF HorizonOperation, FieldsOf
  <1>2. shown = Offer(op)
    BY DEF PresentOperation
  <1>3. /\ shown.amount = moved.amount
        /\ shown.asset = moved.asset
        /\ shown.buying = Named(paidIn)
        /\ shown.to = Absent
        /\ shown.type = op.type
    BY <1>2 DEF Moved, Given, Offer
  <1>4. Counts(op, "amount", given) = TrueAmounts(op)
    BY DEF TrueAmounts
  <1>5. {shown.asset, shown.buying} = {Named(op.selling), Named(op.buying)}
    <2>1. moved.asset = Named(Field(op, given))
      BY DEF Moved
    <2> QED BY <1>1, <1>3, <2>1 DEF Field
  <1>6. ActionSummary(shown) = Offered(shown)
    BY <1>3 DEF ActionSummary
  <1>7. shown.amount # Absent => mention \in TrueAmounts(op)
    BY <1>3, <1>4, MovedTogether DEF AssetMention
  <1> HIDE DEF shown, given, moved, paidIn
  <1>8. ToldRight(op)
    <2>1. CASE Offered(shown) = Says("placed an offer", <<>>, Absent)
      BY <2>1, <1>3, <1>6, <1>7, ToldWithNoAsset DEF shown
    <2>2. CASE /\ \E verb \in {"offered", "offered to buy"} :
                    Offered(shown) = Says(verb, <<mention, asked>>, Absent)
               /\ shown.amount # Absent
      <3>1. PICK verb \in {"offered", "offered to buy"} :
               Offered(shown) = Says(verb, <<mention, asked>>, Absent)
        BY <2>2
      <3> DEFINE said == Says(verb, <<mention, asked>>, Absent)
      <3>2. said.assets = <<mention, asked>> /\ said.to = Absent /\ said.verb = verb
        BY DEF Says
      <3>3. /\ mention.asset = shown.asset
            /\ asked.asset = shown.buying /\ asked.amount = Absent
        BY DEF AssetMention, Mention
      <3> HIDE DEF said, mention, asked
      <3> DEFINE list == said.assets
      <3>31. list = <<mention, asked>>
        BY <3>2
      <3> HIDE DEF list
      <3>32. DOMAIN list = {1, 2} /\ list[1] = mention /\ list[2] = asked
        BY <3>31, Entries
      <3>4. /\ DOMAIN said.assets = {1, 2}
            /\ said.assets[1] = mention /\ said.assets[2] = asked
        BY <3>32 DEF list
      <3>5. \A i \in DOMAIN said.assets :
               said.assets[i].amount # Absent => said.assets[i] \in TrueAmounts(op)
        BY <2>2, <3>3, <3>4, <1>7
      <3>6. said = ActionSummary(shown)
        BY <3>1, <1>6 DEF said
      <3>7. {said.assets[1].asset, said.assets[2].asset}
              = {Named(op.selling), Named(op.buying)}
        BY <3>3, <3>4, <1>5
      <3>8. said.verb # "swapped" /\ {said.to, shown.to} \subseteq {Absent}
        BY <3>1, <3>2, <1>3
      <3>9. shown = PresentOperation(op)
        BY DEF shown
      <3> QED BY <3>5, <3>6, <3>7, <3>8, <3>9, <1>7, ToldWhenSaid DEF mention
    <2>3. \/ Offered(shown) = Says("placed an offer", <<>>, Absent)
          \/ /\ \E verb \in {"offered", "offered to buy"} :
                   Offered(shown) = Says(verb, <<mention, asked>>, Absent)
             /\ shown.amount # Absent
      BY DEF Offered
    <2> QED BY <2>1, <2>2, <2>3
  <1> QED BY <1>3, <1>7, <1>8 DEF shown

LEMMA ChangeTrustTold ==
    ASSUME NEW op, HorizonOperation(op, Accounts), op.type = "change_trust"
    PROVE  /\ ToldRight(op)
           /\ PresentOperation(op).to \in Accounts \cup {Absent}
           /\ PresentOperation(op).amount # Absent =>
                AssetMention(PresentOperation(op)) \in TrueAmounts(op)
  <1> DEFINE shown == PresentOperation(op)
             mention == Mention(IF shown.limit = "0" THEN Absent ELSE shown.limit,
                                shown.asset)
  <1>1. /\ {"asset", "limit"} \subseteq DOMAIN op
        /\ "trustee" \in DOMAIN op => op.trustee \in Accounts
        /\ op.asset.kind = "issued" => op.asset.issuer \in Accounts
    BY DEF HorizonOperation, FieldsOf, AccountFields, AssetFields
  <1>2. shown = ChangeTrust(op)
    BY DEF PresentOperation
  <1>3. /\ shown.amount = Absent
        /\ shown.asset = Named(op.asset)
        /\ shown.to = FirstOf(Field(op, "trustee"), Named(op.asset).issuer)
        /\ shown.limit = AmountOf(op.limit)
        /\ shown.type = "change_trust"
    BY <1>2 DEF Given, ChangeTrust
  <1>4. TrueAmounts(op) = Counts(op, "limit", "asset")
    BY DEF TrueAmounts
  <1>5. /\ TrueReceivers(op) = {Field(op, "trustee"), Named(op.asset).issuer}
        /\ shown.to \in TrueReceivers(op)
    BY <1>3 DEF TrueReceivers, FirstOf
  <1>6. ActionSummary(shown) = Trusted(shown)
    BY <1>3 DEF ActionSummary
  <1>7. mention.amount # Absent => mention \in TrueAmounts(op)
    <2>1. mention.amount # Absent =>
             /\ shown.limit # Absent
             /\ mention = Mention(shown.limit, shown.asset)
      BY DEF Mention
    <2> QED BY <1>1, <1>3, <1>4, <2>1, AmountsAreTold DEF Counts, Field
  <1>8. shown.to \in Accounts \cup {Absent}
    <2>1. Field(op, "trustee") \in Accounts \cup {Absent}
      BY <1>1 DEF Field
    <2>2. Named(op.asset).issuer \in Accounts \cup {Absent}
      BY <1>1 DEF Named, NoAsset
    <2> QED BY <1>3, <2>1, <2>2 DEF FirstOf
  <1>9. \/ Trusted(shown) = Says("changed a trustline", <<>>, Absent)
        \/ \E verb \in {"removed", "trusted"} :
             \/ Trusted(shown) = Says(verb, <<>>, shown.to)
             \/ Trusted(shown) = Says(verb, <<mention>>, shown.to)
    BY DEF Trusted
  <1> HIDE DEF shown, mention
  <1>10. ToldRight(op)
    <2>1. CASE Trusted(shown) = Says("changed a trustline", <<>>, Absent)
      BY <2>1, <1>3, <1>5, <1>6, ToldWithNoAsset DEF shown
    <2>2. ASSUME NEW verb \in {"removed", "trusted"},
                 Trusted(shown) = Says(verb, <<>>, shown.to)
          PROVE  ToldRight(op)
      BY <2>2, <1>3, <1>5, <1>6, ToldWithNoAsset DEF shown
    <2>3. ASSUME NEW verb \in {"removed", "trusted"},
                 Trusted(shown) = Says(verb, <<mention>>, shown.to)
          PROVE  ToldRight(op)
      BY <2>3, <1>3, <1>5, <1>6, <1>7, ToldWithOneAsset DEF shown
    <2> QED BY <1>9, <2>1, <2>2, <2>3
  <1> QED BY <1>3, <1>8, <1>10 DEF shown

\* A call: the amount is one of those it moved.
LEMMA CallTold ==
    ASSUME NEW op, HorizonOperation(op, Accounts), op.type = "invoke_host_function"
    PROVE  /\ ToldRight(op)
           /\ op.invokes \in BOOLEAN
           /\ PresentOperation(op).to \in {op.contract, Field(op, "address"), Absent}
           /\ op.invokes => PresentOperation(op).to \in {op.contract, Field(op, "address")}
           /\ PresentOperation(op).amount # Absent =>
                AssetMention(PresentOperation(op)) \in TrueAmounts(op)
  <1> DEFINE shown == PresentOperation(op)
             at == SelectInSeq(op.changes, LAMBDA c : c.type \in {"transfer", "mint"})
             found == {i \in 1 .. Len(op.changes) :
                          op.changes[i].type \in {"transfer", "mint"}}
             moved == IF at = 0 THEN [amount |-> Absent, asset |-> Absent]
                      ELSE op.changes[at]
  <1>1. op.changes \in Seq(ToSet(op.changes)) /\ op.invokes \in BOOLEAN
    BY DEF HorizonOperation
  <1>2. at # 0 => at \in DOMAIN op.changes
    <2>1. at = IF found # {} THEN Min(found) ELSE 0
      BY DEF SelectInSeq
    <2>2. CASE found = {}
      BY <2>1, <2>2
    <2>3. CASE found # {}
      <3>1. found \subseteq Nat
        OBVIOUS
      <3>2. PICK n \in found : \A m \in found : n <= m
        BY <3>1, <2>3, LeastNat
      <3>3. Min(found) \in found
        BY <3>2, Zenon DEF Min
      <3>4. DOMAIN op.changes = 1 .. Len(op.changes)
        BY <1>1, LenProperties
      <3> QED BY <2>1, <2>3, <3>3, <3>4
    <2> QED BY <2>2, <2>3
  <1>3. shown = PresentInvoke(op)
    BY DEF PresentOperation
  <1> HIDE DEF at
  <1>4. /\ shown.amount = AmountOf(moved.amount)
        /\ shown.asset = Named(moved.asset)
        /\ shown.to = FirstOf(Field(op, "address"),
                              IF op.invokes THEN op.contract ELSE Absent)
        /\ shown.type = "invoke_host_function"
    BY <1>3 DEF PresentInvoke, Given, at
  <1>5. /\ shown.to \in {op.contract, Field(op, "address"), Absent}
        /\ op.invokes => shown.to \in {op.contract, Field(op, "address")}
    BY <1>4, <1>1 DEF FirstOf
  <1>6. TrueReceivers(op) = {op.contract, Field(op, "address")}
    BY DEF TrueReceivers
  <1>7. shown.amount # Absent => AssetMention(shown) \in TrueAmounts(op)
    <2>1. TrueAmounts(op) = {Mention(op.changes[i].amount, Named(op.changes[i].asset)) :
                                i \in DOMAIN op.changes}
      BY DEF TrueAmounts
    <2>2. at = 0 => shown.amount = Absent
      BY <1>4 DEF AmountOf
    <2>3. ASSUME shown.amount # Absent
          PROVE  AssetMention(shown) \in TrueAmounts(op)
      <3>1. at \in DOMAIN op.changes /\ moved = op.changes[at]
        BY <1>2, <2>2, <2>3
      <3>2. shown.amount = op.changes[at].amount
        BY <1>4, <2>3, <3>1, AmountsAreTold
      <3>3. shown.asset = Named(op.changes[at].asset)
        BY <1>4, <3>1
      <3> QED BY <2>1, <3>1, <3>2, <3>3 DEF AssetMention
    <2> QED BY <2>3
  <1>8. ActionSummary(shown) = Says("called", <<>>, shown.to)
    BY <1>4 DEF ActionSummary
  <1> HIDE DEF shown
  <1>9. ToldRight(op)
    BY <1>5, <1>6, <1>7, <1>8, ToldWithNoAsset DEF shown
  <1> QED BY <1>1, <1>5, <1>7, <1>9 DEF shown

\* An operation without a sentence of its own.
LEMMA OtherTold ==
    ASSUME NEW op, HorizonOperation(op, Accounts),
           op.type \notin {"payment", "path_payment_strict_send",
                           "path_payment_strict_receive", "create_account",
                           "manage_sell_offer", "create_passive_sell_offer",
                           "manage_buy_offer", "change_trust", "invoke_host_function"}
    PROVE  /\ ToldRight(op)
           /\ PresentOperation(op).to \in Accounts \cup {Absent}
           /\ PresentOperation(op).amount # Absent =>
                AssetMention(PresentOperation(op)) \in TrueAmounts(op)
  <1> DEFINE shown == PresentOperation(op)
             moved == Moved(op, "amount", "asset")
  <1>1. TrueAmounts(op) = Counts(op, "amount", "asset")
    BY DEF TrueAmounts
  <1>2. /\ {"id", "type", "source_account"} \subseteq DOMAIN op
        /\ op.source_account \in Accounts
        /\ op.type = "account_merge" => "into" \in DOMAIN op /\ op.into \in Accounts
        /\ "trustor" \in DOMAIN op => op.trustor \in Accounts
    BY DEF HorizonOperation, FieldsOf, AccountFields
  <1>3. /\ shown.type = op.type
        /\ \/ shown.amount = Absent
           \/ shown.amount = moved.amount /\ shown.asset = moved.asset
        /\ shown.to \in TrueReceivers(op) \cup {Absent}
        /\ shown.to \in Accounts \cup {Absent}
    <2>1. CASE op.type = "account_merge"
      <3>1. shown = Between(Given(op), FirstOf(Field(op, "account"), op.source_account),
                            op.into)
        BY <2>1 DEF PresentOperation
      <3>2. TrueReceivers(op) = {op.into}
        BY <2>1 DEF TrueReceivers
      <3> QED BY <2>1, <3>1, <3>2, <1>2 DEF Between, Given
    <2>2. CASE op.type = "clawback"
      <3>1. shown = Between(moved, op.from, op.source_account)
        BY <2>2 DEF PresentOperation
      <3>2. TrueReceivers(op) = {op.source_account}
        BY <2>2 DEF TrueReceivers
      <3> QED BY <2>2, <3>1, <3>2, <1>2 DEF Between, Given, Moved
    <2>3. CASE op.type = "create_claimable_balance"
      <3>1. shown = [moved EXCEPT !.toHint = Hint(op.type)]
        BY <2>3 DEF PresentOperation
      <3> QED BY <2>3, <3>1 DEF Moved, Given
    <2>4. CASE op.type \in {"set_trust_line_flags", "allow_trust"}
      <3>1. shown = [Given(op) EXCEPT !.to = Field(op, "trustor")]
        BY <2>4 DEF PresentOperation
      <3>2. TrueReceivers(op) = {Field(op, "trustor")}
        BY <2>4 DEF TrueReceivers
      <3>3. Field(op, "trustor") \in Accounts \cup {Absent}
        BY <1>2 DEF Field
      <3> QED BY <2>4, <3>1, <3>2, <3>3 DEF Given
    <2>5. CASE op.type \notin {"account_merge", "clawback", "create_claimable_balance",
                               "set_trust_line_flags", "allow_trust"}
      <3>1. shown = [Given(op) EXCEPT !.toHint = Hint(op.type)]
        BY <2>5 DEF PresentOperation
      <3> QED BY <3>1 DEF Given
    <2> QED BY <2>1, <2>2, <2>3, <2>4, <2>5
  <1>4. shown.amount # Absent => AssetMention(shown) \in TrueAmounts(op)
    BY <1>1, <1>3, MovedTogether DEF AssetMention
  <1>5. ActionSummary(shown) = Says("performed", <<>>, Absent)
    BY <1>3 DEF ActionSummary
  <1> HIDE DEF shown
  <1>6. ToldRight(op)
    BY <1>3, <1>4, <1>5, ToldWithNoAsset DEF shown
  <1> QED BY <1>3, <1>4, <1>6 DEF shown

LEMMA EveryOperationTold ==
    ASSUME NEW op, HorizonOperation(op, Accounts)
    PROVE  /\ ToldRight(op)
           /\ op.type # "invoke_host_function" =>
                PresentOperation(op).to \in Accounts \cup {Absent}
           /\ op.type = "invoke_host_function" =>
                /\ op.invokes \in BOOLEAN
                /\ PresentOperation(op).to \in {op.contract, Field(op, "address"), Absent}
                /\ op.invokes =>
                     PresentOperation(op).to \in {op.contract, Field(op, "address")}
           /\ PresentOperation(op).amount # Absent =>
                AssetMention(PresentOperation(op)) \in TrueAmounts(op)
  BY PaymentTold, PathPaymentTold, CreateAccountTold, OfferTold, ChangeTrustTold,
     CallTold, OtherTold

-----------------------------------------------------------------------------
\* The record that is read is one of those at hand, and stays it.
KnownRecord == \E i \in DOMAIN Records : record \in Records[i]

LEMMA RecordStays == RecordSpec => []KnownRecord
  <1>1. RecordInit => KnownRecord
    BY DEF RecordInit, KnownRecord
  <1>2. KnownRecord /\ [RecordNext]_recordVars => KnownRecord'
    BY DEF KnownRecord, RecordNext, recordVars
  <1> QED BY <1>1, <1>2, PTL DEF RecordSpec

LEMMA RecordFacts ==
    ASSUME KnownRecord
    PROVE  /\ record.ops \in Seq(ToSet(record.ops))
           /\ record.effects \in Seq(ToSet(record.effects))
           /\ \A n \in DOMAIN record.ops : HorizonOperation(record.ops[n], Accounts)
  BY RecordsAssumption, OperationsAssumption DEF KnownRecord

LEMMA RecordSaysWhatHappened ==
    ASSUME KnownRecord
    PROVE  SaysWhatHappened
  <1>1. \A i \in DOMAIN record.ops : ToldRight(record.ops[i])
    BY RecordFacts, EveryOperationTold
  <1>2. ASSUME record.ops # <<>>, NEW first, first = Head(record.ops)
        PROVE  /\ Overview.interactedWith # Absent =>
                    /\ first.type = "invoke_host_function"
                    /\ Overview.interactedWith
                         \in {first.contract, Field(first, "address")}
               /\ Overview.call # Absent =>
                    /\ first.invokes
                    /\ Overview.call.result \in {Absent, record.returned}
                    /\ HistoryRow.line.to \in {first.contract, Field(first, "address")}
               /\ Len(record.ops) > 1 => Overview.value = <<>>
               /\ \A i \in DOMAIN Overview.value :
                    Overview.value[i].amount # Absent =>
                       Overview.value[i] \in TrueAmounts(first)
    <2> DEFINE shown == PresentOperation(first)
    <2>1. first = record.ops[1] /\ 1 \in DOMAIN record.ops
      BY <1>2, RecordFacts
    <2>2. HorizonOperation(first, Accounts)
      BY <2>1, RecordFacts
    <2>3. /\ first.type # "invoke_host_function" => shown.to \in Accounts \cup {Absent}
          /\ first.type = "invoke_host_function" =>
               /\ first.invokes \in BOOLEAN
               /\ shown.to \in {first.contract, Field(first, "address"), Absent}
               /\ first.invokes => shown.to \in {first.contract, Field(first, "address")}
          /\ shown.amount # Absent => AssetMention(shown) \in TrueAmounts(first)
      BY <2>2, EveryOperationTold
    <2>4. Primary = shown
      BY <1>2 DEF Primary
    <2> HIDE DEF shown
    <2>5. /\ Overview.interactedWith = IF shown.to \notin Accounts THEN shown.to ELSE Absent
          /\ Overview.call = FunctionCall(first)
          /\ Overview.value = IF Len(record.ops) = 1 THEN Value(shown) ELSE <<>>
      BY <1>2, <2>4 DEF Overview
    <2>6. Overview.interactedWith # Absent =>
             /\ first.type = "invoke_host_function"
             /\ Overview.interactedWith \in {first.contract, Field(first, "address")}
      BY <2>3, <2>5
    <2>7. ASSUME Overview.call # Absent
          PROVE  /\ first.invokes
                 /\ Overview.call.result \in {Absent, record.returned}
                 /\ HistoryRow.line.to \in {first.contract, Field(first, "address")}
      <3>1. IsContractInvocation(first) /\ first.function # Absent
        BY <2>5, <2>7, Zenon DEF FunctionCall
      <3>2. Overview.call.result \in {Absent, record.returned}
        BY <2>5, <3>1 DEF FunctionCall
      <3>3. first.type = "invoke_host_function" /\ first.invokes
        BY <3>1 DEF IsContractInvocation
      <3>4. HistoryRow.line = CallLine(first)
        BY <1>2, <3>1 DEF HistoryRow
      <3>5. HistoryRow.line.to = shown.to
        BY <3>1, <3>4 DEF CallLine, shown
      <3> QED BY <2>3, <3>2, <3>3, <3>5
    <2>8. Len(record.ops) > 1 => Overview.value = <<>>
      <3> DEFINE length == Len(record.ops)
      <3>1. length \in Nat
        BY RecordFacts, LenProperties
      <3> HIDE DEF length
      <3>2. length > 1 => ~(length = 1)
        BY <3>1
      <3> QED BY <2>5, <3>2, Zenon DEF length
    <2>9. ASSUME NEW i \in DOMAIN Overview.value, Overview.value[i].amount # Absent
          PROVE  Overview.value[i] \in TrueAmounts(first)
      <3> DEFINE mention == AssetMention(shown)
      <3>1. CASE Overview.value = <<>>
        BY <2>9, <3>1, Entries
      <3>2. CASE Overview.value = <<mention>> /\ shown.amount # Absent
        <4>1. DOMAIN Overview.value = {1} /\ Overview.value[1] = mention
          BY <3>2, Entries, Zenon
        <4> QED BY <2>3, <2>9, <3>2, <4>1
      <3> QED BY <2>5, <3>1, <3>2 DEF Value
    <2> QED BY <2>6, <2>7, <2>8, <2>9
  <1> QED BY <1>1, <1>2, Zenon DEF SaysWhatHappened

\* Of any operation Horizon can hold, every sentence, table cell and overview
\* field names the operation's own amounts, assets and parties.
THEOREM OperationsAreToldRight == RecordSpec => []SaysWhatHappened
  <1>1. KnownRecord => SaysWhatHappened
    BY RecordSaysWhatHappened
  <1> QED BY <1>1, RecordStays, PTL

-----------------------------------------------------------------------------
\* The page reads a stream that was walked: whatever is shown holds for it.
THEOREM PageImplementsWalk == RecordSpec => Spec
  <1>1. RecordInit => Init
    BY DEF RecordInit, TraceInit
  <1>2. [RecordNext]_recordVars => [Next]_vars
    BY DEF RecordNext, TraceNext, WalkTheStream, Decode, recordVars, traceVars
  <1> QED BY <1>1, <1>2, PTL DEF RecordSpec, Spec

-----------------------------------------------------------------------------
\* Folds over sequences.

\* Induction on a set: what holds at 0 and passes on to the next holds up to N.
LEMMA UpTo ==
  ASSUME NEW N \in Nat, NEW S, 0 \in S,
         \A n \in 1..N : n - 1 \in S => n \in S
  PROVE  \A n \in 0..N : n \in S
<1> DEFINE Bad == {n \in 0..N : n \notin S}
<1>1. SUFFICES ASSUME Bad # {} PROVE FALSE
  OBVIOUS
<1>2. Bad \subseteq Nat
  OBVIOUS
<1>3. PICK k \in Bad : \A m \in Bad : k <= m
  BY <1>1, <1>2, LeastNat
<1>4. k \in 1..N /\ k - 1 \in 0..N /\ ~(k <= k - 1)
  OBVIOUS
<1>5. k - 1 \in S
  BY <1>3, <1>4
<1> QED
  BY <1>4, <1>5

LEMMA LastOfInterval ==
  ASSUME NEW n \in Nat \ {0}, NEW s \in SUBSET (1..n), n \in s
  PROVE  Max(s) = n
<1>1. \A y \in s : n >= y
  OBVIOUS
<1>2. \A x \in s : (\A y \in s : x >= y) => x = n
  OBVIOUS
<1> QED
  BY <1>1, <1>2 DEF Max

(* A fold over a sequence of length N with steps that stay in A is defined.  *)
FoldOver(it, N, b, G) ==
  it = [s \in SUBSET (1..N) |->
          IF s = {} THEN b ELSE G[Max(s)][it[s \ {Max(s)}]]]

LEMMA FoldExists ==
  ASSUME NEW N \in Nat, NEW A, NEW b \in A, NEW G \in [1..N -> [A -> A]]
  PROVE  \E it \in [SUBSET (1..N) -> A] : FoldOver(it, N, b, G)
<1> DEFINE S == {n \in Nat : n <= N => \E it \in [SUBSET (1..n) -> A] : FoldOver(it, n, b, G)}
<1>1. 0 \in S
  <2>1. \A s \in SUBSET (1..0) : s = {}
    OBVIOUS
  <2>2. FoldOver([s \in SUBSET (1..0) |-> b], 0, b, G)
    BY <2>1 DEF FoldOver
  <2> QED
    BY <2>2
<1>2. ASSUME NEW n \in 1..N, n - 1 \in S
      PROVE  n \in S
  <2>0. n \in Nat /\ n - 1 \in Nat /\ n <= N /\ n - 1 <= N /\ n # 0
    OBVIOUS
  <2>1. PICK it \in [SUBSET (1..(n-1)) -> A] : FoldOver(it, n - 1, b, G)
    BY <1>2, <2>0
  <2>2. it = [s \in SUBSET (1..(n-1)) |-> IF s = {} THEN b ELSE G[Max(s)][it[s \ {Max(s)}]]]
    BY <2>1 DEF FoldOver
  <2> DEFINE next == [s \in SUBSET (1..n) |-> IF n \in s THEN G[n][it[s \ {n}]] ELSE it[s]]
  <2>3. ASSUME NEW s \in SUBSET (1..n)
        PROVE  (n \in s => s \ {n} \in SUBSET (1..(n-1))) /\ (n \notin s => s \in SUBSET (1..(n-1)))
    OBVIOUS
  <2>4. next \in [SUBSET (1..n) -> A]
    <3>1. ASSUME NEW s \in SUBSET (1..n) PROVE (IF n \in s THEN G[n][it[s \ {n}]] ELSE it[s]) \in A
      <4>1. CASE n \in s
        <5>1. it[s \ {n}] \in A
          BY <2>1, <2>3, <4>1
        <5>2. G[n][it[s \ {n}]] \in A
          BY <5>1
        <5> QED
          BY <4>1, <5>2
      <4>2. CASE n \notin s
        BY <2>1, <2>3, <4>2
      <4> QED
        BY <4>1, <4>2
    <3> QED
      BY <3>1
  <2>5. ASSUME NEW s \in SUBSET (1..n)
        PROVE  next[s] = IF s = {} THEN b ELSE G[Max(s)][next[s \ {Max(s)}]]
    <3>1. CASE n \in s
      <4>1. Max(s) = n
        BY <3>1, LastOfInterval
      <4>2. next[s \ {n}] = it[s \ {n}]
        BY <2>3, <3>1
      <4> QED
        BY <3>1, <4>1, <4>2
    <3>2. CASE n \notin s
      <4>1. next[s] = it[s] /\ s \in SUBSET (1..(n-1))
        BY <2>3, <3>2
      <4>2. CASE s = {}
        <5>1. it[s] = b
          BY <2>2, <4>1, <4>2
        <5> QED BY <4>1, <4>2, <5>1
      <4>3. CASE s # {}
        <5>1. it[s] = G[Max(s)][it[s \ {Max(s)}]]
          BY <2>2, <4>1, <4>3
        <5>2. next[s \ {Max(s)}] = it[s \ {Max(s)}]
          BY <2>3, <3>2
        <5> QED BY <4>1, <4>3, <5>1, <5>2
      <4> QED BY <4>2, <4>3
    <3> QED BY <3>1, <3>2
  <2> HIDE DEF next
  <2>6. next = [s \in SUBSET (1..n) |-> next[s]]
    BY <2>4
  <2>7. FoldOver(next, n, b, G)
    BY <2>5, <2>6 DEF FoldOver
  <2> QED
    BY <2>4, <2>7
<1> HIDE DEF S
<1>3. \A n \in 0..N : n \in S
  BY <1>1, <1>2, UpTo
<1>4. N \in 0..N
  OBVIOUS
<1>5. N \in S
  BY <1>3, <1>4
<1>6. N <= N => \E it \in [SUBSET (1..N) -> A] : FoldOver(it, N, b, G)
  BY <1>5, Zenon DEF S
<1>7. N <= N
  OBVIOUS
<1> QED
  BY <1>6, <1>7, Zenon

\* A prefix of the places of a sequence, and the last of them.
LEMMA Prefix ==
  ASSUME NEW N \in Nat, NEW n \in 1..N
  PROVE  /\ 1..n \in SUBSET (1..N) /\ 1..n # {}
         /\ Max(1..n) = n
         /\ (1..n) \ {n} = 1..(n - 1)
<1>1. n \in Nat \ {0} /\ n \in 1..n
  OBVIOUS
<1>2. Max(1..n) = n
  BY <1>1, LastOfInterval
<1>3. \A i \in 1..n : i \in 1..N
  OBVIOUS
<1>4. (1..n) \ {n} = 1..(n - 1)
  OBVIOUS
<1> QED
  BY <1>1, <1>2, <1>3, <1>4

\* What Max chooses of a part of an interval.
LEMMA MaxOfPart ==
  ASSUME NEW N \in Nat, NEW s \in SUBSET (1..N), s # {}
  PROVE  Max(s) \in s /\ \A m \in s : m <= Max(s)
<1> DEFINE R == {N - m : m \in s}
<1>1. \A m \in s : m \in Nat /\ m <= N /\ N - m \in Nat
  OBVIOUS
<1>2. R \subseteq Nat /\ R # {}
  BY <1>1
<1>3. PICK r \in R : \A q \in R : r <= q
  BY <1>2, LeastNat
<1>4. PICK n \in s : r = N - n
  OBVIOUS
<1>5. ASSUME NEW m \in s PROVE n >= m
  <2>1. N - n <= N - m
    BY <1>3, <1>4
  <2> QED
    BY <1>1, <2>1
<1>6. Max(s) \in s /\ \A m \in s : Max(s) >= m
  BY <1>5, Zenon DEF Max
<1>7. \A m \in s : Max(s) \in Nat /\ m \in Nat
  BY <1>1, <1>6
<1> QED
  BY <1>6, <1>7

LEMMA MinOfPart ==
  ASSUME NEW s \in SUBSET Nat, s # {}
  PROVE  Min(s) \in s /\ \A m \in s : Min(s) <= m
<1>1. PICK n \in s : \A m \in s : n <= m
  BY LeastNat
<1> QED
  BY <1>1, Zenon DEF Min

-----------------------------------------------------------------------------
\* The walk over the changes of a transaction's meta.

KeysOf(changes) == {c.key : c \in ToSet(changes)}

Walks(changes) ==
    [state : Seq([kind : {c.kind : c \in ToSet(changes)}, key : KeysOf(changes)]),
     ttls : Seq([key : KeysOf(changes), until : {c.until : c \in ToSet(changes)},
                 written : BOOLEAN, owner : {Unnamed}]),
     candidates : Seq(KeysOf(changes))]

LEMMA IndexOfFacts ==
    ASSUME NEW ttls, NEW key
    PROVE  /\ IndexOf(ttls, key) = 0 =>
                \/ \A i \in DOMAIN ttls : ttls[i].key # key
                \/ 0 \in DOMAIN ttls
           /\ IndexOf(ttls, key) # 0 => /\ IndexOf(ttls, key) \in DOMAIN ttls
                                        /\ ttls[IndexOf(ttls, key)].key = key
  <1> DEFINE at == {i \in DOMAIN ttls : ttls[i].key = key}
  <1>1. IndexOf(ttls, key) = IF at = {} THEN 0 ELSE CHOOSE i \in at : TRUE
    BY DEF IndexOf
  <1>2. CASE at = {}
    BY <1>1, <1>2
  <1>3. CASE at # {}
    <2>1. (CHOOSE i \in at : TRUE) \in at
      BY <1>3
    <2> QED BY <1>1, <1>3, <2>1
  <1> QED BY <1>2, <1>3

TtlOf(c) == [key |-> c.key, until |-> c.until, written |-> c.kind # "state",
             owner |-> Unnamed]

\* A ttl's row is left as it is, replaced or added.
TtlsAfter(ttls, c) ==
    IF \/ c.kind = "removed"
       \/ IndexOf(ttls, c.key) # 0 /\ ttls[IndexOf(ttls, c.key)].written
       \/ Len(ttls) >= MAX_ITEMS
    THEN ttls
    ELSE IF IndexOf(ttls, c.key) = 0 THEN Append(ttls, TtlOf(c))
         ELSE [ttls EXCEPT ![IndexOf(ttls, c.key)] = TtlOf(c)]

LEMMA PushTtlFacts ==
    ASSUME NEW changes, Changed(changes), NEW c \in ToSet(changes),
           NEW walk \in Walks(changes)
    PROVE  /\ PushTtl(walk, c) \in Walks(changes)
           /\ PushTtl(walk, c).candidates = walk.candidates
           /\ PushTtl(walk, c).state = walk.state
           /\ PushTtl(walk, c).ttls = TtlsAfter(walk.ttls, c)
  <1>0. PICK i, ttl : i = IndexOf(walk.ttls, c.key) /\ ttl = TtlOf(c)
    OBVIOUS
  <1> DEFINE TtlRow == [key : KeysOf(changes), until : {d.until : d \in ToSet(changes)},
                     written : BOOLEAN, owner : {Unnamed}]
  <1>1. ttl \in TtlRow
    BY <1>0 DEF KeysOf, TtlOf
  <1>2. walk.ttls \in Seq(TtlRow)
    BY DEF Walks
  <1>3. i # 0 => i \in DOMAIN walk.ttls
    BY <1>0, IndexOfFacts
  <1> HIDE DEF TtlRow
  <1>4. /\ Append(walk.ttls, ttl) \in Seq(TtlRow)
        /\ i # 0 => [walk.ttls EXCEPT ![i] = ttl] \in Seq(TtlRow)
    BY <1>1, <1>2, <1>3
  <1>5. PushTtl(walk, c) =
          IF \/ c.kind = "removed"
             \/ i # 0 /\ walk.ttls[i].written
             \/ Len(walk.ttls) >= MAX_ITEMS
          THEN walk
          ELSE IF i = 0 THEN [walk EXCEPT !.ttls = Append(walk.ttls, ttl)]
               ELSE [walk EXCEPT !.ttls[i] = ttl]
    BY <1>0 DEF PushTtl, TtlOf
  <1>6. [walk EXCEPT !.ttls[i] = ttl] = [walk EXCEPT !.ttls = [walk.ttls EXCEPT ![i] = ttl]]
    BY DEF Walks
  <1>7. TtlsAfter(walk.ttls, c) =
          IF \/ c.kind = "removed"
             \/ i # 0 /\ walk.ttls[i].written
             \/ Len(walk.ttls) >= MAX_ITEMS
          THEN walk.ttls
          ELSE IF i = 0 THEN Append(walk.ttls, ttl)
               ELSE [walk.ttls EXCEPT ![i] = ttl]
    BY <1>0 DEF TtlsAfter
  <1> QED BY <1>4, <1>5, <1>6, <1>7 DEF Walks, TtlRow

LEMMA PushStays ==
    ASSUME NEW changes, Changed(changes), NEW c \in ToSet(changes),
           NEW walk \in Walks(changes)
    PROVE  /\ Push(walk, c) \in Walks(changes)
           /\ c.type # "ttl" => Push(walk, c).ttls = walk.ttls
           /\ c.type = "ttl" => Push(walk, c) = PushTtl(walk, c)
           /\ \A key \in ToSet(Push(walk, c).candidates) :
                \/ key \in ToSet(walk.candidates)
                \/ c.type \in {"data", "code"} /\ key = c.key
  <1> DEFINE StateRow == [kind : {d.kind : d \in ToSet(changes)}, key : KeysOf(changes)]
             stateRow == [kind |-> c.kind, key |-> c.key]
  <1>1. CASE c.type = "ttl"
    <2>1. Push(walk, c) = PushTtl(walk, c)
      BY <1>1 DEF Push
    <2>2. /\ PushTtl(walk, c) \in Walks(changes)
          /\ PushTtl(walk, c).candidates = walk.candidates
      BY PushTtlFacts
    <2> QED BY <1>1, <2>1, <2>2
  <1>2. /\ c.key \in KeysOf(changes) /\ stateRow \in StateRow
        /\ walk.candidates \in Seq(KeysOf(changes)) /\ walk.state \in Seq(StateRow)
    BY DEF KeysOf, Walks
  <1> HIDE DEF StateRow, stateRow
  <1> DEFINE more == AppendCapped(walk.candidates, c.key)
             state == IF c.kind = "state" THEN walk.state
                      ELSE AppendCapped(walk.state, stateRow)
  <1>3. /\ more \in Seq(KeysOf(changes)) /\ state \in Seq(StateRow)
        /\ \A key \in ToSet(more) : key \in ToSet(walk.candidates) \/ key = c.key
    <2>1. Append(walk.candidates, c.key) \in Seq(KeysOf(changes))
      BY <1>2
    <2>2. Append(walk.state, stateRow) \in Seq(StateRow)
      BY <1>2
    <2>3. \A key \in ToSet(Append(walk.candidates, c.key)) :
             key \in ToSet(walk.candidates) \/ key = c.key
      <3> DEFINE list == walk.candidates
      <3>1. list \in Seq(KeysOf(changes)) /\ c.key \in KeysOf(changes)
        BY <1>2
      <3> HIDE DEF list
      <3>2. \A i \in DOMAIN Append(list, c.key) :
               \/ i \in DOMAIN list /\ Append(list, c.key)[i] = list[i]
               \/ Append(list, c.key)[i] = c.key
        BY <3>1
      <3> QED BY <3>2 DEF ToSet, list
    <2> QED BY <1>2, <2>1, <2>2, <2>3 DEF AppendCapped
  <1> HIDE DEF more, state
  <1>4. CASE c.type = "data"
    <2>1. Push(walk, c) = [walk EXCEPT !.candidates = more, !.state = state]
      BY <1>4, Zenon DEF Push, more, state, stateRow
    <2>2. /\ Push(walk, c) \in Walks(changes)
          /\ Push(walk, c).ttls = walk.ttls
          /\ Push(walk, c).candidates = more
      BY <1>3, <2>1 DEF Walks, StateRow
    <2> QED BY <1>3, <1>4, <2>2
  <1>5. CASE c.type = "code"
    <2>1. Push(walk, c) = [walk EXCEPT !.candidates = more]
      BY <1>5, Zenon DEF Push, more
    <2>2. /\ Push(walk, c) \in Walks(changes)
          /\ Push(walk, c).ttls = walk.ttls
          /\ Push(walk, c).candidates = more
      BY <1>3, <2>1 DEF Walks
    <2> QED BY <1>3, <1>5, <2>2
  <1>6. CASE c.type \notin {"ttl", "data", "code"}
    BY <1>6 DEF Push
  <1> QED BY <1>1, <1>4, <1>5, <1>6

\* The walk, prefix by prefix.
IsWalk(changes, walked) ==
    /\ walked[0] = NoChanges
    /\ \A n \in 1 .. Len(changes) : walked[n] = Push(walked[n - 1], changes[n])
    /\ walked[Len(changes)] = WalkChanges(changes)

LEMMA NoChangesIsAWalk == ASSUME NEW changes PROVE NoChanges \in Walks(changes)
  <1>1. ASSUME NEW S PROVE <<>> \in Seq(S)
    BY EmptySeq
  <1> QED BY <1>1 DEF NoChanges, Walks

LEMMA WalkSteps ==
    ASSUME NEW changes, Changed(changes)
    PROVE  \E walked : IsWalk(changes, walked)
  <1> DEFINE N == Len(changes)
             A == Walks(changes)
             G == [n \in 1 .. N |-> [walk \in A |-> Push(walk, changes[n])]]
             Runs(it) == it = [s \in SUBSET (1 .. N) |->
                                 IF s = {} THEN NoChanges
                                 ELSE Push(it[s \ {Max(s)}], changes[Max(s)])]
  <1>1. N \in Nat /\ DOMAIN changes = 1 .. N
    BY LenProperties DEF Changed
  <1>2. \A n \in 1 .. N : changes[n] \in ToSet(changes)
    BY <1>1 DEF ToSet
  <1>3. NoChanges \in A
    BY NoChangesIsAWalk
  <1>4. G \in [1 .. N -> [A -> A]]
    BY <1>2, PushStays
  <1> HIDE DEF N, A
  <1>5. PICK it \in [SUBSET (1 .. N) -> A] : FoldOver(it, N, NoChanges, G)
    <2> HIDE DEF G
    <2> QED BY <1>1, <1>3, <1>4, FoldExists
  <1>6. Runs(it)
    <2>1. ASSUME NEW s \in SUBSET (1 .. N), s # {}
          PROVE  G[Max(s)][it[s \ {Max(s)}]] = Push(it[s \ {Max(s)}], changes[Max(s)])
      <3>1. Max(s) \in 1 .. N
        BY <1>1, <2>1, MaxOfPart
      <3>2. it[s \ {Max(s)}] \in A
        BY <1>5
      <3> QED BY <3>1, <3>2
    <2>2. it = [s \in SUBSET (1 .. N) |->
                  IF s = {} THEN NoChanges ELSE G[Max(s)][it[s \ {Max(s)}]]]
      BY <1>5 DEF FoldOver
    <2> HIDE DEF G
    <2> QED BY <2>1, <2>2
  <1> DEFINE run == CHOOSE f : Runs(f)
             walked == [n \in 0 .. N |-> run[1 .. n]]
  <1>7. Runs(run)
    BY <1>6
  <1>8. WalkChanges(changes) = run[1 .. N]
    BY <1>1, Zenon DEF WalkChanges, FoldLeft, MapThenFoldSet
  <1> HIDE DEF run
  <1>9. walked[0] = NoChanges
    <2>1. 1 .. 0 = {} /\ 0 \in 0 .. N
      BY <1>1
    <2> QED BY <1>7, <2>1
  <1>10. ASSUME NEW n \in 1 .. N
         PROVE  walked[n] = Push(walked[n - 1], changes[n])
    <2>1. n \in 0 .. N /\ n - 1 \in 0 .. N
      BY <1>1
    <2>2. /\ 1 .. n \in SUBSET (1 .. N) /\ 1 .. n # {}
          /\ Max(1 .. n) = n /\ (1 .. n) \ {n} = 1 .. (n - 1)
      BY <1>1, Prefix
    <2>3. run[1 .. n] = Push(run[(1 .. n) \ {Max(1 .. n)}], changes[Max(1 .. n)])
      BY <1>7, <2>2
    <2>4. run[1 .. n] = Push(run[1 .. (n - 1)], changes[n])
      BY <2>2, <2>3
    <2> QED BY <2>1, <2>4
  <1>11. walked[N] = WalkChanges(changes)
    BY <1>1, <1>8
  <1>12. IsWalk(changes, walked)
    BY <1>9, <1>10, <1>11, Zenon DEF IsWalk, N
  <1> QED BY <1>12

WrittenKinds == {"created", "updated", "restored"}

\* Place j holds a change of this kind of the lifetime of this key.
OfTtl(changes, j, key, kinds) ==
    changes[j].type = "ttl" /\ changes[j].key = key /\ changes[j].kind \in kinds

\* What a row says after the first n changes, and where it has it from.
RowAfter(changes, n, row) ==
    \E j \in 1 .. n :
        /\ row.until = changes[j].until
        /\ row.written =>
             /\ OfTtl(changes, j, row.key, WrittenKinds)
             /\ \A m \in 1 .. n : OfTtl(changes, m, row.key, WrittenKinds) => j <= m
        /\ ~row.written =>
             /\ OfTtl(changes, j, row.key, {"state"})
             /\ \A m \in 1 .. n : ~OfTtl(changes, m, row.key, WrittenKinds)
             /\ \A m \in 1 .. n : OfTtl(changes, m, row.key, {"state"}) => m <= j

TouchedBy(changes, n) ==
    {changes[i].key : i \in {j \in 1 .. n : /\ changes[j].type = "ttl"
                                            /\ changes[j].kind # "removed"}}

RowsAfter(changes, n, ttls) ==
    /\ \A i \in DOMAIN ttls : ttls[i].key \in TouchedBy(changes, n)
    /\ \A key \in TouchedBy(changes, n) : \E i \in DOMAIN ttls : ttls[i].key = key
    /\ \A i, j \in DOMAIN ttls : ttls[i].key = ttls[j].key => i = j
    /\ \A i \in DOMAIN ttls : RowAfter(changes, n, ttls[i])

\* A row stays right when the next change is not one of its key, or when it
\* holds a written value already.
LEMMA RowStays ==
    ASSUME NEW changes, Changed(changes), NEW n \in 1 .. Len(changes), NEW row,
           RowAfter(changes, n - 1, row),
           \/ row.written
           \/ /\ ~OfTtl(changes, n, row.key, WrittenKinds)
              /\ ~OfTtl(changes, n, row.key, {"state"})
    PROVE  RowAfter(changes, n, row)
  <1>1. PICK j \in 1 .. (n - 1) :
      /\ row.until = changes[j].until
      /\ row.written =>
           /\ OfTtl(changes, j, row.key, WrittenKinds)
           /\ \A m \in 1 .. (n - 1) : OfTtl(changes, m, row.key, WrittenKinds) => j <= m
      /\ ~row.written =>
           /\ OfTtl(changes, j, row.key, {"state"})
           /\ \A m \in 1 .. (n - 1) : ~OfTtl(changes, m, row.key, WrittenKinds)
           /\ \A m \in 1 .. (n - 1) : OfTtl(changes, m, row.key, {"state"}) => m <= j
    BY DEF RowAfter
  <1>2. n \in Nat
    BY LenProperties DEF Changed
  <1>3. j \in 1 .. n /\ j <= n /\ \A m \in 1 .. n : m \in 1 .. (n - 1) \/ m = n
    BY <1>2
  <1>4. CASE row.written
    <2>1. \A m \in 1 .. n : OfTtl(changes, m, row.key, WrittenKinds) => j <= m
      BY <1>1, <1>3, <1>4, Zenon
    <2> QED BY <1>1, <1>3, <1>4, <2>1, Zenon DEF RowAfter
  <1>5. CASE ~row.written
    <2>1. /\ \A m \in 1 .. n : ~OfTtl(changes, m, row.key, WrittenKinds)
          /\ \A m \in 1 .. n : OfTtl(changes, m, row.key, {"state"}) => m <= j
      BY <1>1, <1>3, <1>5, Zenon
    <2> QED BY <1>1, <1>3, <1>5, <2>1, Zenon DEF RowAfter
  <1> QED BY <1>4, <1>5

\* The next change gives a row to a key nothing wrote before.
LEMMA RowIsNew ==
    ASSUME NEW changes, Changed(changes), NEW n \in 1 .. Len(changes),
           NEW c, c = changes[n], c.type = "ttl", c.kind # "removed",
           \A m \in 1 .. (n - 1) : ~OfTtl(changes, m, c.key, WrittenKinds)
    PROVE  RowAfter(changes, n, TtlOf(c))
  <1>1. n \in Nat /\ c \in ToSet(changes)
    BY LenProperties DEF Changed, ToSet
  <1>2. /\ n \in 1 .. n /\ \A m \in 1 .. n : m <= n
        /\ \A m \in 1 .. n : m \in 1 .. (n - 1) \/ m = n
    BY <1>1
  <1>3. TtlOf(c).key = c.key /\ TtlOf(c).until = c.until /\ TtlOf(c).written = (c.kind # "state")
    BY DEF TtlOf
  <1>4. c.kind \in WrittenKinds \cup {"state"}
    BY <1>1 DEF Changed, WrittenKinds
  <1>5. CASE c.kind = "state"
    <2>1. OfTtl(changes, n, c.key, {"state"}) /\ ~OfTtl(changes, n, c.key, WrittenKinds)
      BY <1>5 DEF OfTtl, WrittenKinds
    <2>2. \A m \in 1 .. n : ~OfTtl(changes, m, c.key, WrittenKinds)
      BY <1>2, <2>1, Zenon
    <2>3. ~TtlOf(c).written
      BY <1>3, <1>5
    <2>4. TtlOf(c).until = changes[n].until
      BY <1>3
    <2> QED BY <1>2, <1>3, <2>1, <2>2, <2>3, <2>4, Zenon DEF RowAfter
  <1>6. CASE c.kind \in WrittenKinds
    <2>1. OfTtl(changes, n, c.key, WrittenKinds)
      BY <1>6 DEF OfTtl
    <2>2. \A m \in 1 .. n : OfTtl(changes, m, c.key, WrittenKinds) => n <= m
      <3>1. n <= n
        BY <1>1
      <3> QED BY <1>2, <3>1, Zenon
    <2>3. TtlOf(c).written
      BY <1>3, <1>6 DEF WrittenKinds
    <2>4. TtlOf(c).until = changes[n].until
      BY <1>3
    <2> QED BY <1>2, <1>3, <2>1, <2>2, <2>3, <2>4, Zenon DEF RowAfter
  <1> QED BY <1>4, <1>5, <1>6

\* One change that touches no lifetime.
LEMMA RowsStay ==
    ASSUME NEW changes, Changed(changes), NEW n \in 1 .. Len(changes), NEW ttls,
           RowsAfter(changes, n - 1, ttls),
           changes[n].type # "ttl" \/ changes[n].kind = "removed"
    PROVE  RowsAfter(changes, n, ttls)
  <1>1. TouchedBy(changes, n) = TouchedBy(changes, n - 1)
    <2>1. \A j \in 1 .. n : j \in 1 .. (n - 1) \/ j = n
      OBVIOUS
    <2>2. \A j \in 1 .. (n - 1) : j \in 1 .. n
      OBVIOUS
    <2> QED BY <2>1, <2>2 DEF TouchedBy
  <1>2. ASSUME NEW row, RowAfter(changes, n - 1, row)
        PROVE  RowAfter(changes, n, row)
    <2>3. ~OfTtl(changes, n, row.key, WrittenKinds) /\ ~OfTtl(changes, n, row.key, {"state"})
      BY DEF OfTtl, WrittenKinds
    <2> QED BY <1>2, <2>3, RowStays
  <1> QED BY <1>1, <1>2, Zenon DEF RowsAfter

LEMMA CardinalityOfList ==
    ASSUME NEW N \in Nat, NEW S, NEW f \in [1 .. N -> S],
           \A i, j \in 1 .. N : f[i] = f[j] => i = j,
           \A x \in S : \E i \in 1 .. N : f[i] = x
    PROVE  IsFiniteSet(S) /\ Cardinality(S) = N
  <1>1. f \in Injection(1 .. N, S)
    BY DEF Injection, IsInjective
  <1>2. f \in Surjection(1 .. N, S)
    BY DEF Surjection
  <1>3. IsFiniteSet(1 .. N) /\ Cardinality(1 .. N) = IF 1 > N THEN 0 ELSE N - 1 + 1
    BY FS_Interval
  <1>4. (IF 1 > N THEN 0 ELSE N - 1 + 1) = N
    OBVIOUS
  <1>5. /\ IsFiniteSet(S)
        /\ Cardinality(S) = Cardinality(1 .. N) <=> f \in Injection(1 .. N, S)
    BY <1>2, <1>3, FS_Surjection
  <1> QED BY <1>1, <1>3, <1>4, <1>5

LEMMA TouchedGrows ==
    ASSUME NEW changes, Changed(changes), NEW n \in 1 .. Len(changes)
    PROVE  TouchedBy(changes, n) =
             IF changes[n].type = "ttl" /\ changes[n].kind # "removed"
             THEN TouchedBy(changes, n - 1) \cup {changes[n].key}
             ELSE TouchedBy(changes, n - 1)
  <1>1. n \in Nat
    BY LenProperties DEF Changed
  <1>2. /\ \A j \in 1 .. n : j \in 1 .. (n - 1) \/ j = n
        /\ \A j \in 1 .. (n - 1) : j \in 1 .. n
        /\ n \in 1 .. n
    BY <1>1
  <1> QED BY <1>2 DEF TouchedBy

LEMMA RowsFollow ==
    ASSUME NEW changes, Changed(changes), NEW n \in 1 .. Len(changes),
           NEW walk \in Walks(changes), NEW ttls, ttls = walk.ttls,
           RowsAfter(changes, n - 1, ttls), Len(ttls) < MAX_ITEMS,
           NEW c, c = changes[n], c.type = "ttl", c.kind # "removed"
    PROVE  RowsAfter(changes, n, TtlsAfter(ttls, c))
  <1> DEFINE i == IndexOf(ttls, c.key)
             TtlRow == [key : KeysOf(changes), until : {d.until : d \in ToSet(changes)},
                     written : BOOLEAN, owner : {Unnamed}]
             N == Len(ttls)
             ttl == TtlOf(c)
  <1>1. /\ ttls \in Seq(TtlRow) /\ N \in Nat /\ DOMAIN ttls = 1 .. N
        /\ \A k \in 1 .. N : ttls[k].written \in BOOLEAN
    <2>1. ttls \in Seq(TtlRow)
      BY DEF Walks
    <2> HIDE DEF TtlRow
    <2>2. N \in Nat /\ DOMAIN ttls = 1 .. N /\ \A k \in 1 .. N : ttls[k] \in TtlRow
      BY <2>1, LenProperties, ElementOfSeq
    <2> QED BY <2>1, <2>2 DEF TtlRow
  <1>2. /\ i = 0 => \A k \in 1 .. N : ttls[k].key # c.key
        /\ i # 0 => i \in 1 .. N /\ ttls[i].key = c.key
    <2>1. 0 \notin 1 .. N
      BY <1>1
    <2> QED BY <1>1, <2>1, IndexOfFacts
  <1>3. ~(N >= MAX_ITEMS)
    BY <1>1, TraceAssumption
  <1>4. TtlsAfter(ttls, c) = IF i # 0 /\ ttls[i].written THEN ttls
                             ELSE IF i = 0 THEN Append(ttls, ttl)
                             ELSE [ttls EXCEPT ![i] = ttl]
    BY <1>3 DEF TtlsAfter
  <1>5. TouchedBy(changes, n) = TouchedBy(changes, n - 1) \cup {c.key}
    BY TouchedGrows
  <1>6. /\ ttl.key = c.key /\ ttl \in TtlRow
    <2>1. c \in ToSet(changes)
      BY LenProperties DEF Changed, ToSet
    <2> QED BY <2>1 DEF TtlOf, KeysOf
  <1>7. /\ \A k \in 1 .. N : ttls[k].key \in TouchedBy(changes, n - 1)
        /\ \A key \in TouchedBy(changes, n - 1) : \E k \in 1 .. N : ttls[k].key = key
        /\ \A k, l \in 1 .. N : ttls[k].key = ttls[l].key => k = l
        /\ \A k \in 1 .. N : RowAfter(changes, n - 1, ttls[k])
    BY <1>1 DEF RowsAfter
  <1>8. \A k \in 1 .. N : ttls[k].written \/ ttls[k].key # c.key
           => RowAfter(changes, n, ttls[k])
    <2>1. ASSUME NEW k \in 1 .. N, ttls[k].key # c.key
          PROVE  /\ ~OfTtl(changes, n, ttls[k].key, WrittenKinds)
                 /\ ~OfTtl(changes, n, ttls[k].key, {"state"})
      BY <2>1 DEF OfTtl
    <2> QED BY <1>7, <2>1, RowStays
  <1>9. ASSUME \/ i = 0
               \/ i # 0 /\ ~ttls[i].written
        PROVE  RowAfter(changes, n, ttl)
    <2>1. ASSUME NEW m \in 1 .. (n - 1), OfTtl(changes, m, c.key, WrittenKinds)
          PROVE  FALSE
      <3>1. m \in 1 .. (n - 1) /\ changes[m].key = c.key /\ changes[m].type = "ttl"
            /\ changes[m].kind # "removed"
        BY <2>1 DEF OfTtl, WrittenKinds
      <3>2. c.key \in TouchedBy(changes, n - 1)
        BY <3>1 DEF TouchedBy
      <3>3. i # 0
        BY <1>2, <1>7, <3>2
      <3>4. ~ttls[i].written /\ ttls[i].key = c.key /\ RowAfter(changes, n - 1, ttls[i])
        BY <1>2, <1>7, <1>9, <3>3
      <3>5. ~OfTtl(changes, m, c.key, WrittenKinds)
        BY <3>4, Zenon DEF RowAfter
      <3> QED BY <2>1, <3>5
    <2> QED BY <2>1, RowIsNew
  <1> HIDE DEF i, TtlRow, ttl, N
  <1>10. CASE i # 0 /\ ttls[i].written
    <2>1. TtlsAfter(ttls, c) = ttls
      BY <1>4, <1>10
    <2>2. ASSUME NEW k \in 1 .. N
          PROVE  RowAfter(changes, n, ttls[k])
      <3>1. CASE ttls[k].key = c.key
        <4>1. i \in 1 .. N /\ ttls[i].key = c.key
          BY <1>2, <1>10
        <4>2. k = i
          BY <1>7, <3>1, <4>1
        <4> QED BY <1>8, <1>10, <4>2
      <3>2. CASE ttls[k].key # c.key
        BY <1>8, <3>2, Zenon
      <3> QED BY <3>1, <3>2
    <2>3. c.key \in TouchedBy(changes, n - 1)
      BY <1>2, <1>7, <1>10
    <2>4. TouchedBy(changes, n) = TouchedBy(changes, n - 1)
      BY <1>5, <2>3
    <2>5. /\ \A k \in DOMAIN ttls : ttls[k].key \in TouchedBy(changes, n)
          /\ \A key \in TouchedBy(changes, n) : \E k \in DOMAIN ttls : ttls[k].key = key
      BY <1>1, <1>7, <2>4
    <2>6. \A k, l \in DOMAIN ttls : ttls[k].key = ttls[l].key => k = l
      BY <1>1, <1>7
    <2>7. \A k \in DOMAIN ttls : RowAfter(changes, n, ttls[k])
      BY <1>1, <2>2
    <2>8. RowsAfter(changes, n, ttls)
      BY <2>5, <2>6, <2>7, Zenon DEF RowsAfter
    <2> QED BY <2>1, <2>8
  <1>11. CASE i # 0 /\ ~ttls[i].written
    <2> DEFINE new == [ttls EXCEPT ![i] = ttl]
    <2>1. TtlsAfter(ttls, c) = new
      BY <1>4, <1>11
    <2>2. /\ DOMAIN new = 1 .. N
          /\ \A k \in 1 .. N : new[k] = IF k = i THEN ttl ELSE ttls[k]
      BY <1>1, <1>2, <1>11
    <2> HIDE DEF new
    <2>3. \A k \in 1 .. N : new[k].key = ttls[k].key
      BY <1>2, <1>6, <1>11, <2>2
    <2>4. \A k \in 1 .. N : RowAfter(changes, n, new[k])
      <3>1. \A k \in 1 .. N : k # i => ttls[k].key # c.key
        BY <1>2, <1>7, <1>11, Zenon
      <3> QED BY <1>8, <1>9, <1>11, <2>2, <3>1, Zenon
    <2>5. c.key \in TouchedBy(changes, n - 1)
      BY <1>2, <1>7, <1>11
    <2>6. TouchedBy(changes, n) = TouchedBy(changes, n - 1)
      BY <1>5, <2>5
    <2>7. \A k, l \in 1 .. N : new[k].key = new[l].key => k = l
      BY <1>7, <2>3, Zenon
    <2>8. ASSUME NEW key \in TouchedBy(changes, n)
          PROVE  \E k \in 1 .. N : new[k].key = key
      <3>1. PICK k \in 1 .. N : ttls[k].key = key
        BY <1>7, <2>6
      <3> QED BY <2>3, <3>1
    <2>9. \A k \in 1 .. N : new[k].key \in TouchedBy(changes, n)
      BY <1>7, <2>3, <2>6, Zenon
    <2> QED BY <2>1, <2>2, <2>4, <2>7, <2>8, <2>9, Zenon DEF RowsAfter
  <1>12. CASE i = 0
    <2> DEFINE new == Append(ttls, ttl)
    <2>1. TtlsAfter(ttls, c) = new
      BY <1>4, <1>12
    <2>2. /\ DOMAIN new = 1 .. N + 1
          /\ \A k \in 1 .. N : new[k] = ttls[k]
          /\ new[N + 1] = ttl
      BY <1>1, <1>6 DEF N
    <2>3. /\ \A k \in 1 .. N + 1 : k \in 1 .. N \/ k = N + 1
          /\ \A k \in 1 .. N : k \in 1 .. N + 1
          /\ N + 1 \in 1 .. N + 1
      BY <1>1
    <2> HIDE DEF new
    <2>4. \A k \in 1 .. N + 1 : RowAfter(changes, n, new[k])
      BY <1>2, <1>8, <1>9, <1>12, <2>2, <2>3, Zenon
    <2>5. ASSUME NEW k \in 1 .. N + 1, NEW l \in 1 .. N + 1, new[k].key = new[l].key
          PROVE  k = l
      <3>1. \A m \in 1 .. N : new[m].key # c.key
        BY <1>2, <1>12, <2>2
      <3>2. new[N + 1].key = c.key
        BY <1>6, <2>2
      <3>3. CASE k = N + 1 \/ l = N + 1
        BY <2>3, <2>5, <3>1, <3>2, <3>3
      <3>4. CASE k \in 1 .. N /\ l \in 1 .. N
        BY <1>7, <2>2, <2>5, <3>4
      <3> QED BY <2>3, <3>3, <3>4
    <2>6. \A key \in TouchedBy(changes, n) : \E k \in 1 .. N + 1 : new[k].key = key
      BY <1>5, <1>6, <1>7, <2>2, <2>3
    <2>7. \A k \in 1 .. N + 1 : new[k].key \in TouchedBy(changes, n)
      BY <1>5, <1>6, <1>7, <2>2, <2>3
    <2>8. \A k, l \in 1 .. N + 1 : new[k].key = new[l].key => k = l
      BY <2>5, Zenon
    <2>9. RowsAfter(changes, n, new)
      BY <2>2, <2>4, <2>6, <2>7, <2>8, Zenon DEF RowsAfter
    <2> QED BY <2>1, <2>9, Zenon
  <1> QED BY <1>10, <1>11, <1>12

-----------------------------------------------------------------------------
\* The lifetimes a page lists.

LEMMA TouchedIsFinite ==
    ASSUME NEW changes, Changed(changes), NEW n \in 0 .. Len(changes)
    PROVE  /\ IsFiniteSet(TouchedBy(changes, n))
           /\ TouchedBy(changes, n) \subseteq TouchedTtls(changes)
           /\ IsFiniteSet(TouchedTtls(changes))
           /\ TouchedTtls(changes) = TouchedBy(changes, Len(changes))
  <1> DEFINE N == Len(changes)
             Places(m) == {j \in 1 .. m : changes[j].type = "ttl" /\ changes[j].kind # "removed"}
             Key(m) == [i \in Places(m) |-> changes[i].key]
  <1>1. N \in Nat /\ DOMAIN changes = 1 .. N
    BY LenProperties DEF Changed
  <1>2. ASSUME NEW m \in 0 .. N
        PROVE  IsFiniteSet(TouchedBy(changes, m))
    <2>1. IsFiniteSet(1 .. m)
      BY <1>1, FS_Interval
    <2>2. IsFiniteSet(Places(m))
      BY <2>1, FS_Subset
    <2>3. Key(m) \in Surjection(Places(m), TouchedBy(changes, m))
      BY DEF Surjection, TouchedBy
    <2> QED BY <2>2, <2>3, FS_Surjection
  <1>3. TouchedTtls(changes) = TouchedBy(changes, N)
    BY <1>1 DEF TouchedTtls, TouchedBy
  <1>4. TouchedBy(changes, n) \subseteq TouchedBy(changes, N)
    <2>1. \A j \in 1 .. n : j \in 1 .. N
      BY <1>1
    <2> QED BY <2>1 DEF TouchedBy
  <1>5. n \in 0 .. N /\ N \in 0 .. N
    BY <1>1
  <1> QED BY <1>2, <1>3, <1>4, <1>5

\* The keys that may own a lifetime, among the first n changes.
OwnersBy(changes, n) ==
    {changes[i].key : i \in {j \in 1 .. n : changes[j].type \in {"data", "code"}}}

Followed(changes, n, walk) ==
    /\ walk \in Walks(changes)
    /\ RowsAfter(changes, n, walk.ttls)
    /\ ToSet(walk.candidates) \subseteq OwnersBy(changes, n)

\* Each row is of one key, so the list is as long as its keys are many.
LEMMA RowsCounted ==
    ASSUME NEW changes, Changed(changes), NEW n \in 0 .. Len(changes), NEW walk,
           Followed(changes, n, walk)
    PROVE  /\ walk.ttls \in Seq(ToSet(walk.ttls))
           /\ Len(walk.ttls) = Cardinality(TouchedBy(changes, n))
  <1> DEFINE ttls == walk.ttls
             N == Len(ttls)
             f == [i \in 1 .. N |-> ttls[i].key]
             TtlRow == [key : KeysOf(changes), until : {d.until : d \in ToSet(changes)},
                     written : BOOLEAN, owner : {Unnamed}]
  <1>1. ttls \in Seq(TtlRow) /\ RowsAfter(changes, n, ttls)
    BY DEF Followed, Walks
  <1> HIDE DEF TtlRow, ttls
  <1>2. N \in Nat /\ DOMAIN ttls = 1 .. N /\ ttls \in Seq(ToSet(ttls))
    <2>1. N \in Nat /\ DOMAIN ttls = 1 .. N
      BY <1>1, LenProperties
    <2>2. \A i \in 1 .. N : ttls[i] \in ToSet(ttls)
      BY <2>1 DEF ToSet
    <2>3. ttls = [i \in 1 .. N |-> ttls[i]]
      BY <1>1, <2>1
    <2> QED BY <2>1, <2>2, <2>3, SeqDef
  <1>3. /\ \A i \in 1 .. N : ttls[i].key \in TouchedBy(changes, n)
        /\ \A key \in TouchedBy(changes, n) : \E i \in 1 .. N : ttls[i].key = key
        /\ \A i, j \in 1 .. N : ttls[i].key = ttls[j].key => i = j
    BY <1>1, <1>2 DEF RowsAfter
  <1>4. f \in [1 .. N -> TouchedBy(changes, n)]
    BY <1>3
  <1>5. /\ \A i, j \in 1 .. N : f[i] = f[j] => i = j
        /\ \A key \in TouchedBy(changes, n) : \E i \in 1 .. N : f[i] = key
    BY <1>3
  <1> HIDE DEF f, N
  <1>6. Cardinality(TouchedBy(changes, n)) = N
    BY <1>2, <1>4, <1>5, CardinalityOfList
  <1> QED BY <1>2, <1>6 DEF ttls, N

LEMMA NothingFollowed ==
    ASSUME NEW changes
    PROVE  Followed(changes, 0, NoChanges)
  <1>1. NoChanges \in Walks(changes)
    BY NoChangesIsAWalk
  <1>2. NoChanges.ttls = <<>> /\ NoChanges.candidates = <<>>
    BY DEF NoChanges
  <1>3. DOMAIN NoChanges.ttls = {} /\ ToSet(NoChanges.candidates) = {}
    BY <1>2 DEF ToSet
  <1>4. TouchedBy(changes, 0) = {}
    BY DEF TouchedBy
  <1> QED BY <1>1, <1>3, <1>4, Zenon DEF Followed, RowsAfter

LEMMA ChangeFollowed ==
    ASSUME NEW changes, Changed(changes), Cardinality(TouchedTtls(changes)) < MAX_ITEMS,
           NEW n \in 1 .. Len(changes), NEW walk, Followed(changes, n - 1, walk)
    PROVE  Followed(changes, n, Push(walk, changes[n]))
  <1> DEFINE c == changes[n]
             after == Push(walk, c)
  <1>1. n \in Nat /\ n - 1 \in 0 .. Len(changes) /\ n \in DOMAIN changes /\ c \in ToSet(changes)
    BY LenProperties DEF Changed, ToSet
  <1>2. walk \in Walks(changes) /\ RowsAfter(changes, n - 1, walk.ttls)
        /\ ToSet(walk.candidates) \subseteq OwnersBy(changes, n - 1)
    BY DEF Followed
  <1>3. /\ after \in Walks(changes)
        /\ c.type # "ttl" => after.ttls = walk.ttls
        /\ c.type = "ttl" => after = PushTtl(walk, c)
        /\ \A key \in ToSet(after.candidates) :
             \/ key \in ToSet(walk.candidates)
             \/ c.type \in {"data", "code"} /\ key = c.key
    BY <1>1, <1>2, PushStays
  <1>4. ToSet(after.candidates) \subseteq OwnersBy(changes, n)
    <2>1. \A j \in 1 .. (n - 1) : j \in 1 .. n
      BY <1>1
    <2>2. OwnersBy(changes, n - 1) \subseteq OwnersBy(changes, n)
      BY <2>1 DEF OwnersBy
    <2>3. n \in 1 .. n
      BY <1>1
    <2>4. c.type \in {"data", "code"} => c.key \in OwnersBy(changes, n)
      BY <2>3 DEF OwnersBy
    <2> HIDE DEF after, c
    <2> QED BY <1>2, <1>3, <2>2, <2>4
  <1>5. Len(walk.ttls) < MAX_ITEMS
    <2> DEFINE few == Cardinality(TouchedBy(changes, n - 1))
               all == Cardinality(TouchedTtls(changes))
    <2>1. Len(walk.ttls) = few
      BY <1>1, RowsCounted
    <2>2. few \in Nat /\ all \in Nat /\ few <= all
      BY <1>1, TouchedIsFinite, FS_Subset, FS_CardinalityType
    <2>3. all < MAX_ITEMS /\ MAX_ITEMS \in Nat
      BY TraceAssumption
    <2> HIDE DEF few, all
    <2> QED BY <2>1, <2>2, <2>3
  <1>6. CASE c.type = "ttl" /\ c.kind # "removed"
    <2>1. after.ttls = TtlsAfter(walk.ttls, c)
      BY <1>1, <1>2, <1>3, <1>6, PushTtlFacts
    <2>2. RowsAfter(changes, n, TtlsAfter(walk.ttls, c))
      BY <1>2, <1>5, <1>6, RowsFollow
    <2> QED BY <1>3, <1>4, <2>1, <2>2 DEF Followed
  <1>7. CASE c.type # "ttl" \/ c.kind = "removed"
    <2>1. after.ttls = walk.ttls
      <3>1. CASE c.type # "ttl"
        BY <1>3, <3>1
      <3>2. CASE c.type = "ttl"
        <4>1. after.ttls = TtlsAfter(walk.ttls, c)
          BY <1>1, <1>2, <1>3, <3>2, PushTtlFacts
        <4>2. c.kind = "removed"
          BY <1>7, <3>2
        <4> HIDE DEF after, c
        <4> QED BY <4>1, <4>2 DEF TtlsAfter
      <3> QED BY <3>1, <3>2
    <2>2. RowsAfter(changes, n, walk.ttls)
      BY <1>2, <1>7, RowsStay
    <2> QED BY <1>3, <1>4, <2>1, <2>2 DEF Followed
  <1> QED BY <1>6, <1>7

LEMMA WalkFollowed ==
    ASSUME NEW changes, Changed(changes), Cardinality(TouchedTtls(changes)) < MAX_ITEMS
    PROVE  Followed(changes, Len(changes), WalkChanges(changes))
  <1>1. PICK walked : IsWalk(changes, walked)
    BY WalkSteps
  <1> DEFINE N == Len(changes)
             S == {n \in 0 .. N : Followed(changes, n, walked[n])}
  <1>2. N \in Nat /\ 0 \in 0 .. N /\ N \in 0 .. N
    BY LenProperties DEF Changed
  <1>3. 0 \in S
    BY <1>1, <1>2, NothingFollowed DEF IsWalk
  <1>4. ASSUME NEW n \in 1 .. N, n - 1 \in S
        PROVE  n \in S
    <2>1. walked[n] = Push(walked[n - 1], changes[n]) /\ n \in 0 .. N
      BY <1>1, <1>2 DEF IsWalk
    <2>2. Followed(changes, n - 1, walked[n - 1])
      BY <1>4
    <2> QED BY <2>1, <2>2, ChangeFollowed
  <1> HIDE DEF S
  <1>5. N \in S
    BY <1>2, <1>3, <1>4, UpTo
  <1> QED BY <1>1, <1>5 DEF IsWalk, S

\* What a row says in the end is what the changes say of its key.
LEMMA RowIsTheLifetime ==
    ASSUME NEW changes, Changed(changes), NEW row, RowAfter(changes, Len(changes), row),
           row.written \in BOOLEAN
    PROVE  row.until = LifetimeOf(changes, row.key)
  <1> DEFINE N == Len(changes)
             written == ChangesOf(changes, row.key, WrittenKinds)
             before == ChangesOf(changes, row.key, {"state"})
  <1>1. N \in Nat /\ DOMAIN changes = 1 .. N
    BY LenProperties DEF Changed
  <1>2. /\ written = {m \in 1 .. N : OfTtl(changes, m, row.key, WrittenKinds)}
        /\ before = {m \in 1 .. N : OfTtl(changes, m, row.key, {"state"})}
    BY <1>1 DEF ChangesOf, OfTtl
  <1>3. LifetimeOf(changes, row.key) =
          changes[IF written # {} THEN Min(written) ELSE Max(before)].until
    BY Zenon DEF LifetimeOf, WrittenKinds
  <1>4. PICK j \in 1 .. N :
      /\ row.until = changes[j].until
      /\ row.written =>
           /\ OfTtl(changes, j, row.key, WrittenKinds)
           /\ \A m \in 1 .. N : OfTtl(changes, m, row.key, WrittenKinds) => j <= m
      /\ ~row.written =>
           /\ OfTtl(changes, j, row.key, {"state"})
           /\ \A m \in 1 .. N : ~OfTtl(changes, m, row.key, WrittenKinds)
           /\ \A m \in 1 .. N : OfTtl(changes, m, row.key, {"state"}) => m <= j
    BY Zenon DEF RowAfter
  <1> HIDE DEF N, written, before
  <1>5. CASE row.written
    <2>1. j \in written /\ \A m \in written : j <= m
      BY <1>2, <1>4, <1>5, Zenon
    <2>2. written \in SUBSET Nat /\ written # {}
      BY <1>1, <1>2, <2>1
    <2>3. Min(written) \in written /\ \A m \in written : Min(written) <= m
      BY <2>2, MinOfPart
    <2>4. Min(written) <= j /\ j <= Min(written) /\ Min(written) \in Nat /\ j \in Nat
      BY <2>1, <2>2, <2>3
    <2>5. Min(written) = j
      BY <2>4
    <2> QED BY <1>3, <1>4, <2>2, <2>5
  <1>6. CASE ~row.written
    <2>1. written = {}
      BY <1>2, <1>4, <1>6, Zenon
    <2>2. j \in before /\ \A m \in before : m <= j
      BY <1>2, <1>4, <1>6, Zenon
    <2>3. before \in SUBSET (1 .. N) /\ before # {}
      BY <1>2, <2>2
    <2>4. Max(before) \in before /\ \A m \in before : m <= Max(before)
      BY <1>1, <2>3, MaxOfPart
    <2>5. Max(before) <= j /\ j <= Max(before) /\ Max(before) \in Nat /\ j \in Nat
      <3>1. Max(before) \in 1 .. N /\ j \in 1 .. N
        BY <2>3, <2>4
      <3>2. Max(before) \in Nat /\ j \in Nat
        BY <1>1, <3>1
      <3> QED BY <2>2, <2>4, <3>2
    <2>6. Max(before) = j
      BY <2>5
    <2> QED BY <1>3, <1>4, <2>1, <2>6
  <1> QED BY <1>5, <1>6

\* Rows with owners beside those of a walk.
OwnedRows(rows, walk, digest) ==
    /\ DOMAIN rows = DOMAIN walk.ttls /\ Len(rows) = Len(walk.ttls)
    /\ \A i \in DOMAIN rows :
         /\ rows[i].key = walk.ttls[i].key
         /\ rows[i].until = walk.ttls[i].until
         /\ rows[i].owner \in {rows[i].key, Unnamed}
         /\ rows[i].owner # Unnamed =>
              digest /\ rows[i].key \in ToSet(walk.candidates)

\* Nothing of a trace but its rows' owners is decided after the walk.
LEMMA OwnersResolved ==
    ASSUME NEW changes, NEW walk \in Walks(changes), NEW digest
    PROVE  OwnedRows(ResolveTtlOwners(walk, digest).ttls, walk, digest)
  <1> DEFINE rows == ResolveTtlOwners(walk, digest).ttls
             ttls == walk.ttls
             N == Len(ttls)
             TtlRow == [key : KeysOf(changes), until : {d.until : d \in ToSet(changes)},
                     written : BOOLEAN, owner : {Unnamed}]
             Owner(i) == IF Contains(walk.candidates, ttls[i].key)
                         THEN ttls[i].key ELSE Unnamed
             named == [i \in DOMAIN ttls |-> [ttls[i] EXCEPT !.owner = Owner(i)]]
  <1>1. ttls \in Seq(TtlRow)
    BY DEF Walks
  <1>2. N \in Nat /\ DOMAIN ttls = 1 .. N /\ \A i \in 1 .. N : ttls[i] \in TtlRow
    <2> HIDE DEF TtlRow
    <2> QED BY <1>1, LenProperties, ElementOfSeq
  <1>3. \A i \in 1 .. N : ttls[i].owner = Unnamed
    BY <1>2
  <1>4. CASE ~digest
    <2>1. rows = ttls
      BY <1>4 DEF ResolveTtlOwners
    <2> HIDE DEF ttls, N, rows
    <2>2. \A i \in DOMAIN rows : rows[i].owner = Unnamed
      BY <1>2, <1>3, <2>1
    <2>3. OwnedRows(rows, walk, digest)
      BY <2>1, <2>2, Zenon DEF ttls, OwnedRows
    <2> QED BY <2>3 DEF rows
  <1>5. CASE digest
    <2>1. rows = named
      BY <1>5 DEF ResolveTtlOwners, Walks
    <2>2. DOMAIN rows = 1 .. N /\ Len(rows) = N
      BY <1>2, <2>1
    <2>3. ASSUME NEW i \in 1 .. N
          PROVE  /\ rows[i].key = ttls[i].key /\ rows[i].until = ttls[i].until
                 /\ rows[i].owner = Owner(i)
      BY <1>2, <2>1
    <2>4. ASSUME NEW i \in 1 .. N, Contains(walk.candidates, ttls[i].key)
          PROVE  ttls[i].key \in ToSet(walk.candidates)
      <3> DEFINE list == walk.candidates
      <3>1. list \in Seq(KeysOf(changes))
        BY DEF Walks
      <3> HIDE DEF list
      <3>2. DOMAIN list = 1 .. Len(list)
        BY <3>1
      <3> QED BY <2>4, <3>2 DEF Contains, ToSet, list
    <2>5. ASSUME NEW i \in 1 .. N
          PROVE  /\ rows[i].owner \in {rows[i].key, Unnamed}
                 /\ \/ rows[i].owner # Unnamed =>
                     digest /\ rows[i].key \in ToSet(walk.candidates)
      <3>1. CASE Contains(walk.candidates, ttls[i].key)
        BY <1>5, <2>3, <2>4, <3>1
      <3>2. CASE ~Contains(walk.candidates, ttls[i].key)
        BY <2>3, <3>2
      <3> QED BY <3>1, <3>2
    <2>6. DOMAIN rows = DOMAIN ttls /\ Len(rows) = Len(ttls)
      BY <1>2, <2>2
    <2> HIDE DEF named, ttls, N, Owner, rows
    <2>7. OwnedRows(rows, walk, digest)
      BY <2>2, <2>3, <2>5, <2>6, Zenon DEF ttls, OwnedRows
    <2> QED BY <2>7 DEF rows
  <1> QED BY <1>4, <1>5

\* The trace on the page is the one its transaction yields.
TraceOf ==
    /\ tx = record.meta
    /\ decoded \in BOOLEAN
    /\ decoded => trace = DecodeTrace

LEMMA TraceIsDecoded == RecordSpec => []TraceOf
  <1>1. RecordInit => TraceOf
    BY DEF RecordInit, TraceInit, TraceOf
  <1>2. TraceOf /\ [RecordNext]_recordVars => TraceOf'
    <2> SUFFICES ASSUME TraceOf, [RecordNext]_recordVars PROVE TraceOf'
      OBVIOUS
    <2>1. CASE WalkTheStream /\ record' = record
      BY <2>1 DEF TraceOf, WalkTheStream
    <2>2. CASE Decode /\ record' = record
      <3>1. DecodeTrace' = DecodeTrace
        BY <2>2 DEF Decode, DecodeTrace, FromEnvelope, FromMeta, WalkEnvelope, UnderNode,
                    OnNode, NothingFound, vars, hostVars, walkVars
      <3> QED BY <2>2, <3>1, Zenon DEF TraceOf, Decode
    <2>3. CASE UNCHANGED recordVars
      <3>1. DecodeTrace' = DecodeTrace
        BY <2>3 DEF recordVars, traceVars, DecodeTrace, FromEnvelope, FromMeta, WalkEnvelope,
                    UnderNode, OnNode, NothingFound, vars, hostVars, walkVars
      <3> QED BY <2>3, <3>1, Zenon DEF TraceOf, recordVars, traceVars
    <2> QED BY <2>1, <2>2, <2>3 DEF RecordNext, TraceNext
  <1> QED BY <1>1, <1>2, PTL DEF RecordSpec

LEMMA RecordLifetimes ==
    ASSUME KnownRecord, TraceOf
    PROVE  LifetimesAreRight
  <1> DEFINE changes == tx.changes
             walk == WalkChanges(changes)
             N == Len(changes)
             rows == trace.ttls
  <1>1. SUFFICES ASSUME decoded, tx.meta = "soroban",
                        Cardinality(TouchedTtls(changes)) < MAX_ITEMS
                 PROVE  /\ Len(rows) = Cardinality(TouchedTtls(changes))
                        /\ \A i \in DOMAIN rows :
                             LET row == rows[i]
                                 owners == {j \in DOMAIN changes :
                                              /\ changes[j].type \in {"data", "code"}
                                              /\ changes[j].key = row.key}
                             IN  /\ row.key \in TouchedTtls(changes)
                                 /\ row.until = LifetimeOf(changes, row.key)
                                 /\ row.owner \in {row.key, Unnamed}
                                 /\ row.owner = row.key => tx.digest /\ owners # {}
    BY Zenon DEF LifetimesAreRight, Decoded
  <1>2. Changed(changes)
    BY RecordsAssumption DEF KnownRecord, TraceOf
  <1>3. rows = ResolveTtlOwners(walk, tx.digest).ttls
    <2>1. trace = FromEnvelope(FromMeta)
      BY <1>1, Zenon DEF TraceOf, DecodeTrace
    <2>2. FromMeta.ttls = ResolveTtlOwners(walk, tx.digest).ttls
      BY <1>1 DEF FromMeta, NothingFound
    <2>3. FromEnvelope(FromMeta).ttls = FromMeta.ttls
      <3>1. \A calls_ : [FromMeta EXCEPT !.calls = calls_, !.source = "auth"].ttls
                           = FromMeta.ttls
        BY <1>1 DEF FromMeta, NothingFound
      <3> QED BY <3>1 DEF FromEnvelope
    <2> QED BY <2>1, <2>2, <2>3
  <1> HIDE DEF changes
  <1>4. Followed(changes, N, walk) /\ walk \in Walks(changes) /\ RowsAfter(changes, N, walk.ttls)
    BY <1>1, <1>2, WalkFollowed DEF Followed
  <1>5. N \in Nat /\ N \in 0 .. N /\ DOMAIN changes = 1 .. N
    BY <1>2, LenProperties DEF Changed
  <1>6. /\ Len(walk.ttls) = Cardinality(TouchedBy(changes, N))
        /\ TouchedTtls(changes) = TouchedBy(changes, N)
    BY <1>2, <1>4, <1>5, RowsCounted, TouchedIsFinite
  <1> HIDE DEF walk, rows
  <1>7. OwnedRows(rows, walk, tx.digest)
    BY <1>3, <1>4, OwnersResolved
  <1>8. ASSUME NEW i \in DOMAIN rows
        PROVE  /\ rows[i].key \in TouchedTtls(changes)
               /\ rows[i].until = LifetimeOf(changes, rows[i].key)
               /\ rows[i].owner \in {rows[i].key, Unnamed}
               /\ rows[i].owner = rows[i].key =>
                    /\ tx.digest
                    /\ {j \in DOMAIN changes : /\ changes[j].type \in {"data", "code"}
                                               /\ changes[j].key = rows[i].key} # {}
    <2>0. /\ rows[i].key = walk.ttls[i].key /\ rows[i].until = walk.ttls[i].until
          /\ rows[i].owner \in {rows[i].key, Unnamed}
          /\ rows[i].owner # Unnamed => rows[i].key \in ToSet(walk.candidates)
          /\ i \in DOMAIN walk.ttls
      BY <1>7, Zenon DEF OwnedRows
    <2>1. i \in DOMAIN walk.ttls /\ (rows[i].owner # Unnamed => tx.digest)
      BY <1>7, Zenon DEF OwnedRows
    <2>2. walk.ttls[i].key \in TouchedTtls(changes) /\ RowAfter(changes, N, walk.ttls[i])
      BY <1>4, <1>6, <2>1 DEF RowsAfter
    <2>3. walk.ttls[i].written \in BOOLEAN /\ walk.ttls[i].key \in KeysOf(changes)
      <3> DEFINE TtlRow == [key : KeysOf(changes), until : {d.until : d \in ToSet(changes)},
                         written : BOOLEAN, owner : {Unnamed}]
      <3>1. walk.ttls \in Seq(TtlRow)
        BY <1>4 DEF Walks
      <3> HIDE DEF TtlRow
      <3>2. walk.ttls[i] \in TtlRow
        BY <2>1, <3>1, LenProperties, ElementOfSeq
      <3> QED BY <3>2 DEF TtlRow
    <2>4. walk.ttls[i].until = LifetimeOf(changes, walk.ttls[i].key)
      BY <1>2, <2>2, <2>3, RowIsTheLifetime
    <2>5. rows[i].key # Unnamed
      BY <1>2, <2>0, <2>3 DEF Changed, KeysOf
    <2>6. ASSUME rows[i].key \in ToSet(walk.candidates)
          PROVE  {j \in DOMAIN changes : /\ changes[j].type \in {"data", "code"}
                                         /\ changes[j].key = rows[i].key} # {}
      <3>1. rows[i].key \in OwnersBy(changes, N)
        BY <1>4, <2>6 DEF Followed
      <3>2. PICK j \in 1 .. N : changes[j].type \in {"data", "code"} /\ changes[j].key = rows[i].key
        BY <3>1 DEF OwnersBy
      <3> QED BY <1>5, <3>2
    <2>7. /\ rows[i].key \in TouchedTtls(changes)
          /\ rows[i].until = LifetimeOf(changes, rows[i].key)
          /\ rows[i].owner = rows[i].key => rows[i].owner # Unnamed
      BY <2>0, <2>2, <2>4, <2>5
    <2> QED BY <2>0, <2>1, <2>6, <2>7, Zenon
  <1>9. Len(rows) = Len(walk.ttls)
    BY <1>7 DEF OwnedRows
  <1> QED BY <1>6, <1>8, <1>9, Zenon

\* Whatever a transaction changed, in any number and order of changes below
\* the cap of the list: the page lists each lifetime once, as it was written.
THEOREM LifetimesAreTold == RecordSpec => []LifetimesAreRight
  <1>1. KnownRecord /\ TraceOf => LifetimesAreRight
    BY RecordLifetimes
  <1> QED BY <1>1, RecordStays, TraceIsDecoded, PTL

-----------------------------------------------------------------------------
\* What a list of steps leads to, step by step.
IsAlong(P, N, b, G) == P[0] = b /\ \A n \in 1 .. N : P[n] = G[n][P[n - 1]]

LEMMA Along ==
    ASSUME NEW N \in Nat, NEW A, NEW b \in A, NEW G \in [1 .. N -> [A -> A]]
    PROVE  \E P \in [0 .. N -> A] : IsAlong(P, N, b, G)
  <1>1. PICK it \in [SUBSET (1 .. N) -> A] : FoldOver(it, N, b, G)
    BY FoldExists
  <1> DEFINE P == [n \in 0 .. N |-> it[1 .. n]]
  <1>2. P \in [0 .. N -> A]
    <2>1. \A n \in 0 .. N : 1 .. n \in SUBSET (1 .. N)
      OBVIOUS
    <2> QED BY <1>1, <2>1
  <1>3. P[0] = b
    <2>1. 1 .. 0 = {} /\ 1 .. 0 \in SUBSET (1 .. N) /\ 0 \in 0 .. N
      OBVIOUS
    <2> QED BY <1>1, <2>1 DEF FoldOver
  <1>4. ASSUME NEW n \in 1 .. N
        PROVE  P[n] = G[n][P[n - 1]]
    <2>1. n \in 0 .. N /\ n - 1 \in 0 .. N
      OBVIOUS
    <2>2. /\ 1 .. n \in SUBSET (1 .. N) /\ 1 .. n # {}
          /\ Max(1 .. n) = n /\ (1 .. n) \ {n} = 1 .. (n - 1)
      BY Prefix
    <2>3. it[1 .. n] = G[n][it[1 .. (n - 1)]]
      BY <1>1, <2>2 DEF FoldOver
    <2> QED BY <2>1, <2>3
  <1> HIDE DEF P
  <1> QED BY <1>2, <1>3, <1>4 DEF IsAlong

-----------------------------------------------------------------------------
\* The bytes of an envelope.

LEMMA PaddedFacts ==
    ASSUME NEW n \in Nat PROVE Padded(n) \in Nat /\ Padded(n) >= n
  <1>1. n % 4 \in 0 .. 3
    OBVIOUS
  <1>2. (4 - (n % 4)) % 4 \in 0 .. 3
    BY <1>1
  <1> QED BY <1>2 DEF Padded

LEMMA Wider ==
    ASSUME NEW S, NEW T, S \subseteq T, NEW s \in Seq(S)
    PROVE  s \in Seq(T)
  <1>1. Len(s) \in Nat /\ \A i \in 1 .. Len(s) : s[i] \in T
    BY LenProperties, ElementOfSeq
  <1>2. s = [i \in 1 .. Len(s) |-> s[i]]
    BY LenProperties
  <1> QED BY <1>1, <1>2, SeqDef

Numbers == Nat

\* Where the signatures of a list start.
LEMMA Offsets ==
    ASSUME NEW signatures, NEW N \in Nat, Len(signatures) = N,
           \A n \in 1 .. N : Len(signatures[n]) \in Nat
    PROVE  /\ OffsetOf(signatures) \in [0 .. N -> Nat]
           /\ OffsetOf(signatures)[0] = 0
           /\ \A n \in 1 .. N :
                OffsetOf(signatures)[n]
                  = OffsetOf(signatures)[n - 1] + 8 + Padded(Len(signatures[n]))
  <1> DEFINE w == [n \in 1 .. N |-> Padded(Len(signatures[n]))]
             Runs(f) == f = [n \in 0 .. Len(signatures) |->
                               IF n = 0 THEN 0
                               ELSE f[n - 1] + 8 + Padded(Len(signatures[n]))]
             run == CHOOSE f : Runs(f)
             G == [n \in 1 .. N |-> [v \in Nat |-> v + 8 + w[n]]]
  <1>1. w \in [1 .. N -> Nat] /\ \A n \in 1 .. N : w[n] = Padded(Len(signatures[n]))
    <2>1. ASSUME NEW n \in 1 .. N PROVE Padded(Len(signatures[n])) \in Nat
      BY PaddedFacts
    <2> QED BY <2>1
  <1> HIDE DEF w
  <1>2. G \in [1 .. N -> [Nat -> Nat]]
    BY <1>1
  <1>3. \E f : Runs(f)
    <2>1. PICK P \in [0 .. N -> Nat] : P[0] = 0 /\ \A n \in 1 .. N : P[n] = G[n][P[n - 1]]
      <3> DEFINE b == 0
      <3>1. b \in Numbers /\ G \in [1 .. N -> [Numbers -> Numbers]]
        BY <1>2 DEF Numbers
      <3> HIDE DEF G, b, Runs
      <3>2. \E P \in [0 .. N -> Numbers] : IsAlong(P, N, b, G)
        BY <3>1, Along
      <3> QED BY <3>2 DEF Numbers, b, IsAlong
    <2>2. ASSUME NEW n \in 0 .. N
          PROVE  P[n] = IF n = 0 THEN 0 ELSE P[n - 1] + 8 + Padded(Len(signatures[n]))
      <3>1. CASE n = 0
        BY <2>1, <3>1
      <3>2. CASE n # 0
        <4>1. n \in 1 .. N /\ n - 1 \in 0 .. N
          BY <3>2
        <4>2. P[n - 1] \in Nat
          BY <4>1
        <4> QED BY <1>1, <2>1, <3>2, <4>1, <4>2
      <3> QED BY <3>1, <3>2
    <2>3. Runs(P)
      BY <2>2
    <2> QED BY <2>3
  <1>4. Runs(run)
    BY <1>3
  <1>5. OffsetOf(signatures) = run
    BY Zenon DEF OffsetOf
  <1> HIDE DEF run
  <1>6. run[0] = 0
    BY <1>4
  <1>7. ASSUME NEW n \in 1 .. N
        PROVE  run[n] = run[n - 1] + 8 + w[n]
    <2>1. n \in 0 .. N /\ n # 0
      OBVIOUS
    <2> QED BY <1>1, <1>4, <2>1
  <1> DEFINE S == {n \in 0 .. N : run[n] \in Nat}
  <1>8. 0 \in S /\ \A n \in 1 .. N : n - 1 \in S => n \in S
    <2>1. 0 \in 0 .. N /\ \A n \in 1 .. N : n \in 0 .. N
      BY <1>1
    <2>2. ASSUME NEW n \in 1 .. N, run[n - 1] \in Nat PROVE run[n] \in Nat
      BY <1>1, <1>7, <2>2
    <2> QED BY <1>6, <2>1, <2>2
  <1> HIDE DEF S
  <1>9. \A n \in 0 .. N : n \in S
    BY <1>8, UpTo
  <1>10. run \in [0 .. N -> Nat]
    BY <1>4, <1>9 DEF S
  <1> QED BY <1>1, <1>5, <1>6, <1>7, <1>10

\* One decorated signature.
IsHint(hint) == hint \in Seq(Nat) /\ Len(hint) = 4

Holds(entry, hint, signature) ==
    /\ entry \in Seq(Nat)
    /\ Len(entry) = 8 + Padded(Len(signature))
    /\ \A p \in 1 .. 4 : entry[p] = hint[p]
    /\ entry[5] = 0 /\ entry[6] = 0 /\ entry[7] = 0
    /\ entry[8] = Len(signature)
    /\ \A p \in 1 .. Len(signature) : entry[8 + p] = signature[p]

LEMMA EntryFacts ==
    ASSUME NEW d, IsHint(d.hint), d.signature \in Seq(Nat)
    PROVE  Holds(Entry(d), d.hint, d.signature)
  <1> DEFINE hint == d.hint
             signature == d.signature
             L == Len(signature)
             K == Padded(L) - L
             zeros == [i \in 1 .. K |-> 0]
             size == U32(L)
             head == hint \o size
             most == head \o signature
             entry == most \o zeros
  <1>1. L \in Nat /\ Padded(L) \in Nat /\ K \in Nat /\ L + K = Padded(L)
    <2>1. L \in Nat
      OBVIOUS
    <2>2. Padded(L) \in Nat /\ Padded(L) >= L
      BY <2>1, PaddedFacts
    <2> QED BY <2>1, <2>2
  <1>2. Entry(d) = entry
    BY DEF Entry
  <1>3. zeros \in Seq(Nat) /\ Len(zeros) = K
    <2> HIDE DEF K
    <2>1. zeros \in Seq(Nat)
      BY <1>1, SeqDef
    <2> QED BY <1>1, <2>1
  <1>4. /\ size \in Seq(Nat) /\ Len(size) = 4
        /\ size[1] = 0 /\ size[2] = 0 /\ size[3] = 0 /\ size[4] = L
    BY <1>1 DEF U32
  <1>5. hint \in Seq(Nat) /\ size \in Seq(Nat) /\ signature \in Seq(Nat)
    BY <1>4 DEF IsHint
  <1> HIDE DEF hint, signature, L, K, zeros, size, head, most, entry
  <1>6. head \in Seq(Nat) /\ Len(head) = Len(hint) + Len(size)
    BY <1>5 DEF head
  <1>7. ASSUME NEW p \in 1 .. Len(hint) PROVE head[p] = hint[p]
    BY <1>5 DEF head
  <1>8. ASSUME NEW p \in 1 .. Len(size) PROVE head[Len(hint) + p] = size[p]
    BY <1>5 DEF head
  <1>10. head \in Seq(Nat) /\ signature \in Seq(Nat)
    BY <1>5, <1>6
  <1>9. most \in Seq(Nat) /\ Len(most) = Len(head) + Len(signature)
    BY <1>10 DEF most
  <1>11. ASSUME NEW p \in 1 .. Len(head) PROVE most[p] = head[p]
    BY <1>10 DEF most
  <1>12. ASSUME NEW p \in 1 .. Len(signature) PROVE most[Len(head) + p] = signature[p]
    BY <1>10 DEF most
  <1>14. most \in Seq(Nat) /\ zeros \in Seq(Nat)
    BY <1>3, <1>9
  <1>13. entry \in Seq(Nat) /\ Len(entry) = Len(most) + Len(zeros)
    BY <1>14 DEF entry
  <1>15. ASSUME NEW p \in 1 .. Len(most) PROVE entry[p] = most[p]
    BY <1>14 DEF entry
  <1>16. Len(hint) = 4 /\ Len(head) = 8 /\ Len(most) = 8 + L /\ Len(entry) = 8 + Padded(L)
    <2>1. Len(hint) = 4
      BY DEF IsHint, hint
    <2>2. Len(head) = 8
      BY <1>4, <1>6, <2>1
    <2>3. Len(most) = 8 + L
      BY <1>9, <2>2 DEF L
    <2> QED BY <1>1, <1>3, <1>13, <2>1, <2>2, <2>3
  <1>17. ASSUME NEW p \in 1 .. 8 PROVE entry[p] = head[p]
    <2>1. p \in 1 .. Len(most) /\ p \in 1 .. Len(head)
      BY <1>1, <1>16
    <2> QED BY <1>11, <1>15, <2>1
  <1>18. ASSUME NEW p \in 1 .. 4 PROVE entry[p] = hint[p] /\ entry[4 + p] = size[p]
    <2>1. p \in 1 .. 8 /\ 4 + p \in 1 .. 8
      OBVIOUS
    <2>2. head[p] = hint[p]
      BY <1>7, <1>16
    <2>3. head[4 + p] = size[p]
      BY <1>4, <1>8, <1>16
    <2> QED BY <1>17, <2>1, <2>2, <2>3
  <1>19. ASSUME NEW p \in 1 .. Len(signature) PROVE entry[8 + p] = signature[p]
    <2>1. 8 + p \in 1 .. Len(most)
      BY <1>1, <1>16 DEF L
    <2>2. most[8 + p] = signature[p]
      BY <1>12, <1>16
    <2> QED BY <1>15, <2>1, <2>2
  <1>20. entry[5] = 0 /\ entry[6] = 0 /\ entry[7] = 0 /\ entry[8] = L
    <2>1. /\ entry[4 + 1] = size[1] /\ entry[4 + 2] = size[2]
          /\ entry[4 + 3] = size[3] /\ entry[4 + 4] = size[4]
      BY <1>18
    <2> QED BY <1>4, <2>1
  <1>21. Holds(entry, hint, signature)
    BY <1>13, <1>16, <1>18, <1>19, <1>20 DEF L, Holds
  <1> QED BY <1>2, <1>21 DEF hint, signature

\* The signatures of an envelope, each behind the one before it.
Placed(decorated, bytes, offset, n) ==
    /\ bytes \in Seq(Nat) /\ Len(bytes) = offset[n]
    /\ \A i \in 1 .. n : \A p \in 1 .. Len(Entry(decorated[i])) :
         /\ offset[i - 1] + p \in 1 .. offset[n]
         /\ bytes[offset[i - 1] + p] = Entry(decorated[i])[p]

\* What an envelope ends on, as numbers.
Signed(decorated) ==
    /\ \A i \in 1 .. Len(decorated) :
         IsHint(decorated[i].hint) /\ decorated[i].signature \in Seq(Nat)
    /\ Len(decorated) \in Nat /\ DOMAIN decorated = 1 .. Len(decorated)

LEMMA OneMorePlaced ==
    ASSUME NEW decorated, NEW n \in Nat \ {0}, NEW offset \in [0 .. n -> Nat],
           NEW bytes, Placed(decorated, bytes, offset, n - 1),
           Entry(decorated[n]) \in Seq(Nat),
           offset[n] = offset[n - 1] + Len(Entry(decorated[n]))
    PROVE  Placed(decorated, bytes \o Entry(decorated[n]), offset, n)
  <1> DEFINE entry == Entry(decorated[n])
             all == bytes \o entry
  <1>1. bytes \in Seq(Nat) /\ entry \in Seq(Nat)
    BY DEF Placed
  <1>2. all \in Seq(Nat) /\ Len(all) = Len(bytes) + Len(entry)
    BY <1>1
  <1>3. ASSUME NEW p \in 1 .. Len(bytes) PROVE all[p] = bytes[p]
    BY <1>1
  <1>4. ASSUME NEW p \in 1 .. Len(entry) PROVE all[Len(bytes) + p] = entry[p]
    BY <1>1
  <1>5. Len(bytes) = offset[n - 1] /\ offset[n - 1] \in Nat /\ offset[n] \in Nat
        /\ Len(entry) \in Nat
    BY <1>1 DEF Placed
  <1>6. ASSUME NEW i \in 1 .. n, NEW p \in 1 .. Len(Entry(decorated[i]))
        PROVE  /\ offset[i - 1] + p \in 1 .. offset[n]
               /\ all[offset[i - 1] + p] = Entry(decorated[i])[p]
    <2>1. CASE i = n
      <3>1. p \in 1 .. Len(entry)
        BY <2>1
      <3>2. all[Len(bytes) + p] = entry[p]
        BY <1>4, <3>1
      <3> HIDE DEF all, entry
      <3>3. offset[n - 1] + p \in 1 .. offset[n]
        BY <1>5, <3>1 DEF entry
      <3> QED BY <1>5, <2>1, <3>2, <3>3 DEF entry
    <2>2. CASE i # n
      <3>1. i \in 1 .. (n - 1)
        BY <2>2
      <3>2. /\ offset[i - 1] + p \in 1 .. offset[n - 1]
            /\ bytes[offset[i - 1] + p] = Entry(decorated[i])[p]
        BY <3>1 DEF Placed
      <3> HIDE DEF all, entry
      <3>3. offset[i - 1] + p \in 1 .. offset[n]
        BY <1>5, <3>2 DEF entry
      <3> QED BY <1>3, <1>5, <3>2, <3>3
    <2> QED BY <2>1, <2>2
  <1>7. Len(all) = offset[n]
    BY <1>2, <1>5
  <1> QED BY <1>2, <1>6, <1>7 DEF Placed

Bytes == Seq(Nat)

LEMMA EntriesPlaced ==
    ASSUME NEW decorated, Signed(decorated), NEW offset, offset = OffsetOf(SignaturesOf(decorated))
    PROVE  /\ offset \in [0 .. Len(decorated) -> Nat]
           /\ \A n \in 1 .. Len(decorated) :
                /\ Entry(decorated[n]) \in Seq(Nat)
                /\ Len(Entry(decorated[n])) = 8 + Padded(Len(decorated[n].signature))
                /\ offset[n] = offset[n - 1] + Len(Entry(decorated[n]))
           /\ Placed(decorated, EntriesOf(decorated), offset, Len(decorated))
  <1> DEFINE N == Len(decorated)
             signatures == SignaturesOf(decorated)
             Runs(f) == f = [n \in 0 .. Len(decorated) |->
                               IF n = 0 THEN <<>> ELSE f[n - 1] \o Entry(decorated[n])]
             run == CHOOSE f : Runs(f)
             G == [n \in 1 .. N |-> [v \in Bytes |-> v \o Entry(decorated[n])]]
  <1>1. N \in Nat
    BY DEF Signed
  <1>2. ASSUME NEW n \in 1 .. N
        PROVE  /\ Entry(decorated[n]) \in Seq(Nat)
               /\ Len(Entry(decorated[n])) = 8 + Padded(Len(decorated[n].signature))
    BY EntryFacts DEF Signed, Holds
  <1>3. /\ signatures = [n \in 1 .. N |-> decorated[n].signature]
        /\ \A n \in 1 .. N : Len(signatures[n]) \in Nat
    BY DEF SignaturesOf, Signed
  <1>4. Len(signatures) = N
    <2> HIDE DEF N
    <2> QED BY <1>1, <1>3
  <1> HIDE DEF signatures
  <1>5. /\ offset \in [0 .. N -> Nat] /\ offset[0] = 0
        /\ \A n \in 1 .. N : offset[n] = offset[n - 1] + 8 + Padded(Len(signatures[n]))
    BY <1>1, <1>3, <1>4, Offsets DEF signatures
  <1>6. ASSUME NEW n \in 1 .. N
        PROVE  offset[n] = offset[n - 1] + Len(Entry(decorated[n]))
    <2>1. signatures[n] = decorated[n].signature
      BY <1>3
    <2>2. offset[n] = offset[n - 1] + 8 + Padded(Len(decorated[n].signature))
      BY <1>5, <2>1
    <2>3. offset[n - 1] \in Nat
      <3>1. n - 1 \in 0 .. N /\ offset \in [0 .. N -> Nat]
        BY <1>1, <1>5
      <3> QED BY <3>1
    <2>4. Padded(Len(decorated[n].signature)) \in Nat
      <3>1. Len(decorated[n].signature) \in Nat
        BY <1>3, <2>1
      <3> QED BY <3>1, PaddedFacts
    <2>5. Len(Entry(decorated[n])) = 8 + Padded(Len(decorated[n].signature))
      BY <1>2
    <2> DEFINE behind == offset[n - 1]
               pad == Padded(Len(decorated[n].signature))
               size == Len(Entry(decorated[n]))
    <2>6. offset[n] = behind + 8 + pad /\ size = 8 + pad /\ behind \in Nat /\ pad \in Nat
      BY <2>2, <2>3, <2>4, <2>5
    <2> HIDE DEF behind, pad, size
    <2>7. offset[n] = behind + size
      BY <2>6
    <2> QED BY <2>7 DEF behind, size
  <1>7. \E f : Runs(f)
    <2> DEFINE b == <<>>
    <2>1. b \in Bytes
      BY EmptySeq DEF Bytes
    <2>2. G \in [1 .. N -> [Bytes -> Bytes]]
      BY <1>2 DEF Bytes
    <2> HIDE DEF b, G
    <2>3. PICK P \in [0 .. N -> Bytes] : IsAlong(P, N, b, G)
      BY <1>1, <2>1, <2>2, Along
    <2>4. ASSUME NEW n \in 0 .. N
          PROVE  P[n] = IF n = 0 THEN <<>> ELSE P[n - 1] \o Entry(decorated[n])
      <3>1. CASE n = 0
        BY <2>3, <3>1 DEF IsAlong, b
      <3>2. CASE n # 0
        <4>1. n \in 1 .. N /\ n - 1 \in 0 .. N
          BY <1>1, <3>2
        <4>2. P[n] = G[n][P[n - 1]] /\ P[n - 1] \in Bytes
          BY <2>3, <4>1 DEF IsAlong
        <4>3. G[n][P[n - 1]] = P[n - 1] \o Entry(decorated[n])
          BY <4>1, <4>2 DEF G
        <4> QED BY <3>2, <4>2, <4>3
      <3> QED BY <3>1, <3>2
    <2>5. Runs(P)
      BY <2>4
    <2> QED BY <2>5
  <1>8. Runs(run)
    BY <1>7
  <1>9. EntriesOf(decorated) = run[N]
    BY Zenon DEF EntriesOf
  <1> HIDE DEF run
  <1>10. /\ run[0] = <<>>
         /\ \A n \in 1 .. N : run[n] = run[n - 1] \o Entry(decorated[n])
    <2>1. run[0] = <<>>
      BY <1>1, <1>8
    <2>2. ASSUME NEW n \in 1 .. N PROVE run[n] = run[n - 1] \o Entry(decorated[n])
      <3>1. n \in 0 .. N /\ n # 0
        BY <1>1
      <3> QED BY <1>8, <3>1
    <2> QED BY <2>1, <2>2
  <1> DEFINE S == {n \in 0 .. N : Placed(decorated, run[n], offset, n)}
  <1>11. 0 \in S
    <2>1. run[0] \in Seq(Nat) /\ Len(run[0]) = 0
      BY <1>10, EmptySeq
    <2> QED BY <1>1, <1>5, <2>1 DEF Placed
  <1>12. ASSUME NEW n \in 1 .. N, n - 1 \in S
         PROVE  n \in S
    <2>1. n \in Nat \ {0} /\ n \in 0 .. N /\ 0 .. n \subseteq 0 .. N
      BY <1>1
    <2> DEFINE part == [m \in 0 .. n |-> offset[m]]
    <2>2. part \in [0 .. n -> Nat] /\ \A m \in 0 .. n : part[m] = offset[m]
      BY <1>5, <2>1
    <2> HIDE DEF part
    <2>3. Placed(decorated, run[n - 1], offset, n - 1)
      BY <1>12
    <2>4. Placed(decorated, run[n - 1], part, n - 1)
      <3>1. n - 1 \in 0 .. n /\ \A i \in 1 .. (n - 1) : i - 1 \in 0 .. n
        BY <2>1
      <3> QED BY <2>2, <2>3, <3>1 DEF Placed
    <2>5. part[n] = part[n - 1] + Len(Entry(decorated[n]))
      <3>1. n - 1 \in 0 .. n /\ n \in 0 .. n
        BY <2>1
      <3> QED BY <1>6, <2>2, <3>1
    <2>6. Placed(decorated, run[n], part, n)
      <3>1. Entry(decorated[n]) \in Seq(Nat)
        BY <1>2
      <3>2. Placed(decorated, run[n - 1] \o Entry(decorated[n]), part, n)
        BY <2>1, <2>2, <2>4, <2>5, <3>1, OneMorePlaced
      <3> QED BY <1>10, <3>2
    <2>7. Placed(decorated, run[n], offset, n)
      <3>1. n \in 0 .. n /\ \A i \in 1 .. n : i - 1 \in 0 .. n
        BY <2>1
      <3> QED BY <2>2, <2>6, <3>1 DEF Placed
    <2> QED BY <2>1, <2>7
  <1> HIDE DEF S
  <1>13. N \in S
    <2>1. \A n \in 0 .. N : n \in S
      BY <1>1, <1>11, <1>12, UpTo
    <2> QED BY <1>1, <2>1
  <1> QED BY <1>2, <1>5, <1>6, <1>9, <1>13 DEF S

LEMMA PartIs ==
    ASSUME NEW all \in Seq(Nat), NEW part \in Seq(Nat), NEW a \in Nat \ {0}, NEW b \in Nat,
           b = a + Len(part) - 1, b <= Len(all),
           \A p \in 1 .. Len(part) : all[a + p - 1] = part[p]
    PROVE  SubSeq(all, a, b) = part
  <1> DEFINE taken == SubSeq(all, a, b)
             L == Len(part)
  <1>1. /\ a \in Int /\ b \in Int /\ L \in Nat /\ b - a + 1 = L
        /\ \A i \in a .. b : i \in 1 .. Len(all)
    BY LenProperties
  <1>2. \A i \in a .. b : all[i] \in Nat
    BY <1>1, ElementOfSeq
  <1>3. /\ taken \in Seq(Nat) /\ Len(taken) = (IF a <= b THEN b - a + 1 ELSE 0)
        /\ \A i \in 1 .. b - a + 1 : taken[i] = all[a + i - 1]
    <2>1. \A i \in a .. b : all[i] \in Numbers
      BY <1>2 DEF Numbers
    <2>2. /\ SubSeq(all, a, b) \in Seq(Numbers)
          /\ Len(SubSeq(all, a, b)) = (IF a <= b THEN b - a + 1 ELSE 0)
          /\ \A i \in 1 .. b - a + 1 : SubSeq(all, a, b)[i] = all[a + i - 1]
      BY <1>1, <2>1, SubSeqProperties
    <2> QED BY <2>2 DEF Numbers
  <1> HIDE DEF taken, L
  <1>4. Len(taken) = L
    BY <1>1, <1>3
  <1>5. \A p \in 1 .. L : taken[p] = part[p]
    BY <1>1, <1>3 DEF L
  <1>6. taken = part
    BY <1>3, <1>4, <1>5, SeqEqual DEF L
  <1> QED BY <1>6 DEF taken

\* What is where in an envelope whose body is M bytes long.
InEnvelope(envelope, M, decorated, offset) ==
    LET N == Len(decorated)
    IN  /\ envelope \in Seq(Nat) /\ Len(envelope) = M + 4 + offset[N]
        /\ envelope[M + 1] = 0 /\ envelope[M + 2] = 0 /\ envelope[M + 3] = 0
        /\ envelope[M + 4] = N
        /\ \A i \in 1 .. N : \A p \in 1 .. Len(Entry(decorated[i])) :
             /\ offset[i - 1] + p \in 1 .. offset[N]
             /\ envelope[M + 4 + offset[i - 1] + p] = Entry(decorated[i])[p]

LEMMA EnvelopeFacts ==
    ASSUME NEW decorated, Signed(decorated), NEW body \in Seq(Nat), NEW M, M = Len(body),
           NEW offset, offset = OffsetOf(SignaturesOf(decorated))
    PROVE  InEnvelope(EnvelopeOf(body, decorated), M, decorated, offset)
  <1> DEFINE N == Len(decorated)
             size == U32(N)
             head == body \o size
             bytes == EntriesOf(decorated)
             all == head \o bytes
  <1>1. N \in Nat /\ M \in Nat
    BY DEF Signed
  <1>2. EnvelopeOf(body, decorated) = all
    BY DEF EnvelopeOf
  <1>3. /\ size \in Seq(Nat) /\ Len(size) = 4
        /\ size[1] = 0 /\ size[2] = 0 /\ size[3] = 0 /\ size[4] = N
    BY <1>1 DEF U32
  <1>4. Placed(decorated, bytes, offset, N) /\ offset \in [0 .. N -> Nat]
    BY EntriesPlaced
  <1>5. /\ bytes \in Seq(Nat) /\ Len(bytes) = offset[N] /\ offset[N] \in Nat
        /\ \A i \in 1 .. N : offset[i - 1] \in Nat
    <2> HIDE DEF N, bytes
    <2>1. bytes \in Seq(Nat) /\ Len(bytes) = offset[N]
      BY <1>4 DEF Placed
    <2>2. N \in 0 .. N /\ \A i \in 1 .. N : i - 1 \in 0 .. N
      BY <1>1
    <2> QED BY <1>4, <2>1, <2>2
  <1>6. size \in Seq(Nat)
    BY <1>3
  <1> HIDE DEF size, head, bytes, all, N
  <1>7. head \in Seq(Nat) /\ Len(head) = Len(body) + Len(size)
    BY <1>6 DEF head
  <1>8. ASSUME NEW p \in 1 .. Len(size) PROVE head[M + p] = size[p]
    BY <1>6 DEF head
  <1>9. head \in Seq(Nat) /\ bytes \in Seq(Nat)
    BY <1>5, <1>7
  <1>10. all \in Seq(Nat) /\ Len(all) = Len(head) + Len(bytes)
    BY <1>9 DEF all
  <1>11. ASSUME NEW p \in 1 .. Len(head) PROVE all[p] = head[p]
    BY <1>9 DEF all
  <1>12. ASSUME NEW p \in 1 .. Len(bytes) PROVE all[Len(head) + p] = bytes[p]
    BY <1>9 DEF all
  <1>13. Len(head) = M + 4 /\ Len(all) = M + 4 + offset[N]
    BY <1>1, <1>3, <1>5, <1>7, <1>10
  <1>14. ASSUME NEW p \in 1 .. 4 PROVE all[M + p] = size[p]
    <2>1. M + p \in 1 .. Len(head) /\ p \in 1 .. Len(size)
      BY <1>1, <1>3, <1>13
    <2> QED BY <1>8, <1>11, <2>1
  <1>15. ASSUME NEW i \in 1 .. N, NEW p \in 1 .. Len(Entry(decorated[i]))
         PROVE  /\ offset[i - 1] + p \in 1 .. offset[N]
                /\ all[M + 4 + offset[i - 1] + p] = Entry(decorated[i])[p]
    <2>1. /\ offset[i - 1] + p \in 1 .. offset[N]
          /\ bytes[offset[i - 1] + p] = Entry(decorated[i])[p]
      BY <1>4 DEF Placed
    <2>2. all[Len(head) + (offset[i - 1] + p)] = bytes[offset[i - 1] + p]
      BY <1>5, <1>12, <2>1
    <2>3. p \in Nat /\ offset[i - 1] \in Nat
      <3>1. Entry(decorated[i]) \in Seq(Nat)
        BY EntriesPlaced DEF N
      <3> QED BY <1>5, <3>1
    <2>4. Len(head) + (offset[i - 1] + p) = M + 4 + offset[i - 1] + p
      BY <1>1, <1>13, <2>3
    <2> QED BY <2>1, <2>2, <2>4
  <1>16. all[M + 1] = 0 /\ all[M + 2] = 0 /\ all[M + 3] = 0 /\ all[M + 4] = N
    BY <1>3, <1>14
  <1>17. InEnvelope(all, M, decorated, offset)
    BY <1>10, <1>13, <1>15, <1>16, Zenon DEF InEnvelope, N
  <1> QED BY <1>2, <1>17

\* What is read where an entry starts.
EntryAt(envelope, at, decorated) ==
    /\ ParsedAt(envelope, at, decorated.signature)
    /\ SubSeq(envelope, at, at + 3) = decorated.hint
    /\ SubSeq(envelope, at + 8, at + 7 + Len(decorated.signature)) = decorated.signature

LEMMA EntryRead ==
    ASSUME NEW decorated, Signed(decorated), NEW M \in Nat, NEW envelope,
           NEW offset, offset = OffsetOf(SignaturesOf(decorated)),
           InEnvelope(envelope, M, decorated, offset),
           NEW i \in 1 .. Len(decorated), NEW at, at = M + 1 + 4 + offset[i - 1]
    PROVE  EntryAt(envelope, at, decorated[i])
  <1> DEFINE hint == decorated[i].hint
             signature == decorated[i].signature
             L == Len(signature)
             entry == Entry(decorated[i])
             before == offset[i - 1]
             N == Len(decorated)
  <1>1. /\ IsHint(hint) /\ signature \in Seq(Nat) /\ L \in Nat
        /\ hint \in Seq(Nat) /\ Len(hint) = 4
    BY DEF Signed, IsHint
  <1>2. /\ Len(entry) = 8 + Padded(L)
        /\ \A p \in 1 .. 4 : entry[p] = hint[p]
        /\ entry[5] = 0 /\ entry[6] = 0 /\ entry[7] = 0 /\ entry[8] = L
        /\ \A p \in 1 .. L : entry[8 + p] = signature[p]
    <2>1. IsHint(hint) /\ signature \in Seq(Nat)
      BY DEF Signed
    <2>2. Holds(entry, hint, signature)
      BY <2>1, EntryFacts
    <2> QED BY <2>2 DEF Holds
  <1>3. /\ offset \in [0 .. N -> Nat] /\ N \in Nat /\ before \in Nat /\ offset[N] \in Nat
    <2>1. offset \in [0 .. N -> Nat] /\ N \in Nat
      BY EntriesPlaced DEF Signed
    <2> QED BY <2>1
  <1>4. Padded(L) \in Nat /\ Padded(L) >= L
    BY <1>1, PaddedFacts
  <1>5. /\ envelope \in Seq(Nat) /\ Len(envelope) = M + 4 + offset[N]
        /\ \A p \in 1 .. Len(entry) : /\ before + p \in 1 .. offset[N]
                                      /\ envelope[M + 4 + before + p] = entry[p]
    BY Zenon DEF InEnvelope
  <1> HIDE DEF hint, signature, L, entry, before, N
  <1>6. at = M + 5 + before /\ at \in Nat \ {0}
    BY <1>3 DEF before
  <1>7. ASSUME NEW p \in 1 .. 8 + Padded(L)
        PROVE  /\ envelope[at + p - 1] = entry[p]
               /\ at + p - 1 \in 1 .. Len(envelope)
    <2>1. before + p \in 1 .. offset[N] /\ envelope[M + 4 + before + p] = entry[p]
      BY <1>2, <1>5
    <2>2. at + p - 1 = M + 4 + before + p
      <3>1. p \in Nat /\ M \in Nat /\ before \in Nat
        BY <1>3, <1>4
      <3> QED BY <1>6, <3>1
    <2>3. M + 4 + before + p \in 1 .. M + 4 + offset[N]
      BY <1>3, <1>4, <2>1
    <2> QED BY <1>5, <2>1, <2>2, <2>3
  <1>8. SubSeq(envelope, at, at + 3) = hint
    <2>1. at + 3 = at + Len(hint) - 1 /\ at + 3 \in Nat
      BY <1>1, <1>6
    <2>2. at + 3 <= Len(envelope)
      <3>1. 4 \in 1 .. 8 + Padded(L)
        BY <1>4
      <3>2. at + 4 - 1 \in 1 .. Len(envelope)
        BY <1>7, <3>1
      <3> QED BY <1>6, <3>2
    <2>3. ASSUME NEW p \in 1 .. Len(hint) PROVE envelope[at + p - 1] = hint[p]
      <3>1. p \in 1 .. 4 /\ p \in 1 .. 8 + Padded(L)
        BY <1>1, <1>4
      <3> QED BY <1>2, <1>7, <3>1
    <2> QED BY <1>1, <1>5, <1>6, <2>1, <2>2, <2>3, PartIs
  <1>9. SubSeq(envelope, at + 8, at + 7 + L) = signature
    <2>1. at + 7 + L = (at + 8) + Len(signature) - 1 /\ at + 7 + L \in Nat /\ at + 8 \in Nat \ {0}
      <3>1. Len(signature) \in Nat
        BY <1>1
      <3>2. L = Len(signature)
        BY DEF L
      <3> QED BY <1>6, <3>1, <3>2
    <2>2. at + 7 + L <= Len(envelope)
      <3>1. 8 + L \in 1 .. 8 + Padded(L)
        BY <1>1, <1>4
      <3>2. at + (8 + L) - 1 \in 1 .. Len(envelope)
        BY <1>7, <3>1
      <3> QED BY <1>1, <1>6, <3>2
    <2>3. ASSUME NEW p \in 1 .. Len(signature) PROVE envelope[(at + 8) + p - 1] = signature[p]
      <3>1. p \in 1 .. L /\ 8 + p \in 1 .. 8 + Padded(L)
        BY <1>1, <1>4 DEF L
      <3>2. envelope[at + (8 + p) - 1] = entry[8 + p]
        BY <1>7, <3>1
      <3>3. at + (8 + p) - 1 = (at + 8) + p - 1
        BY <1>6
      <3> QED BY <1>2, <3>1, <3>2, <3>3
    <2> QED BY <1>1, <1>5, <2>1, <2>2, <2>3, PartIs
  <1>10. U32At(envelope, at + 4) = L
    <2>1. /\ 5 \in 1 .. 8 + Padded(L) /\ 6 \in 1 .. 8 + Padded(L)
          /\ 7 \in 1 .. 8 + Padded(L) /\ 8 \in 1 .. 8 + Padded(L)
      BY <1>4
    <2>2. /\ envelope[at + 5 - 1] = 0 /\ envelope[at + 6 - 1] = 0
          /\ envelope[at + 7 - 1] = 0 /\ envelope[at + 8 - 1] = L
      BY <1>2, <1>7, <2>1
    <2>3. /\ at + 5 - 1 = at + 4 /\ at + 6 - 1 = at + 4 + 1
          /\ at + 7 - 1 = at + 4 + 2 /\ at + 8 - 1 = at + 4 + 3
      BY <1>6
    <2>4. U32At(envelope, at + 4) = ((0 * 256 + 0) * 256 + 0) * 256 + L
      BY <2>2, <2>3 DEF U32At
    <2> QED BY <1>1, <2>4
  <1>11. ParsedAt(envelope, at, signature)
    BY <1>9, <1>10, Zenon DEF ParsedAt, L
  <1> QED BY <1>8, <1>9, <1>11, Zenon DEF EntryAt, hint, signature, L

\* The hints that are read off an envelope.

LEMMA RecordIsSigned ==
    ASSUME KnownRecord
    PROVE  /\ Signed(record.decorated)
           /\ \A d \in ToSet(record.decorated) : d = [hint |-> d.hint, signature |-> d.signature]
           /\ \A i \in 1 .. Len(record.decorated) :
                record.decorated[i].hint \in Seq(0 .. 255)
           /\ record.signatures \in Seq(Seq(0 .. 255))
           /\ record.decorated \in Seq(ToSet(record.decorated))
           /\ \E M \in Nat : InEnvelope(record.envelope, M, record.decorated,
                                        OffsetOf(SignaturesOf(record.decorated)))
  <1> DEFINE list == record.decorated
             envelope == record.envelope
  <1>1. Decorated(list) /\ EndsOn(envelope, list) /\ record.signatures \in Seq(Seq(0 .. 255))
    BY EnvelopesAssumption DEF KnownRecord
  <1> HIDE DEF list, envelope
  <1>2. ASSUME NEW s \in Seq(0 .. 255) PROVE s \in Seq(Nat)
    <2>1. Len(s) \in Nat /\ \A i \in 1 .. Len(s) : s[i] \in 0 .. 255
      BY LenProperties, ElementOfSeq
    <2>2. \A i \in 1 .. Len(s) : s[i] \in Nat
      <3>1. \A x : x \in 0 .. 255 => x \in Nat
        OBVIOUS
      <3> QED BY <2>1, <3>1, Zenon
    <2>3. s = [i \in 1 .. Len(s) |-> s[i]]
      BY LenProperties
    <2> QED BY <2>1, <2>2, <2>3, SeqDef
  <1>3. /\ Len(list) \in Nat /\ DOMAIN list = 1 .. Len(list)
        /\ \A i \in 1 .. Len(list) : list[i] \in ToSet(list)
    <2>1. list \in Seq(ToSet(list))
      BY <1>1 DEF Decorated
    <2> QED BY <2>1, LenProperties, ElementOfSeq
  <1>4. ASSUME NEW d \in ToSet(list)
        PROVE  /\ d.hint \in Seq(0 .. 255)
               /\ IsHint(d.hint) /\ d.signature \in Seq(Nat)
    <2>1. /\ d.hint \in Seq(0 .. 255)
          /\ Len(d.hint) = 4 /\ d.signature \in Seq(0 .. 255)
      BY <1>1 DEF Decorated
    <2>2. d.hint \in Seq(Nat) /\ d.signature \in Seq(Nat)
      BY <1>2, <2>1, Zenon
    <2> QED BY <2>1, <2>2 DEF IsHint
  <1>5. Signed(list)
    BY <1>3, <1>4, Zenon DEF Signed
  <1>6. \E M \in Nat : InEnvelope(envelope, M, list, OffsetOf(SignaturesOf(list)))
    <2>1. PICK n \in 0 .. Len(envelope) : envelope = EnvelopeOf(SubSeq(envelope, 1, n), list)
      BY <1>1 DEF EndsOn
    <2> DEFINE body == SubSeq(envelope, 1, n)
    <2>2. envelope \in Seq(0 .. 255)
      BY <1>1 DEF EndsOn
    <2>3. body \in Seq(0 .. 255)
      <3> DEFINE bytes == 0 .. 255
      <3>1. envelope \in Seq(bytes)
        BY <2>2
      <3> HIDE DEF bytes
      <3>2. Len(envelope) \in Nat /\ \A i \in 1 .. Len(envelope) : envelope[i] \in bytes
        BY <3>1, LenProperties, ElementOfSeq
      <3>3. n \in Int /\ 1 \in Int /\ \A i \in 1 .. n : envelope[i] \in bytes
        BY <3>2
      <3>4. SubSeq(envelope, 1, n) \in Seq(bytes)
        BY <3>3, SubSeqProperties
      <3> QED BY <3>4 DEF bytes
    <2>4. body \in Seq(Nat) /\ Len(body) \in Nat
      BY <1>2, <2>3, LenProperties
    <2>5. InEnvelope(EnvelopeOf(body, list), Len(body), list, OffsetOf(SignaturesOf(list)))
      <3> HIDE DEF body
      <3> QED BY <1>5, <2>4, EnvelopeFacts
    <2> QED BY <2>1, <2>4, <2>5
  <1>7. list \in Seq(ToSet(list)) /\ \A d \in ToSet(list) :
          d = [hint |-> d.hint, signature |-> d.signature]
    BY <1>1, Zenon DEF Decorated
  <1> QED BY <1>1, <1>3, <1>4, <1>5, <1>6, <1>7 DEF list, envelope

LEMMA OwnHints ==
    ASSUME NEW decorated, Signed(decorated), NEW M \in Nat, NEW envelope,
           NEW offset, offset = OffsetOf(SignaturesOf(decorated)),
           InEnvelope(envelope, M, decorated, offset),
           NEW signatures, signatures = SignaturesOf(decorated), signatures # <<>>
    PROVE  ExtractSignatureHints(envelope, signatures)
             = [i \in 1 .. Len(decorated) |-> decorated[i].hint]
  <1> DEFINE N == Len(decorated)
             tail == 4 + OffsetOf(signatures)[Len(signatures)]
             start == Len(envelope) - tail + 1
             at(i) == start + 4 + OffsetOf(signatures)[i - 1]
  <1>1. /\ signatures = [n \in 1 .. N |-> decorated[n].signature]
        /\ N \in Nat /\ DOMAIN signatures = 1 .. N
    BY DEF SignaturesOf, Signed
  <1>2. Len(signatures) = N
    <2> HIDE DEF N
    <2> QED BY <1>1
  <1>3. offset \in [0 .. N -> Nat] /\ offset[N] \in Nat
    <2>1. offset \in [0 .. N -> Nat]
      BY EntriesPlaced
    <2>2. N \in 0 .. N
      <3> HIDE DEF N
      <3> QED BY <1>1
    <2> HIDE DEF N
    <2> QED BY <2>1, <2>2
  <1>4. /\ Len(envelope) = M + 4 + offset[N]
        /\ envelope[M + 1] = 0 /\ envelope[M + 2] = 0 /\ envelope[M + 3] = 0
        /\ envelope[M + 4] = N
    BY Zenon DEF InEnvelope
  <1>5. tail = 4 + offset[N]
    BY <1>2
  <1>6. start = M + 1 /\ ~(Len(envelope) < tail)
    BY <1>3, <1>4, <1>5
  <1>7. U32At(envelope, start) = Len(signatures)
    <2>1. M + 1 + 1 = M + 2 /\ M + 1 + 2 = M + 3 /\ M + 1 + 3 = M + 4
      OBVIOUS
    <2>2. U32At(envelope, M + 1) = ((0 * 256 + 0) * 256 + 0) * 256 + N
      BY <1>4, <2>1 DEF U32At
    <2> QED BY <1>1, <1>2, <1>6, <2>2
  <1>8. ASSUME NEW i \in 1 .. N
        PROVE  /\ ParsedAt(envelope, at(i), signatures[i])
               /\ SubSeq(envelope, at(i), at(i) + 3) = decorated[i].hint
    <2>1. at(i) = M + 1 + 4 + offset[i - 1]
      BY <1>6
    <2>2. signatures[i] = decorated[i].signature
      BY <1>1
    <2> HIDE DEF at
    <2>3. EntryAt(envelope, at(i), decorated[i])
      BY <2>1, EntryRead
    <2> QED BY <2>2, <2>3, Zenon DEF EntryAt
  <1>9. ExtractSignatureHints(envelope, signatures) =
          IF \/ signatures = <<>>
             \/ Len(envelope) < tail
             \/ U32At(envelope, start) # Len(signatures)
             \/ \E i \in DOMAIN signatures : ~ParsedAt(envelope, at(i), signatures[i])
          THEN Unhinted
          ELSE [i \in DOMAIN signatures |-> SubSeq(envelope, at(i), at(i) + 3)]
    BY Zenon DEF ExtractSignatureHints
  <1> HIDE DEF tail, start, at, N
  <1>10. ExtractSignatureHints(envelope, signatures)
           = [i \in DOMAIN signatures |-> SubSeq(envelope, at(i), at(i) + 3)]
    BY <1>1, <1>6, <1>7, <1>8, <1>9, Zenon
  <1>11. [i \in DOMAIN signatures |-> SubSeq(envelope, at(i), at(i) + 3)]
           = [i \in 1 .. N |-> decorated[i].hint]
    BY <1>1, <1>8, Zenon
  <1> QED BY <1>10, <1>11 DEF N

LEMMA SignatureRead ==
    ASSUME NEW decorated, Signed(decorated), NEW M \in Nat, NEW envelope,
           NEW offset, offset = OffsetOf(SignaturesOf(decorated)),
           InEnvelope(envelope, M, decorated, offset),
           NEW i \in 1 .. Len(decorated), NEW at, at = M + 1 + 4 + offset[i - 1]
    PROVE  SubSeq(envelope, at + 8, at + 7 + Len(decorated[i].signature))
             = decorated[i].signature
  <1>1. EntryAt(envelope, at, decorated[i])
    BY EntryRead
  <1> QED BY <1>1, Zenon DEF EntryAt

LEMMA SameEnd ==
    ASSUME NEW m \in Nat, NEW p \in Nat, NEW own \in Nat, NEW before \in Nat,
           NEW end \in Nat, NEW last \in Nat, own = before + 8 + p, end = last + 8 + p,
           NEW e, e = m + 4 + end
    PROVE  e - (4 + own) + 1 + 4 + before = m + 1 + 4 + last
  OBVIOUS

\* The signatures of another transaction, the last as long as the last here.
AnotherLast(signatures, decorated) ==
    /\ signatures \in Seq(Seq(0 .. 255)) /\ signatures # <<>>
    /\ decorated \in Seq(ToSet(decorated)) /\ decorated # <<>>
    /\ Len(Last(signatures)) = Len(Last(decorated).signature)
    /\ Last(signatures) # Last(decorated).signature

LEMMA NoOtherHints ==
    ASSUME NEW decorated, Signed(decorated), NEW M \in Nat, NEW envelope,
           NEW offset, offset = OffsetOf(SignaturesOf(decorated)),
           InEnvelope(envelope, M, decorated, offset),
           NEW signatures, AnotherLast(signatures, decorated)
    PROVE  ExtractSignatureHints(envelope, signatures) = Unhinted
  <1> DEFINE N == Len(decorated)
             K == Len(signatures)
             tail == 4 + OffsetOf(signatures)[K]
             start == Len(envelope) - tail + 1
             at(i) == start + 4 + OffsetOf(signatures)[i - 1]
             L == Len(signatures[K])
  <1>1. K \in Nat /\ K # 0 /\ DOMAIN signatures = 1 .. K
        /\ \A i \in 1 .. K : Len(signatures[i]) \in Nat
    <2>1. K \in Nat /\ DOMAIN signatures = 1 .. K /\ \A i \in 1 .. K : signatures[i] \in Seq(0 .. 255)
      BY LenProperties, ElementOfSeq DEF AnotherLast
    <2>2. K # 0
      BY EmptySeq DEF AnotherLast
    <2> QED BY <2>1, <2>2, LenProperties
  <1>2. N \in Nat /\ N # 0
    <2>1. decorated \in Seq(ToSet(decorated)) /\ decorated # <<>>
      BY DEF AnotherLast
    <2> QED BY <2>1, LenProperties, EmptySeq
  <1>3. /\ Last(signatures) = signatures[K] /\ Last(decorated) = decorated[N]
    BY DEF Last
  <1>4. /\ L = Len(decorated[N].signature) /\ signatures[K] # decorated[N].signature
        /\ L \in Nat
    BY <1>1, <1>3 DEF AnotherLast
  <1> HIDE DEF N, K, L
  <1>5. /\ OffsetOf(signatures)[K] \in Nat /\ OffsetOf(signatures)[K - 1] \in Nat
        /\ OffsetOf(signatures)[K] = OffsetOf(signatures)[K - 1] + 8 + Padded(L)
    <2>1. /\ OffsetOf(signatures) \in [0 .. K -> Nat]
          /\ \A n \in 1 .. K :
               OffsetOf(signatures)[n]
                 = OffsetOf(signatures)[n - 1] + 8 + Padded(Len(signatures[n]))
      BY <1>1, Offsets DEF K, AnotherLast
    <2>2. K \in 0 .. K /\ K - 1 \in 0 .. K /\ K \in 1 .. K
      BY <1>1
    <2> QED BY <2>1, <2>2 DEF L
  <1>6. /\ offset[N] \in Nat /\ offset[N - 1] \in Nat
        /\ offset[N] = offset[N - 1] + 8 + Padded(L)
    <2>1. /\ offset \in [0 .. N -> Nat]
          /\ \A n \in 1 .. N :
               /\ Len(Entry(decorated[n])) = 8 + Padded(Len(decorated[n].signature))
               /\ offset[n] = offset[n - 1] + Len(Entry(decorated[n]))
      BY EntriesPlaced DEF N
    <2>2. N \in 0 .. N /\ N - 1 \in 0 .. N /\ N \in 1 .. N
      BY <1>2
    <2>3. Padded(L) \in Nat
      BY <1>4, PaddedFacts
    <2>4. /\ offset[N] \in Nat /\ offset[N - 1] \in Nat
          /\ Len(Entry(decorated[N])) = 8 + Padded(Len(decorated[N].signature))
          /\ offset[N] = offset[N - 1] + Len(Entry(decorated[N]))
      BY <2>1, <2>2
    <2>5. Len(Entry(decorated[N])) = 8 + Padded(L)
      BY <1>4, <2>4, Zenon
    <2> QED BY <2>3, <2>4, <2>5
  <1>7. Len(envelope) = M + 4 + offset[N]
    BY Zenon DEF InEnvelope, N
  <1>8. at(K) = M + 1 + 4 + offset[N - 1]
    <2>1. Padded(L) \in Nat
      BY <1>4, PaddedFacts
    <2>2. \A e : e = M + 4 + offset[N] =>
            e - (4 + OffsetOf(signatures)[K]) + 1 + 4 + OffsetOf(signatures)[K - 1]
              = M + 1 + 4 + offset[N - 1]
      BY <1>5, <1>6, <2>1, SameEnd
    <2> QED BY <1>7, <2>2, Zenon
  <1>9. SubSeq(envelope, at(K) + 8, at(K) + 7 + L) = decorated[N].signature
    <2>1. N \in 1 .. Len(decorated)
      BY <1>2 DEF N
    <2> HIDE DEF at
    <2>2. ASSUME NEW n \in 1 .. Len(decorated), NEW a, a = M + 1 + 4 + offset[n - 1]
          PROVE  SubSeq(envelope, a + 8, a + 7 + Len(decorated[n].signature))
                   = decorated[n].signature
      <3>1. EntryAt(envelope, a, decorated[n])
        BY <2>2, EntryRead
      <3> QED BY <3>1, Zenon DEF EntryAt
    <2> QED BY <1>4, <1>8, <2>1, <2>2
  <1>10. ~ParsedAt(envelope, at(K), signatures[K])
    <2> HIDE DEF at
    <2> QED BY <1>4, <1>9, Zenon DEF ParsedAt, L
  <1>11. K \in DOMAIN signatures
    BY <1>1
  <1>12. ExtractSignatureHints(envelope, signatures) =
          IF \/ signatures = <<>>
             \/ Len(envelope) < tail
             \/ U32At(envelope, start) # Len(signatures)
             \/ \E i \in DOMAIN signatures : ~ParsedAt(envelope, at(i), signatures[i])
          THEN Unhinted
          ELSE [i \in DOMAIN signatures |-> SubSeq(envelope, at(i), at(i) + 3)]
    BY Zenon DEF ExtractSignatureHints, K
  <1> HIDE DEF tail, start, at
  <1> QED BY <1>10, <1>11, <1>12, Zenon

LEMMA RecordHints ==
    ASSUME KnownRecord, Reported(record.signatures, record.decorated)
    PROVE  HintsAreTheirOwn
  <1> DEFINE decorated == record.decorated
             signatures == record.signatures
             envelope == record.envelope
             hints == ExtractSignatureHints(envelope, signatures)
             rows == SignatureRows(record)
             known == {a \in {record.source, record.fee} : a.hint # Unhinted}
             signer(hint) ==
                 IF record.fee \in known /\ record.fee.hint = hint THEN record.fee.name
                 ELSE IF record.source \in known /\ record.source.hint = hint
                 THEN record.source.name
                 ELSE Unhinted
             N == Len(decorated)
  <1>1. PICK M \in Nat : InEnvelope(envelope, M, decorated, OffsetOf(SignaturesOf(decorated)))
    BY RecordIsSigned
  <1>2. /\ Signed(decorated) /\ decorated \in Seq(ToSet(decorated)) /\ signatures \in Seq(Seq(0 .. 255))
        /\ \A d \in ToSet(decorated) : d = [hint |-> d.hint, signature |-> d.signature]
        /\ \A i \in 1 .. N : decorated[i].hint \in Seq(0 .. 255)
    BY RecordIsSigned
  <1>3. rows = [i \in DOMAIN signatures |->
                  [signature |-> signatures[i],
                   hint |-> IF hints = Unhinted THEN Unhinted ELSE hints[i],
                   signer |-> IF hints = Unhinted THEN Unhinted ELSE signer(hints[i])]]
    BY Zenon DEF SignatureRows
  <1> HIDE DEF decorated, signatures, envelope, hints, rows, signer
  <1>4. \A i \in DOMAIN rows :
          /\ rows[i].signature = signatures[i]
          /\ rows[i].hint = IF hints = Unhinted THEN Unhinted ELSE hints[i]
          /\ rows[i].signer = IF hints = Unhinted THEN Unhinted ELSE signer(hints[i])
    BY <1>3
  <1>5. N \in Nat /\ DOMAIN decorated = 1 .. N
    BY <1>2 DEF Signed
  <1>6. ASSUME signatures = SignaturesOf(decorated), signatures # <<>>
        PROVE  /\ DOMAIN rows = 1 .. N
               /\ hints # Unhinted
               /\ \A i \in 1 .. N : /\ rows[i].hint = decorated[i].hint
                                    /\ rows[i].signature = decorated[i].signature
    <2>1. hints = [i \in 1 .. N |-> decorated[i].hint]
      BY <1>1, <1>2, <1>6, OwnHints DEF hints
    <2>2. hints \in Seq(Seq(0 .. 255))
      BY <1>2, <1>5, <2>1, SeqDef
    <2>3. hints # Unhinted
      BY <2>2, UnhintedAssumption
    <2>4. signatures = [i \in 1 .. N |-> decorated[i].signature]
      BY <1>5, <1>6 DEF SignaturesOf
    <2>5. DOMAIN rows = 1 .. N
      BY <1>3, <2>4
    <2> QED BY <1>4, <2>1, <2>3, <2>4, <2>5
  <1>7. \/ signatures = SignaturesOf(decorated) /\ signatures # <<>>
        \/ hints = Unhinted /\ (signatures = SignaturesOf(decorated) => signatures = <<>>)
    <2>1. CASE signatures = SignaturesOf(decorated)
      <3>1. signatures = <<>> => hints = Unhinted
        BY DEF hints, ExtractSignatureHints
      <3> QED BY <2>1, <3>1
    <2>2. CASE signatures # SignaturesOf(decorated)
      <3>1. /\ signatures # <<>> /\ decorated # <<>>
            /\ Len(Last(signatures)) = Len(Last(decorated).signature)
            /\ Last(signatures) # Last(decorated).signature
        BY <2>2, Zenon DEF Reported, signatures, decorated
      <3>2. hints = Unhinted
        BY <1>1, <1>2, <3>1, NoOtherHints DEF hints, AnotherLast
      <3> QED BY <2>2, <3>2
    <2> QED BY <2>1, <2>2
  <1>8. ASSUME NEW i \in DOMAIN rows, rows[i].hint # Unhinted
        PROVE  /\ i \in DOMAIN decorated
               /\ decorated[i] = [hint |-> rows[i].hint, signature |-> rows[i].signature]
    <2>1. hints # Unhinted
      BY <1>4, <1>8
    <2>2. /\ i \in 1 .. N /\ rows[i].hint = decorated[i].hint
          /\ rows[i].signature = decorated[i].signature
      BY <1>6, <1>7, <2>1
    <2>3. decorated[i] = [hint |-> decorated[i].hint, signature |-> decorated[i].signature]
      BY <1>2, <1>5, <2>2 DEF ToSet
    <2> QED BY <1>5, <2>2, <2>3
  <1>9. ASSUME signatures = SignaturesOf(decorated), NEW i \in DOMAIN rows
        PROVE  rows[i].hint = decorated[i].hint
    <2>1. CASE signatures # <<>>
      BY <1>6, <1>9, <2>1
    <2>2. CASE signatures = <<>>
      BY <1>3, <1>9, <2>2
    <2> QED BY <2>1, <2>2
  <1>10. ASSUME NEW i \in DOMAIN rows, rows[i].signer # Unhinted
         PROVE  \E a \in {record.source, record.fee} :
                   a.name = rows[i].signer /\ a.hint = rows[i].hint
    <2>1. hints # Unhinted /\ rows[i].hint = hints[i] /\ rows[i].signer = signer(hints[i])
      BY <1>4, <1>10
    <2> QED BY <1>10, <2>1, Zenon DEF signer
  <1>11. HintsBelong(record, decorated)
    BY <1>8, <1>9, <1>10, Zenon DEF HintsBelong, rows, signatures
  <1> QED BY <1>11 DEF HintsAreTheirOwn, decorated

\* Of any envelope, with any body and any signatures, of an own hash or of a
\* fee bump's inner one: no row names a hint or a signer that is not its own.
THEOREM HintsAreRight ==
    RecordSpec => [](Reported(record.signatures, record.decorated) => HintsAreTheirOwn)
  <1>1. KnownRecord => (Reported(record.signatures, record.decorated) => HintsAreTheirOwn)
    BY RecordHints
  <1> QED BY <1>1, RecordStays, PTL

-----------------------------------------------------------------------------
\* Exact decimals.

LEMMA Powers ==
    /\ TenTo \in [0 .. PRECISION -> Nat]
    /\ TenTo[0] = 1
    /\ \A n \in 1 .. PRECISION : TenTo[n] = 10 * TenTo[n - 1]
  <1> DEFINE N == PRECISION
             Runs(f) == f = [n \in 0 .. PRECISION |-> IF n = 0 THEN 1 ELSE 10 * f[n - 1]]
             run == CHOOSE f : Runs(f)
             G == [n \in 1 .. N |-> [v \in Numbers |-> 10 * v]]
  <1>1. N \in Nat
    BY DisplayAssumption
  <1>2. \E f : Runs(f)
    <2> DEFINE b == 1
    <2>1. b \in Numbers /\ G \in [1 .. N -> [Numbers -> Numbers]]
      BY DEF Numbers
    <2> HIDE DEF b, G, Runs
    <2>2. PICK P \in [0 .. N -> Numbers] : IsAlong(P, N, b, G)
      BY <1>1, <2>1, Along
    <2>3. ASSUME NEW n \in 0 .. N PROVE P[n] = IF n = 0 THEN 1 ELSE 10 * P[n - 1]
      <3>1. CASE n = 0
        BY <2>2, <3>1 DEF IsAlong, b
      <3>2. CASE n # 0
        <4>1. n \in 1 .. N /\ n - 1 \in 0 .. N
          BY <1>1, <3>2
        <4>2. P[n] = G[n][P[n - 1]] /\ P[n - 1] \in Numbers
          BY <2>2, <4>1 DEF IsAlong
        <4>3. G[n][P[n - 1]] = 10 * P[n - 1]
          BY <4>1, <4>2 DEF G
        <4> QED BY <3>2, <4>2, <4>3
      <3> QED BY <3>1, <3>2
    <2>4. Runs(P)
      BY <2>3 DEF Runs
    <2> QED BY <2>4
  <1>3. Runs(run)
    BY <1>2
  <1>4. TenTo = run
    BY Zenon DEF TenTo
  <1> HIDE DEF run
  <1>5. run[0] = 1 /\ \A n \in 1 .. N : n \in 0 .. N /\ run[n] = 10 * run[n - 1]
    BY <1>1, <1>3
  <1> DEFINE S == {n \in 0 .. N : run[n] \in Nat}
  <1>6. 0 \in S
    BY <1>1, <1>5
  <1>7. ASSUME NEW n \in 1 .. N, n - 1 \in S PROVE n \in S
    <2>1. run[n - 1] \in Nat
      BY <1>7
    <2> QED BY <1>5, <2>1
  <1> HIDE DEF S
  <1>8. \A n \in 0 .. N : n \in S
    BY <1>1, <1>6, <1>7, UpTo
  <1>9. run \in [0 .. N -> Nat]
    BY <1>3, <1>8 DEF S
  <1> QED BY <1>4, <1>5, <1>9

LEMMA Cuts ==
    ASSUME NEW size \in Nat
    PROVE  /\ CutFrom(size) \in [0 .. PRECISION -> Nat]
           /\ CutFrom(size)[0] = size
           /\ \A n \in 1 .. PRECISION : CutFrom(size)[n] = CutFrom(size)[n - 1] \div 10
  <1> DEFINE N == PRECISION
             Runs(f) == f = [n \in 0 .. PRECISION |->
                               IF n = 0 THEN size ELSE f[n - 1] \div 10]
             run == CHOOSE f : Runs(f)
             G == [n \in 1 .. N |-> [v \in Numbers |-> v \div 10]]
  <1>1. N \in Nat
    BY DisplayAssumption
  <1>2. \E f : Runs(f)
    <2> DEFINE b == size
    <2>1. b \in Numbers /\ G \in [1 .. N -> [Numbers -> Numbers]]
      BY DEF Numbers
    <2> HIDE DEF b, G, Runs
    <2>2. PICK P \in [0 .. N -> Numbers] : IsAlong(P, N, b, G)
      BY <1>1, <2>1, Along
    <2>3. ASSUME NEW n \in 0 .. N PROVE P[n] = IF n = 0 THEN size ELSE P[n - 1] \div 10
      <3>1. CASE n = 0
        BY <2>2, <3>1 DEF IsAlong, b
      <3>2. CASE n # 0
        <4>1. n \in 1 .. N /\ n - 1 \in 0 .. N
          BY <1>1, <3>2
        <4>2. P[n] = G[n][P[n - 1]] /\ P[n - 1] \in Numbers
          BY <2>2, <4>1 DEF IsAlong
        <4>3. G[n][P[n - 1]] = P[n - 1] \div 10
          BY <4>1, <4>2 DEF G
        <4> QED BY <3>2, <4>2, <4>3
      <3> QED BY <3>1, <3>2
    <2>4. Runs(P)
      BY <2>3 DEF Runs
    <2> QED BY <2>4
  <1>3. Runs(run)
    BY <1>2
  <1>4. CutFrom(size) = run
    BY Zenon DEF CutFrom
  <1> HIDE DEF run
  <1>5. run[0] = size /\ \A n \in 1 .. N : n \in 0 .. N /\ run[n] = run[n - 1] \div 10
    BY <1>1, <1>3
  <1> DEFINE S == {n \in 0 .. N : run[n] \in Nat}
  <1>6. 0 \in S
    BY <1>1, <1>5
  <1>7. ASSUME NEW n \in 1 .. N, n - 1 \in S PROVE n \in S
    <2>1. run[n - 1] \in Nat
      BY <1>7
    <2> QED BY <1>5, <2>1
  <1> HIDE DEF S
  <1>8. \A n \in 0 .. N : n \in S
    BY <1>1, <1>6, <1>7, UpTo
  <1>9. run \in [0 .. N -> Nat]
    BY <1>3, <1>8 DEF S
  <1> QED BY <1>4, <1>5, <1>9

\* A decimal as its fields are: digits that the network's precision holds.
IsDecimal(d) ==
    /\ d.whole \in Nat
    /\ Len(d.fraction) \in 0 .. PRECISION /\ DOMAIN d.fraction = 1 .. Len(d.fraction)
    /\ \A i \in 1 .. Len(d.fraction) : d.fraction[i] \in Nat

LEMMA Digits ==
    ASSUME NEW d, IsDecimal(d), NEW n \in 1 .. PRECISION
    PROVE  /\ Digit(d.fraction, n) \in Nat
           /\ Digit(d.fraction, n) = IF n <= Len(d.fraction) THEN d.fraction[n] ELSE 0
  BY DisplayAssumption DEF IsDecimal, Digit

LEMMA Reads ==
    ASSUME NEW d, IsDecimal(d)
    PROVE  /\ ReadOff(d) \in [0 .. PRECISION -> Nat]
           /\ ReadOff(d)[0] = d.whole
           /\ \A n \in 1 .. PRECISION :
                ReadOff(d)[n] = 10 * ReadOff(d)[n - 1] + Digit(d.fraction, n)
  <1> DEFINE N == PRECISION
             w == [n \in 1 .. N |-> Digit(d.fraction, n)]
             Runs(f) == f = [n \in 0 .. PRECISION |->
                               IF n = 0 THEN d.whole
                               ELSE 10 * f[n - 1] + Digit(d.fraction, n)]
             run == CHOOSE f : Runs(f)
             G == [n \in 1 .. N |-> [v \in Numbers |-> 10 * v + w[n]]]
  <1>1. N \in Nat /\ d.whole \in Nat
    BY DisplayAssumption DEF IsDecimal
  <1>2. w \in [1 .. N -> Nat] /\ \A n \in 1 .. N : w[n] = Digit(d.fraction, n)
    BY Digits
  <1> HIDE DEF w
  <1>3. \E f : Runs(f)
    <2> DEFINE b == d.whole
    <2>1. b \in Numbers /\ G \in [1 .. N -> [Numbers -> Numbers]]
      BY <1>1, <1>2 DEF Numbers
    <2> HIDE DEF b, G, Runs
    <2>2. PICK P \in [0 .. N -> Numbers] : IsAlong(P, N, b, G)
      BY <1>1, <2>1, Along
    <2>3. ASSUME NEW n \in 0 .. N
          PROVE  P[n] = IF n = 0 THEN d.whole ELSE 10 * P[n - 1] + Digit(d.fraction, n)
      <3>1. CASE n = 0
        BY <2>2, <3>1 DEF IsAlong, b
      <3>2. CASE n # 0
        <4>1. n \in 1 .. N /\ n - 1 \in 0 .. N
          BY <1>1, <3>2
        <4>2. P[n] = G[n][P[n - 1]] /\ P[n - 1] \in Numbers
          BY <2>2, <4>1 DEF IsAlong
        <4>3. G[n][P[n - 1]] = 10 * P[n - 1] + w[n]
          BY <4>1, <4>2 DEF G
        <4>4. w[n] = Digit(d.fraction, n)
          BY <1>2, <4>1
        <4> QED BY <3>2, <4>2, <4>3, <4>4
      <3> QED BY <3>1, <3>2
    <2>4. Runs(P)
      BY <2>3 DEF Runs
    <2> QED BY <2>4
  <1>4. Runs(run)
    BY <1>3
  <1>5. ReadOff(d) = run
    BY Zenon DEF ReadOff
  <1> HIDE DEF run
  <1>6. run[0] = d.whole /\ \A n \in 1 .. N : n \in 0 .. N /\ run[n] = 10 * run[n - 1] + w[n]
    BY <1>1, <1>2, <1>4
  <1> DEFINE S == {n \in 0 .. N : run[n] \in Nat}
  <1>7. 0 \in S
    BY <1>1, <1>6
  <1>8. ASSUME NEW n \in 1 .. N, n - 1 \in S PROVE n \in S
    <2>1. run[n - 1] \in Nat /\ w[n] \in Nat
      BY <1>2, <1>8
    <2> QED BY <1>6, <2>1
  <1> HIDE DEF S
  <1>9. \A n \in 0 .. N : n \in S
    BY <1>1, <1>7, <1>8, UpTo
  <1>10. run \in [0 .. N -> Nat]
    BY <1>4, <1>9 DEF S
  <1> QED BY <1>2, <1>5, <1>6, <1>10

LEMMA Worths ==
    ASSUME NEW d, IsDecimal(d)
    PROVE  /\ WorthOf(d) \in [0 .. Len(d.fraction) -> Nat]
           /\ WorthOf(d)[0] = d.whole * TenTo[PRECISION]
           /\ \A n \in 1 .. Len(d.fraction) :
                WorthOf(d)[n] = WorthOf(d)[n - 1] + d.fraction[n] * TenTo[PRECISION - n]
  <1> DEFINE N == Len(d.fraction)
             w == [n \in 1 .. N |-> d.fraction[n] * TenTo[PRECISION - n]]
             b == d.whole * TenTo[PRECISION]
             Runs(f) == f = [n \in 0 .. Len(d.fraction) |->
                               IF n = 0 THEN d.whole * TenTo[PRECISION]
                               ELSE f[n - 1] + d.fraction[n] * TenTo[PRECISION - n]]
             run == CHOOSE f : Runs(f)
             G == [n \in 1 .. N |-> [v \in Numbers |-> v + w[n]]]
  <1>1. N \in Nat /\ N \in 0 .. PRECISION /\ PRECISION \in Nat
    BY DisplayAssumption DEF IsDecimal
  <1>2. b \in Nat
    <2>1. d.whole \in Nat /\ TenTo[PRECISION] \in Nat
      BY <1>1, Powers DEF IsDecimal
    <2> QED BY <2>1
  <1>3. w \in [1 .. N -> Nat]
    <2>1. ASSUME NEW n \in 1 .. N PROVE d.fraction[n] * TenTo[PRECISION - n] \in Nat
      <3>1. d.fraction[n] \in Nat
        BY DEF IsDecimal
      <3>2. PRECISION - n \in 0 .. PRECISION
        BY <1>1
      <3>3. TenTo[PRECISION - n] \in Nat
        BY <3>2, Powers
      <3> QED BY <3>1, <3>3
    <2> QED BY <2>1
  <1>4. \A n \in 1 .. N : w[n] = d.fraction[n] * TenTo[PRECISION - n]
    OBVIOUS
  <1> HIDE DEF w
  <1>5. \E f : Runs(f)
    <2>1. b \in Numbers /\ G \in [1 .. N -> [Numbers -> Numbers]]
      BY <1>2, <1>3 DEF Numbers
    <2> HIDE DEF b, G, Runs, N
    <2>2. PICK P \in [0 .. N -> Numbers] : IsAlong(P, N, b, G)
      BY <1>1, <2>1, Along
    <2>3. ASSUME NEW n \in 0 .. N
          PROVE  P[n] = IF n = 0 THEN d.whole * TenTo[PRECISION]
                        ELSE P[n - 1] + d.fraction[n] * TenTo[PRECISION - n]
      <3>1. CASE n = 0
        BY <2>2, <3>1 DEF IsAlong, b
      <3>2. CASE n # 0
        <4>1. n \in 1 .. N /\ n - 1 \in 0 .. N
          BY <1>1, <3>2
        <4>2. P[n] = G[n][P[n - 1]] /\ P[n - 1] \in Numbers
          BY <2>2, <4>1 DEF IsAlong
        <4>3. G[n][P[n - 1]] = P[n - 1] + w[n]
          BY <4>1, <4>2 DEF G
        <4>4. w[n] = d.fraction[n] * TenTo[PRECISION - n]
          BY <1>4, <4>1
        <4> QED BY <3>2, <4>2, <4>3, <4>4
      <3> QED BY <3>1, <3>2
    <2>4. Runs(P)
      BY <2>3 DEF Runs, N
    <2> QED BY <2>4
  <1>6. Runs(run)
    BY <1>5
  <1>7. WorthOf(d) = run
    BY Zenon DEF WorthOf
  <1> HIDE DEF run
  <1>8. run[0] = b /\ \A n \in 1 .. N : n \in 0 .. N /\ run[n] = run[n - 1] + w[n]
    <2>1. run[0] = b
      BY <1>1, <1>6
    <2>2. ASSUME NEW n \in 1 .. N
          PROVE  n \in 0 .. N /\ run[n] = run[n - 1] + d.fraction[n] * TenTo[PRECISION - n]
      <3>1. n \in 0 .. N /\ n # 0
        BY <1>1
      <3> HIDE DEF b
      <3> QED BY <1>6, <3>1
    <2> HIDE DEF b, N, Runs
    <2> QED BY <1>4, <2>1, <2>2
  <1> DEFINE S == {n \in 0 .. N : run[n] \in Nat}
  <1>9. 0 \in S
    BY <1>1, <1>2, <1>8
  <1>10. ASSUME NEW n \in 1 .. N, n - 1 \in S PROVE n \in S
    <2>1. run[n - 1] \in Nat /\ w[n] \in Nat
      BY <1>3, <1>10
    <2> QED BY <1>8, <2>1
  <1> HIDE DEF S
  <1>11. \A n \in 0 .. N : n \in S
    <2> HIDE DEF N
    <2> QED BY <1>1, <1>9, <1>10, UpTo
  <1>12. run \in [0 .. N -> Nat]
    BY <1>6, <1>11 DEF S
  <1> QED BY <1>4, <1>7, <1>8, <1>12

\* Nonlinear arithmetic, set apart.
LEMMA Shifted ==
    ASSUME NEW a \in Nat, NEW c \in Nat, NEW t \in Nat
    PROVE  (10 * a + c) * t = a * (10 * t) + c * t
  OBVIOUS

\* Two ways to the same number: read digit by digit, or added up by places.
LEMMA ReadsItsWorth ==
    ASSUME NEW d, IsDecimal(d)
    PROVE  ReadOff(d)[PRECISION] = InStroops(d) /\ InStroops(d) \in Nat
  <1> DEFINE N == PRECISION
             F == Len(d.fraction)
             r == ReadOff(d)
             w == WorthOf(d)
             upto(n) == IF n <= F THEN n ELSE F
             S == {n \in 0 .. N : r[n] * TenTo[N - n] = w[upto(n)]}
  <1>1. N \in Nat /\ F \in 0 .. N /\ F \in Nat
    BY DisplayAssumption DEF IsDecimal
  <1>2. /\ r \in [0 .. N -> Nat] /\ r[0] = d.whole
        /\ \A n \in 1 .. N : r[n] = 10 * r[n - 1] + Digit(d.fraction, n)
    BY Reads
  <1>3. /\ w \in [0 .. F -> Nat] /\ w[0] = d.whole * TenTo[N]
        /\ \A n \in 1 .. F : w[n] = w[n - 1] + d.fraction[n] * TenTo[N - n]
    BY Worths
  <1>4. \A n \in 1 .. N : /\ Digit(d.fraction, n) \in Nat
                          /\ Digit(d.fraction, n) = IF n <= F THEN d.fraction[n] ELSE 0
    BY Digits
  <1> HIDE DEF N, F, r, w
  <1>5. /\ TenTo \in [0 .. N -> Nat] /\ TenTo[0] = 1
        /\ \A n \in 1 .. N : TenTo[n] = 10 * TenTo[n - 1]
    BY Powers DEF N
  <1>6. 0 \in S
    <2>1. N - 0 = N /\ 0 \in 0 .. N /\ upto(0) = 0
      BY <1>1
    <2> QED BY <1>2, <1>3, <2>1
  <1>7. ASSUME NEW n \in 1 .. N, n - 1 \in S
        PROVE  n \in S
    <2> DEFINE a == r[n - 1]
               c == Digit(d.fraction, n)
               t == TenTo[N - n]
    <2>1. /\ n \in 0 .. N /\ n - 1 \in 0 .. N /\ N - n \in 0 .. N /\ N - (n - 1) \in 1 .. N
          /\ N - (n - 1) - 1 = N - n
      BY <1>1
    <2>2. a \in Nat /\ c \in Nat /\ t \in Nat
      BY <1>2, <1>4, <1>5, <2>1
    <2>3. TenTo[N - (n - 1)] = 10 * t
      BY <1>5, <2>1
    <2>4. a * (10 * t) = w[upto(n - 1)]
      BY <1>7, <2>3
    <2>5. r[n] = 10 * a + c
      BY <1>2
    <2>6. c = IF n <= F THEN d.fraction[n] ELSE 0
      BY <1>4
    <2> HIDE DEF a, c
    <2>7. CASE n <= F
      <3>1. n \in 1 .. F /\ upto(n) = n /\ upto(n - 1) = n - 1
        BY <1>1, <2>7
      <3>2. w[n] = w[n - 1] + c * t
        BY <1>3, <2>6, <2>7, <3>1
      <3> HIDE DEF upto, t
      <3>3. (10 * a + c) * t = a * (10 * t) + c * t
        BY <2>2, Shifted
      <3>4. r[n] * t = w[upto(n)]
        BY <2>4, <2>5, <3>1, <3>2, <3>3
      <3> QED BY <2>1, <3>4 DEF t
    <2>8. CASE ~(n <= F)
      <3>1. upto(n) = F /\ upto(n - 1) = F
        BY <1>1, <2>8
      <3>2. c = 0
        BY <2>6, <2>8
      <3> HIDE DEF upto, t
      <3>3. (10 * a + c) * t = a * (10 * t) + c * t
        BY <2>2, Shifted
      <3>4. c * t = 0 /\ a * (10 * t) \in Nat
        BY <2>2, <3>2
      <3>5. r[n] * t = a * (10 * t)
        BY <2>5, <3>3, <3>4
      <3>6. r[n] * t = w[upto(n)]
        BY <2>4, <3>1, <3>5
      <3> QED BY <2>1, <3>6 DEF t
    <2> QED BY <2>7, <2>8
  <1>8. N \in S
    <2> HIDE DEF S
    <2>1. \A n \in 0 .. N : n \in S
      BY <1>1, <1>6, <1>7, UpTo
    <2> QED BY <1>1, <2>1
  <1>9. r[N] * TenTo[N - N] = w[F]
    BY <1>1, <1>8
  <1>10. r[N] = w[F] /\ w[F] \in Nat
    <2>1. N - N = 0 /\ r[N] \in Nat /\ w[F] \in Nat
      BY <1>1, <1>2, <1>3
    <2> QED BY <1>5, <1>9, <2>1
  <1> QED BY <1>10 DEF InStroops, N, F, r, w

LEMMA TrimmedFacts ==
    ASSUME NEW N \in Nat, NEW digits \in [1 .. N -> Nat],
           NEW d, d.fraction = Trimmed(digits)
    PROVE  /\ Len(d.fraction) \in 0 .. N /\ DOMAIN d.fraction = 1 .. Len(d.fraction)
           /\ \A i \in 1 .. Len(d.fraction) : d.fraction[i] \in Nat
           /\ \A i \in 1 .. N : Digit(d.fraction, i) = digits[i]
  <1> DEFINE kept == {i \in DOMAIN digits : digits[i] # 0}
             s == Trimmed(digits)
  <1>1. DOMAIN digits = 1 .. N /\ kept \in SUBSET (1 .. N)
    OBVIOUS
  <1>2. CASE kept = {}
    <2>1. s = <<>>
      BY <1>2 DEF Trimmed
    <2>2. \A i \in 1 .. N : digits[i] = 0
      BY <1>2
    <2> HIDE DEF s
    <2>3. Len(s) = 0 /\ DOMAIN s = 1 .. Len(s) /\ DOMAIN s = {}
      BY <2>1, Entries, EmptySeq
    <2>4. \A i \in 1 .. N : Digit(s, i) = digits[i]
      BY <2>2, <2>3 DEF Digit
    <2> QED BY <2>3, <2>4 DEF s
  <1>3. CASE kept # {}
    <2> DEFINE m == Max(kept)
    <2>1. m \in kept /\ \A i \in kept : i <= m
      BY <1>1, <1>3, MaxOfPart
    <2>2. m \in 1 .. N /\ m \in Nat /\ m \in Int /\ 1 \in Int
      BY <1>1, <2>1
    <2>3. s = SubSeq(digits, 1, m)
      BY <1>3 DEF Trimmed
    <2> HIDE DEF m, s
    <2>4. \A i \in 1 .. m : digits[i] \in Numbers
      BY <2>2 DEF Numbers
    <2>5. /\ s \in Seq(Numbers) /\ Len(s) = (IF 1 <= m THEN m - 1 + 1 ELSE 0)
          /\ \A i \in 1 .. m - 1 + 1 : s[i] = digits[1 + i - 1]
      BY <2>2, <2>3, <2>4, SubSeqProperties
    <2>6. Len(s) = m /\ DOMAIN s = 1 .. m
      BY <2>2, <2>5
    <2>7. \A i \in 1 .. m : s[i] = digits[i] /\ i \in 1 .. N
      BY <2>2, <2>5
    <2>8. ASSUME NEW i \in 1 .. N PROVE Digit(s, i) = digits[i]
      <3>1. CASE i \in 1 .. m
        BY <2>6, <2>7, <3>1 DEF Digit
      <3>2. CASE i \notin 1 .. m
        <4>1. ~(i <= m)
          BY <2>2, <3>2
        <4>2. digits[i] = 0
          BY <1>1, <2>1, <4>1
        <4> QED BY <2>6, <3>2, <4>2 DEF Digit
      <3> QED BY <3>1, <3>2
    <2>9. \A i \in 1 .. m : s[i] \in Nat
      BY <2>7
    <2> QED BY <2>2, <2>6, <2>8, <2>9 DEF s
  <1> QED BY <1>2, <1>3

LEMMA TenthAndRest ==
    ASSUME NEW n \in Nat
    PROVE  n = 10 * (n \div 10) + (n % 10) /\ n % 10 \in Nat
  OBVIOUS

\* A number survives its formatting.
LEMMA FormattedBack ==
    ASSUME NEW raw \in Int
    PROVE  LET amount == FormatAmount(raw)
           IN  (IF amount.negative THEN -1 ELSE 1) * InStroops(amount) = raw
  <1> DEFINE N == PRECISION
             size == IF raw < 0 THEN 0 - raw ELSE raw
             left == CutFrom(size)
             digits == [i \in 1 .. N |-> left[N - i] % 10]
             d == FormatAmount(raw)
  <1>1. N \in Nat /\ size \in Nat
    BY DisplayAssumption
  <1>2. /\ left \in [0 .. N -> Nat] /\ left[0] = size
        /\ \A n \in 1 .. N : left[n] = left[n - 1] \div 10
    BY <1>1, Cuts
  <1>3. d.negative = (raw < 0) /\ d.whole = left[N] /\ d.fraction = Trimmed(digits)
    BY DEF FormatAmount
  <1> HIDE DEF N, d, left
  <1>4. digits \in [1 .. N -> Nat]
    <2>1. ASSUME NEW i \in 1 .. N PROVE left[N - i] % 10 \in Nat
      <3>1. N - i \in 0 .. N
        BY <1>1
      <3>2. left[N - i] \in Nat
        BY <1>2, <3>1
      <3> QED BY <3>2
    <2> QED BY <2>1
  <1>5. \A i \in 1 .. N : digits[i] = left[N - i] % 10
    OBVIOUS
  <1> HIDE DEF digits
  <1>6. /\ Len(d.fraction) \in 0 .. N /\ DOMAIN d.fraction = 1 .. Len(d.fraction)
        /\ \A i \in 1 .. Len(d.fraction) : d.fraction[i] \in Nat
        /\ \A i \in 1 .. N : Digit(d.fraction, i) = digits[i]
    BY <1>1, <1>3, <1>4, TrimmedFacts
  <1>7. left[N] \in Nat
    BY <1>1, <1>2
  <1>8. IsDecimal(d)
    BY <1>3, <1>6, <1>7 DEF IsDecimal, N
  <1> DEFINE r == ReadOff(d)
             S == {n \in 0 .. N : r[n] = left[N - n]}
  <1>9. /\ r[0] = left[N]
        /\ \A n \in 1 .. N : r[n] = 10 * r[n - 1] + digits[n]
    <2>1. /\ r[0] = d.whole
          /\ \A n \in 1 .. N : r[n] = 10 * r[n - 1] + Digit(d.fraction, n)
      BY <1>8, Reads DEF N
    <2> HIDE DEF r
    <2> QED BY <1>3, <1>6, <2>1
  <1> HIDE DEF r
  <1>10. 0 \in S
    <2>1. N - 0 = N /\ 0 \in 0 .. N
      BY <1>1
    <2> QED BY <1>9, <2>1
  <1>11. ASSUME NEW n \in 1 .. N, n - 1 \in S PROVE n \in S
    <2> DEFINE m == N - n
    <2>1. m \in 0 .. N /\ m + 1 \in 1 .. N /\ N - (n - 1) = m + 1 /\ (m + 1) - 1 = m
          /\ n \in 0 .. N
      BY <1>1
    <2>2. r[n - 1] = left[m + 1]
      BY <1>11, <2>1
    <2>3. left[m + 1] = left[m] \div 10 /\ left[m] \in Nat
      BY <1>2, <2>1
    <2>4. digits[n] = left[m] % 10
      BY <1>5
    <2> HIDE DEF m
    <2>5. r[n] = 10 * (left[m] \div 10) + (left[m] % 10)
      BY <1>9, <2>2, <2>3, <2>4
    <2>6. r[n] = left[m]
      BY <2>3, <2>5, TenthAndRest
    <2> QED BY <2>1, <2>6 DEF m
  <1> HIDE DEF S
  <1>12. N \in S
    <2>1. \A n \in 0 .. N : n \in S
      BY <1>1, <1>10, <1>11, UpTo
    <2> QED BY <1>1, <2>1
  <1>13. r[N] = size
    <2>1. N - N = 0
      BY <1>1
    <2> QED BY <1>2, <1>12, <2>1 DEF S
  <1>14. InStroops(d) = size
    BY <1>8, <1>13, ReadsItsWorth DEF r, N
  <1>15. (IF d.negative THEN -1 ELSE 1) * InStroops(d) = raw
    <2>1. (IF d.negative THEN -1 ELSE 1) = (IF raw < 0 THEN -1 ELSE 1)
      BY <1>3, Zenon
    <2>2. (IF raw < 0 THEN -1 ELSE 1) * InStroops(d) = raw
      BY <1>14
    <2> QED BY <2>1, <2>2, Zenon
  <1> QED BY <1>15, Zenon DEF d

-----------------------------------------------------------------------------
\* What the effects add up to.

AsListed(effects) ==
    /\ effects \in Seq(ToSet(effects))
    /\ \A n \in DOMAIN effects : HorizonEffect(effects[n])

LEMMA ListedFacts ==
    ASSUME NEW effects, AsListed(effects)
    PROVE  /\ Len(effects) \in Nat /\ DOMAIN effects = 1 .. Len(effects)
           /\ \A n \in 1 .. Len(effects) : HorizonEffect(effects[n])
  BY LenProperties DEF AsListed

\* An asset that can be told: it has a code.
Nameable(asset) == HorizonAsset(asset) /\ asset.kind \in {"native", "issued"}

LEMMA NamedFacts ==
    ASSUME NEW asset, HorizonAsset(asset)
    PROVE  /\ Named(asset).code = Absent <=> asset.kind \notin {"native", "issued"}
           /\ asset.kind = "native" => /\ asset = [kind |-> "native"]
                                       /\ Named(asset).issuer = Absent
           /\ asset.kind = "issued" =>
                /\ asset = [kind |-> "issued", code |-> asset.code, issuer |-> asset.issuer]
                /\ Named(asset).code = asset.code
                /\ Named(asset).issuer = asset.issuer /\ asset.issuer # Absent
  <1>1. asset # Absent
    BY DEF HorizonAsset
  <1>2. CASE asset = [kind |-> "native"]
    <2>1. asset.kind = "native"
      BY <1>2
    <2>2. Named(asset) = [code |-> XLM, issuer |-> Absent]
      BY <1>1, <2>1 DEF Named
    <2> QED BY <1>2, <2>1, <2>2, AbsentAssumption
  <1>3. CASE asset = [kind |-> "pool"]
    <2>1. asset.kind = "pool"
      BY <1>3
    <2>2. Named(asset) = [code |-> Absent, issuer |-> Absent]
      BY <1>1, <2>1 DEF Named
    <2> QED BY <2>1, <2>2
  <1>4. CASE /\ asset = [kind |-> "issued", code |-> asset.code, issuer |-> asset.issuer]
             /\ Absent \notin {asset.code, asset.issuer}
    <2>1. asset.kind = "issued"
      BY <1>4
    <2>2. Named(asset) = [code |-> asset.code, issuer |-> asset.issuer]
      BY <1>1, <2>1 DEF Named
    <2> QED BY <1>4, <2>1, <2>2
  <1> QED BY <1>2, <1>3, <1>4 DEF HorizonAsset

\* A key is of one balance only.
LEMMA KeysTellApart ==
    ASSUME NEW g, NEW h, NEW a, NEW b, Nameable(a), Nameable(b),
           KeyOf(g, Named(a)) = KeyOf(h, Named(b))
    PROVE  g = h /\ a = b
  <1>1. g = h /\ Named(a).code = Named(b).code /\ Named(a).issuer = Named(b).issuer
    BY DEF KeyOf
  <1>2. HorizonAsset(a) /\ HorizonAsset(b)
        /\ a.kind \in {"native", "issued"} /\ b.kind \in {"native", "issued"}
    BY DEF Nameable
  <1>3. CASE a.kind = "native" /\ b.kind = "native"
    BY <1>1, <1>2, <1>3, NamedFacts
  <1>4. CASE a.kind = "issued" /\ b.kind = "issued"
    <2>1. a.code = b.code /\ a.issuer = b.issuer
      BY <1>1, <1>2, <1>4, NamedFacts
    <2>2. /\ a = [kind |-> "issued", code |-> a.code, issuer |-> a.issuer]
          /\ b = [kind |-> "issued", code |-> b.code, issuer |-> b.issuer]
      BY <1>2, <1>4, NamedFacts
    <2> QED BY <1>1, <2>1, <2>2, Zenon
  <1>5. CASE a.kind # b.kind
    <2>1. \/ Named(a).issuer = Absent /\ Named(b).issuer # Absent
          \/ Named(b).issuer = Absent /\ Named(a).issuer # Absent
      BY <1>2, <1>5, NamedFacts
    <2> QED BY <1>1, <2>1
  <1> QED BY <1>2, <1>3, <1>4, <1>5

\* What is added up is what can be told, and under whom.
LEMMA CountedIsSayable ==
    ASSUME NEW e, HorizonEffect(e)
    PROVE  /\ Counted(e) <=>
                /\ Moves(e) /\ e.amount # Malformed /\ Len(e.amount.fraction) <= PRECISION
                /\ e.asset.kind \in {"native", "issued"}
           /\ Counted(e) =>
                /\ Nameable(e.asset)
                /\ CountedUnder(e) = KeyOf(TrueHolder(e), Named(e.asset))
                /\ SignedMove(e) = (IF e.credited THEN InStroops(e.amount)
                                    ELSE 0 - InStroops(e.amount))
                /\ SignedMove(e) \in Int
  <1>1. CASE ~Moves(e)
    BY <1>1 DEF Counted
  <1>2. CASE Moves(e)
    <2>1. /\ e.credited \in BOOLEAN /\ HorizonAsset(e.asset) /\ e.amount # Absent
          /\ e.amount = Malformed \/ e.amount \in [whole : Nat, fraction : Seq(0 .. 9)]
      BY <1>2 DEF HorizonEffect
    <2>2. BalanceHolderOf(e) = TrueHolder(e) /\ BalanceHolderOf(e) # Absent
      <3>1. CASE e.type = "contract"
        BY <1>2, <3>1 DEF HorizonEffect, BalanceHolderOf, FirstOf, TrueHolder
      <3>2. CASE e.type = "account"
        BY <1>2, <3>2 DEF HorizonEffect, BalanceHolderOf, FirstOf, TrueHolder
      <3> QED BY <1>2, <3>1, <3>2 DEF Moves
    <2>3. Named(e.asset).code = Absent <=> e.asset.kind \notin {"native", "issued"}
      BY <2>1, NamedFacts
    <2>4. ASSUME e.amount # Malformed, Len(e.amount.fraction) <= PRECISION
          PROVE  DecimalToStroops(e.amount) = InStroops(e.amount) /\ InStroops(e.amount) \in Nat
      <3> DEFINE digits == e.amount.fraction
      <3>1. e.amount.whole \in Nat /\ digits \in Seq(0 .. 9)
        BY <2>1, <2>4
      <3>2. Len(digits) \in Nat /\ DOMAIN digits = 1 .. Len(digits)
            /\ \A i \in 1 .. Len(digits) : digits[i] \in Nat
        <4> DEFINE ten == 0 .. 9
        <4>1. digits \in Seq(ten)
          BY <3>1
        <4>2. \A x : x \in ten => x \in Nat
          OBVIOUS
        <4> HIDE DEF ten, digits
        <4>3. Len(digits) \in Nat /\ DOMAIN digits = 1 .. Len(digits)
              /\ \A i \in 1 .. Len(digits) : digits[i] \in ten
          BY <4>1, LenProperties, ElementOfSeq
        <4> QED BY <4>2, <4>3, Zenon
      <3>3. IsDecimal(e.amount)
        BY <2>4, <3>1, <3>2, DisplayAssumption DEF IsDecimal
      <3>4. ReadOff(e.amount)[PRECISION] = InStroops(e.amount) /\ InStroops(e.amount) \in Nat
        BY <3>3, ReadsItsWorth
      <3>5. DecimalToStroops(e.amount) = ReadOff(e.amount)[PRECISION]
        <4>1. ~(Len(digits) > PRECISION)
          <5> HIDE DEF digits
          <5>1. Len(digits) <= PRECISION
            BY <2>4 DEF digits
          <5> QED BY <3>2, <5>1, DisplayAssumption
        <4> QED BY <2>1, <2>4, <4>1, Zenon DEF DecimalToStroops
      <3> QED BY <3>4, <3>5
    <2>5. DecimalToStroops(e.amount) = Absent <=>
            ~(e.amount # Malformed /\ Len(e.amount.fraction) <= PRECISION)
      <3>1. CASE e.amount # Malformed /\ Len(e.amount.fraction) <= PRECISION
        BY <2>4, <3>1, AbsentAssumption
      <3>2. CASE e.amount = Malformed
        BY <3>2, Zenon DEF DecimalToStroops
      <3>3. CASE e.amount # Malformed /\ ~(Len(e.amount.fraction) <= PRECISION)
        <4> DEFINE digits == e.amount.fraction
        <4>1. digits \in Seq(0 .. 9)
          BY <2>1, <3>3
        <4>2. Len(digits) \in Nat /\ PRECISION \in Nat
          BY <4>1, LenProperties, DisplayAssumption
        <4>3. Len(digits) > PRECISION
          BY <3>3, <4>2
        <4> QED BY <3>3, <4>3, Zenon DEF DecimalToStroops
      <3> QED BY <3>1, <3>2, <3>3
    <2>6. Counted(e) <=>
            /\ e.amount # Malformed /\ Len(e.amount.fraction) <= PRECISION
            /\ e.asset.kind \in {"native", "issued"}
      <3>1. Counted(e) <=> /\ Named(e.asset).code # Absent
                           /\ DecimalToStroops(e.amount) # Absent
        BY <1>2, <2>2, Zenon DEF Counted
      <3> QED BY <2>3, <2>5, <3>1, Zenon
    <2>7. ASSUME Counted(e)
          PROVE  /\ Nameable(e.asset)
                 /\ CountedUnder(e) = KeyOf(TrueHolder(e), Named(e.asset))
                 /\ SignedMove(e) = (IF e.credited THEN InStroops(e.amount)
                                     ELSE 0 - InStroops(e.amount))
                 /\ SignedMove(e) \in Int
      <3>1. DecimalToStroops(e.amount) = InStroops(e.amount) /\ InStroops(e.amount) \in Nat
        BY <2>4, <2>6, <2>7
      <3>2. SignedMove(e) = (IF e.credited THEN InStroops(e.amount)
                             ELSE 0 - InStroops(e.amount))
        BY <3>1, Zenon DEF SignedMove
      <3>3. SignedMove(e) \in Int
        BY <3>1, <3>2
      <3>4. Nameable(e.asset)
        BY <2>1, <2>6, <2>7 DEF Nameable
      <3> QED BY <2>2, <3>2, <3>3, <3>4 DEF CountedUnder
    <2> QED BY <1>2, <2>6, <2>7
  <1> QED BY <1>1, <1>2

\* What one effect adds to a balance.
PartOf(e, key) == IF Counted(e) /\ CountedUnder(e) = key THEN SignedMove(e) ELSE 0

LEMMA PartIsTheMove ==
    ASSUME NEW effects, AsListed(effects), NEW n \in 1 .. Len(effects),
           NEW holder, NEW asset, Nameable(asset)
    PROVE  /\ MovedBy(effects, n, holder, asset) = PartOf(effects[n], KeyOf(holder, Named(asset)))
           /\ PartOf(effects[n], KeyOf(holder, Named(asset))) \in Int
  <1> DEFINE e == effects[n]
             key == KeyOf(holder, Named(asset))
  <1>1. HorizonEffect(e) /\ n \in DOMAIN effects
    BY ListedFacts
  <1>2. n \in Sayable(effects) <=> Counted(e)
    BY <1>1, CountedIsSayable DEF Sayable
  <1>3. CASE ~Counted(e)
    BY <1>2, <1>3 DEF MovedBy, PartOf
  <1>4. CASE Counted(e)
    <2>1. /\ Nameable(e.asset) /\ CountedUnder(e) = KeyOf(TrueHolder(e), Named(e.asset))
          /\ SignedMove(e) = (IF e.credited THEN InStroops(e.amount)
                              ELSE 0 - InStroops(e.amount))
          /\ SignedMove(e) \in Int
      BY <1>1, <1>4, CountedIsSayable
    <2> HIDE DEF key
    <2>2. CountedUnder(e) = key <=> TrueHolder(e) = holder /\ e.asset = asset
      BY <2>1, KeysTellApart DEF key
    <2>3. MovedBy(effects, n, holder, asset)
            = IF TrueHolder(e) = holder /\ e.asset = asset THEN SignedMove(e) ELSE 0
      BY <1>2, <1>4, <2>1, Zenon DEF MovedBy
    <2>4. PartOf(e, key) = IF CountedUnder(e) = key THEN SignedMove(e) ELSE 0
      BY <1>4, Zenon DEF PartOf
    <2>5. PartOf(e, key) \in Int
      BY <2>1, <2>4
    <2>6. MovedBy(effects, n, holder, asset) = PartOf(e, key)
      BY <2>2, <2>3, <2>4
    <2> QED BY <2>5, <2>6 DEF key
  <1> QED BY <1>3, <1>4

WholeNumbers == Int

LEMMA ChangeFacts ==
    ASSUME NEW effects, AsListed(effects), NEW holder, NEW asset, Nameable(asset)
    PROVE  LET change == ChangeOf(effects, holder, asset)
           IN  /\ change \in [0 .. Len(effects) -> Int]
               /\ change[0] = 0
               /\ \A n \in 1 .. Len(effects) :
                    change[n] = change[n - 1]
                                  + PartOf(effects[n], KeyOf(holder, Named(asset)))
  <1> DEFINE N == Len(effects)
             w == [n \in 1 .. N |-> MovedBy(effects, n, holder, asset)]
             Runs(f) == f = [n \in 0 .. Len(effects) |->
                               IF n = 0 THEN 0
                               ELSE f[n - 1] + MovedBy(effects, n, holder, asset)]
             run == CHOOSE f : Runs(f)
             G == [n \in 1 .. N |-> [v \in WholeNumbers |-> v + w[n]]]
  <1>1. N \in Nat
    BY ListedFacts
  <1>2. ASSUME NEW n \in 1 .. N
        PROVE  /\ MovedBy(effects, n, holder, asset)
                    = PartOf(effects[n], KeyOf(holder, Named(asset)))
               /\ MovedBy(effects, n, holder, asset) \in Int
    BY PartIsTheMove
  <1>3. w \in [1 .. N -> Int] /\ \A n \in 1 .. N : w[n] = MovedBy(effects, n, holder, asset)
    BY <1>2
  <1> HIDE DEF w
  <1>4. \E f : Runs(f)
    <2> DEFINE b == 0
    <2>1. b \in WholeNumbers /\ G \in [1 .. N -> [WholeNumbers -> WholeNumbers]]
      BY <1>3 DEF WholeNumbers
    <2> HIDE DEF b, G, Runs, N
    <2>2. PICK P \in [0 .. N -> WholeNumbers] : IsAlong(P, N, b, G)
      BY <1>1, <2>1, Along
    <2>3. ASSUME NEW n \in 0 .. N
          PROVE  P[n] = IF n = 0 THEN 0 ELSE P[n - 1] + MovedBy(effects, n, holder, asset)
      <3>1. CASE n = 0
        BY <2>2, <3>1 DEF IsAlong, b
      <3>2. CASE n # 0
        <4>1. n \in 1 .. N /\ n - 1 \in 0 .. N
          BY <1>1, <3>2
        <4>2. P[n] = G[n][P[n - 1]] /\ P[n - 1] \in WholeNumbers
          BY <2>2, <4>1 DEF IsAlong
        <4>3. G[n][P[n - 1]] = P[n - 1] + w[n]
          BY <4>1, <4>2 DEF G
        <4>4. w[n] = MovedBy(effects, n, holder, asset)
          BY <1>3, <4>1
        <4> QED BY <3>2, <4>2, <4>3, <4>4
      <3> QED BY <3>1, <3>2
    <2>4. Runs(P)
      BY <2>3 DEF Runs, N
    <2> QED BY <2>4
  <1>5. Runs(run)
    BY <1>4
  <1>6. ChangeOf(effects, holder, asset) = run
    BY Zenon DEF ChangeOf
  <1> HIDE DEF run
  <1>7. run[0] = 0 /\ \A n \in 1 .. N : n \in 0 .. N /\ run[n] = run[n - 1] + w[n]
    <2>1. run[0] = 0
      BY <1>1, <1>5
    <2>2. ASSUME NEW n \in 1 .. N
          PROVE  n \in 0 .. N /\ run[n] = run[n - 1] + MovedBy(effects, n, holder, asset)
      <3>1. n \in 0 .. N /\ n # 0
        BY <1>1
      <3> QED BY <1>5, <3>1
    <2> HIDE DEF N, Runs
    <2> QED BY <1>3, <2>1, <2>2
  <1> DEFINE S == {n \in 0 .. N : run[n] \in Int}
  <1>8. 0 \in S
    BY <1>1, <1>7
  <1>9. ASSUME NEW n \in 1 .. N, n - 1 \in S PROVE n \in S
    <2>1. run[n - 1] \in Int /\ w[n] \in Int
      BY <1>3, <1>9
    <2> QED BY <1>7, <2>1
  <1> HIDE DEF S
  <1>10. \A n \in 0 .. N : n \in S
    <2> HIDE DEF N
    <2> QED BY <1>1, <1>8, <1>9, UpTo
  <1>11. run \in [0 .. N -> Int]
    BY <1>5, <1>10 DEF S
  <1>12. \A n \in 1 .. N : w[n] = PartOf(effects[n], KeyOf(holder, Named(asset)))
    BY <1>2, <1>3
  <1> QED BY <1>6, <1>7, <1>11, <1>12

KeysAmong(effects) == {CountedUnder(e) : e \in ToSet(effects)}

\* The lists that totals can be.
TotalLists(effects) == Seq([key : KeysAmong(effects), stroops : Int])

LEMMA TotalListFacts ==
    ASSUME NEW effects, NEW totals \in TotalLists(effects)
    PROVE  /\ Len(totals) \in Nat /\ DOMAIN totals = 1 .. Len(totals)
           /\ \A i \in 1 .. Len(totals) :
                /\ totals[i] \in [key : KeysAmong(effects), stroops : Int]
                /\ totals[i].key \in KeysAmong(effects) /\ totals[i].stroops \in Int
  <1> DEFINE row == [key : KeysAmong(effects), stroops : Int]
  <1>1. totals \in Seq(row)
    BY DEF TotalLists
  <1> HIDE DEF row
  <1>2. Len(totals) \in Nat /\ DOMAIN totals = 1 .. Len(totals)
        /\ \A i \in 1 .. Len(totals) : totals[i] \in row
    BY <1>1, LenProperties, ElementOfSeq
  <1>3. \A r \in row : r.key \in KeysAmong(effects) /\ r.stroops \in Int
    BY DEF row
  <1> QED BY <1>2, <1>3 DEF row

\* The totals after one more effect: a line of them is about one key, and the
\* effect changes the line of its own.
NextTotals(totals, e, after) ==
    LET N == Len(totals)
        key == CountedUnder(e)
    IN  \/ /\ \A i \in 1 .. N : totals[i].key # key
           /\ Len(after) = N + 1 /\ DOMAIN after = 1 .. N + 1
           /\ \A i \in 1 .. N : after[i] = totals[i]
           /\ after[N + 1].key = key /\ after[N + 1].stroops = SignedMove(e)
        \/ /\ Len(after) = N /\ DOMAIN after = 1 .. N
           /\ \E k \in 1 .. N :
                /\ totals[k].key = key
                /\ \A i \in 1 .. N : after[i].key = totals[i].key
                /\ \A i \in 1 .. N : i # k => after[i].stroops = totals[i].stroops
                /\ after[k].stroops = totals[k].stroops + SignedMove(e)

LEMMA AddToFacts ==
    ASSUME NEW effects, AsListed(effects), NEW totals \in TotalLists(effects),
           NEW e \in ToSet(effects)
    PROVE  /\ AddTo(totals, e) \in TotalLists(effects)
           /\ ~Counted(e) => AddTo(totals, e) = totals
           /\ Counted(e) => NextTotals(totals, e, AddTo(totals, e))
  <1> DEFINE N == Len(totals)
             key == CountedUnder(e)
             move == SignedMove(e)
             at == {i \in DOMAIN totals : totals[i].key = key}
             k == CHOOSE i \in at : TRUE
             row == [key : KeysAmong(effects), stroops : Int]
             after == AddTo(totals, e)
  <1>1. /\ N \in Nat /\ DOMAIN totals = 1 .. N
        /\ \A i \in 1 .. N : totals[i] \in row /\ totals[i].stroops \in Int
    BY TotalListFacts
  <1>2. key \in KeysAmong(effects)
    BY DEF KeysAmong
  <1>3. CASE ~Counted(e)
    BY <1>3 DEF AddTo
  <1>4. CASE Counted(e)
    <2>1. move \in Int
      <3>1. HorizonEffect(e)
        BY ListedFacts DEF ToSet
      <3> QED BY <1>4, <3>1, CountedIsSayable
    <2>2. totals \in Seq(row)
      BY DEF TotalLists
    <2>3. CASE at = {}
      <3> DEFINE line == [key |-> key, stroops |-> move]
      <3>1. after = Append(totals, line)
        BY <1>4, <2>3 DEF AddTo
      <3>2. line \in row /\ line.key = key /\ line.stroops = move
        BY <1>2, <2>1
      <3>3. \A i \in 1 .. N : totals[i].key # key
        BY <1>1, <2>3
      <3> HIDE DEF line, after, row, key, move, at
      <3>4. /\ after \in Seq(row) /\ Len(after) = N + 1
            /\ \A i \in 1 .. N : after[i] = totals[i]
            /\ after[N + 1] = line
        BY <1>1, <2>2, <3>1, <3>2, AppendProperties
      <3>5. DOMAIN after = 1 .. N + 1
        BY <3>4, LenProperties
      <3> HIDE DEF N
      <3>6. NextTotals(totals, e, after)
        BY <3>2, <3>3, <3>4, <3>5, Zenon DEF NextTotals, N, key, move
      <3> QED BY <1>4, <3>4, <3>6 DEF TotalLists, row, after
    <2>4. CASE at # {}
      <3>1. k \in at
        BY <2>4
      <3>2. k \in 1 .. N /\ totals[k].key = key
        BY <1>1, <3>1
      <3>3. after = [totals EXCEPT ![k].stroops = @ + move]
        BY <1>4, <2>4 DEF AddTo
      <3> HIDE DEF k, after, key, move, at
      <3> DEFINE line == [totals[k] EXCEPT !.stroops = totals[k].stroops + move]
      <3>4. after = [totals EXCEPT ![k] = line]
        BY <3>3
      <3>5. line \in row /\ line.key = totals[k].key /\ line.stroops = totals[k].stroops + move
        BY <1>1, <2>1, <3>2
      <3> HIDE DEF line, row
      <3>6. /\ DOMAIN after = 1 .. N
            /\ \A i \in 1 .. N : after[i] = IF i = k THEN line ELSE totals[i]
        BY <1>1, <3>2, <3>4
      <3>7. \A i \in 1 .. N : after[i] \in row
        BY <1>1, <3>5, <3>6
      <3>8. after = [i \in 1 .. N |-> after[i]]
        BY <1>1, <3>4, <3>6
      <3>9. after \in Seq(row) /\ Len(after) = N
        <4>1. after \in [1 .. N -> row]
          BY <3>7, <3>8
        <4>2. after \in Seq(row)
          BY <1>1, <4>1, SeqDef
        <4> HIDE DEF N
        <4> QED BY <1>1, <3>6, <4>2, LenProperties
      <3>10. /\ \A i \in 1 .. N : after[i].key = totals[i].key
             /\ \A i \in 1 .. N : i # k => after[i].stroops = totals[i].stroops
             /\ after[k].stroops = totals[k].stroops + move
        BY <3>2, <3>5, <3>6
      <3> HIDE DEF N
      <3>11. NextTotals(totals, e, after)
        BY <3>2, <3>6, <3>9, <3>10, Zenon DEF NextTotals, N, key, move
      <3> QED BY <1>4, <3>9, <3>11 DEF TotalLists, row, after
    <2> QED BY <2>3, <2>4
  <1> QED BY <1>3, <1>4

LEMMA TotalsFacts ==
    ASSUME NEW effects, AsListed(effects)
    PROVE  LET totals == TotalsOf(effects)
           IN  /\ totals \in [0 .. Len(effects) -> TotalLists(effects)]
               /\ totals[0] = <<>>
               /\ \A n \in 1 .. Len(effects) : totals[n] = AddTo(totals[n - 1], effects[n])
  <1> DEFINE N == Len(effects)
             T == TotalLists(effects)
             Runs(f) == f = [n \in 0 .. Len(effects) |->
                               IF n = 0 THEN <<>> ELSE AddTo(f[n - 1], effects[n])]
             run == CHOOSE f : Runs(f)
             G == [n \in 1 .. N |-> [t \in T |-> AddTo(t, effects[n])]]
  <1>1. N \in Nat /\ \A n \in 1 .. N : effects[n] \in ToSet(effects)
    BY ListedFacts DEF ToSet
  <1>2. ASSUME NEW n \in 1 .. N, NEW t \in T PROVE AddTo(t, effects[n]) \in T
    BY <1>1, AddToFacts
  <1>3. <<>> \in T
    BY EmptySeq DEF TotalLists
  <1> HIDE DEF T, N
  <1>4. \E f : Runs(f)
    <2> DEFINE b == <<>>
    <2>1. b \in T /\ G \in [1 .. N -> [T -> T]]
      BY <1>2, <1>3
    <2> HIDE DEF b, G, Runs
    <2>2. PICK P \in [0 .. N -> T] : IsAlong(P, N, b, G)
      BY <1>1, <2>1, Along
    <2>3. ASSUME NEW n \in 0 .. N
          PROVE  P[n] = IF n = 0 THEN <<>> ELSE AddTo(P[n - 1], effects[n])
      <3>1. CASE n = 0
        BY <2>2, <3>1 DEF IsAlong, b
      <3>2. CASE n # 0
        <4>1. n \in 1 .. N /\ n - 1 \in 0 .. N
          BY <1>1, <3>2
        <4>2. P[n] = G[n][P[n - 1]] /\ P[n - 1] \in T
          BY <2>2, <4>1 DEF IsAlong
        <4>3. G[n][P[n - 1]] = AddTo(P[n - 1], effects[n])
          BY <4>1, <4>2 DEF G
        <4> QED BY <3>2, <4>2, <4>3
      <3> QED BY <3>1, <3>2
    <2>4. Runs(P)
      BY <2>3 DEF Runs, N
    <2> QED BY <2>4
  <1>5. Runs(run)
    BY <1>4
  <1>6. TotalsOf(effects) = run
    BY Zenon DEF TotalsOf
  <1> HIDE DEF run
  <1>7. run = [n \in 0 .. N |-> IF n = 0 THEN <<>> ELSE AddTo(run[n - 1], effects[n])]
    BY <1>5 DEF N
  <1> HIDE DEF Runs
  <1>8. run[0] = <<>> /\ \A n \in 1 .. N : n \in 0 .. N /\ run[n] = AddTo(run[n - 1], effects[n])
    BY <1>1, <1>7
  <1> DEFINE S == {n \in 0 .. N : run[n] \in T}
  <1>9. 0 \in S
    BY <1>1, <1>3, <1>8
  <1>10. ASSUME NEW n \in 1 .. N, n - 1 \in S PROVE n \in S
    <2>1. run[n - 1] \in T
      BY <1>10
    <2> QED BY <1>2, <1>8, <2>1
  <1> HIDE DEF S
  <1>11. \A n \in 0 .. N : n \in S
    BY <1>1, <1>9, <1>10, UpTo
  <1>12. run \in [0 .. N -> T]
    <2>1. \A n \in 0 .. N : run[n] \in T
      BY <1>11 DEF S
    <2> QED BY <1>7, <2>1
  <1> QED BY <1>6, <1>8, <1>12 DEF N, T

-----------------------------------------------------------------------------
\* The totals after the first n effects: one for each key that was counted,
\* and each the change of its balance.
KeysMet(effects, n) ==
    {CountedUnder(effects[m]) : m \in {j \in 1 .. n : Counted(effects[j])}}

IsTotal(effects, n, total) ==
    \A holder, asset :
        Nameable(asset) /\ KeyOf(holder, Named(asset)) = total.key
        => total.stroops = ChangeOf(effects, holder, asset)[n]

IsUnmoved(effects, n, key) ==
    \A holder, asset :
        Nameable(asset) /\ KeyOf(holder, Named(asset)) = key
        => ChangeOf(effects, holder, asset)[n] = 0

TotalsAfter(effects, n, totals) ==
    /\ totals \in TotalLists(effects)
    /\ \A i, j \in 1 .. Len(totals) : totals[i].key = totals[j].key => i = j
    /\ \A i \in 1 .. Len(totals) : totals[i].key \in KeysMet(effects, n)
    /\ \A key \in KeysMet(effects, n) : \E i \in 1 .. Len(totals) : totals[i].key = key
    /\ \A i \in 1 .. Len(totals) : IsTotal(effects, n, totals[i])
    /\ \A key : key \notin KeysMet(effects, n) => IsUnmoved(effects, n, key)

\* A balance between two effects.
LEMMA BalanceSteps ==
    ASSUME NEW effects, AsListed(effects), NEW n \in 1 .. Len(effects),
           NEW holder, NEW asset, Nameable(asset)
    PROVE  LET change == ChangeOf(effects, holder, asset)
               e == effects[n]
           IN  /\ change[n - 1] \in Int /\ change[n] \in Int
               /\ Counted(e) /\ CountedUnder(e) = KeyOf(holder, Named(asset))
                  => change[n] = change[n - 1] + SignedMove(e)
               /\ ~(Counted(e) /\ CountedUnder(e) = KeyOf(holder, Named(asset)))
                  => change[n] = change[n - 1]
  <1> DEFINE change == ChangeOf(effects, holder, asset)
             N == Len(effects)
             part == PartOf(effects[n], KeyOf(holder, Named(asset)))
  <1>1. /\ change \in [0 .. N -> Int]
        /\ change[n] = change[n - 1] + part
    BY ChangeFacts
  <1>2. N \in Nat
    BY ListedFacts
  <1>3. change[n - 1] \in Int /\ change[n] \in Int
    <2>1. n - 1 \in 0 .. N /\ n \in 0 .. N
      BY <1>2
    <2> HIDE DEF change, N
    <2> QED BY <1>1, <2>1
  <1>4. /\ Counted(effects[n]) /\ CountedUnder(effects[n]) = KeyOf(holder, Named(asset))
           => part = SignedMove(effects[n])
        /\ ~(Counted(effects[n]) /\ CountedUnder(effects[n]) = KeyOf(holder, Named(asset)))
           => part = 0
    BY DEF PartOf
  <1> HIDE DEF change, part
  <1> QED BY <1>1, <1>3, <1>4 DEF change

LEMMA KeysMetFacts ==
    ASSUME NEW effects, NEW n \in Nat \ {0}
    PROVE  /\ Counted(effects[n]) =>
                KeysMet(effects, n) = KeysMet(effects, n - 1) \cup {CountedUnder(effects[n])}
           /\ ~Counted(effects[n]) => KeysMet(effects, n) = KeysMet(effects, n - 1)
  <1>1. \A j \in Nat : j \in 1 .. n <=> j \in 1 .. (n - 1) \/ j = n
    OBVIOUS
  <1>2. /\ \A j \in 1 .. (n - 1) : j \in 1 .. n /\ j # n
        /\ \A j \in 1 .. n : j \in 1 .. (n - 1) \/ j = n
        /\ n \in 1 .. n
    OBVIOUS
  <1> QED BY <1>2, Zenon DEF KeysMet

LEMMA NothingAdded ==
    ASSUME NEW effects, AsListed(effects)
    PROVE  TotalsAfter(effects, 0, <<>>)
  <1> DEFINE none == <<>>
  <1>1. none \in TotalLists(effects) /\ Len(none) = 0
    BY EmptySeq DEF TotalLists
  <1>2. \A i : i \notin 1 .. Len(none)
    BY <1>1
  <1>3. KeysMet(effects, 0) = {}
    BY DEF KeysMet
  <1>4. \A key : IsUnmoved(effects, 0, key)
    BY ChangeFacts DEF IsUnmoved
  <1> HIDE DEF none
  <1>5. TotalsAfter(effects, 0, none)
    BY <1>1, <1>2, <1>3, <1>4, Zenon DEF TotalsAfter
  <1> QED BY <1>5 DEF none

LEMMA EffectAdded ==
    ASSUME NEW effects, AsListed(effects), NEW n \in 1 .. Len(effects),
           NEW totals, TotalsAfter(effects, n - 1, totals)
    PROVE  TotalsAfter(effects, n, AddTo(totals, effects[n]))
  <1> DEFINE e == effects[n]
             N == Len(totals)
             key == CountedUnder(e)
             after == AddTo(totals, e)
             met == KeysMet(effects, n - 1)
             metNow == KeysMet(effects, n)
  <1>1. n \in Nat \ {0} /\ e \in ToSet(effects) /\ totals \in TotalLists(effects)
    <2>1. n \in Nat \ {0} /\ e \in ToSet(effects)
      BY ListedFacts DEF ToSet
    <2> QED BY <2>1 DEF TotalsAfter
  <1>2. /\ \A i, j \in 1 .. N : totals[i].key = totals[j].key => i = j
        /\ \A i \in 1 .. N : totals[i].key \in met
        /\ \A q \in met : \E i \in 1 .. N : totals[i].key = q
        /\ \A i \in 1 .. N : IsTotal(effects, n - 1, totals[i])
        /\ \A q : q \notin met => IsUnmoved(effects, n - 1, q)
    BY Zenon DEF TotalsAfter
  <1>3. /\ after \in TotalLists(effects)
        /\ ~Counted(e) => after = totals
        /\ Counted(e) => NextTotals(totals, e, after)
    BY <1>1, AddToFacts
  <1>4. /\ Counted(e) => metNow = met \cup {key}
        /\ ~Counted(e) => metNow = met
    BY <1>1, KeysMetFacts
  <1>5. ASSUME NEW total, IsTotal(effects, n - 1, total), ~(Counted(e) /\ key = total.key)
        PROVE  IsTotal(effects, n, total)
    BY <1>5, BalanceSteps DEF IsTotal
  <1>6. ASSUME NEW q, IsUnmoved(effects, n - 1, q), ~(Counted(e) /\ key = q)
        PROVE  IsUnmoved(effects, n, q)
    BY <1>6, BalanceSteps DEF IsUnmoved
  <1>7. /\ N \in Nat
        /\ \A i \in 1 .. N : totals[i].stroops \in Int
    BY <1>1, TotalListFacts
  <1> HIDE DEF e, key, after, met, metNow
  <1>8. \A q : q \notin metNow => IsUnmoved(effects, n, q)
    BY <1>2, <1>4, <1>6
  <1>9. CASE ~Counted(e)
    <2>1. \A i \in 1 .. N : IsTotal(effects, n, totals[i])
      BY <1>2, <1>5, <1>9
    <2>2. after = totals /\ metNow = met
      BY <1>3, <1>4, <1>9
    <2> QED BY <1>1, <1>2, <1>8, <2>1, <2>2, Zenon DEF TotalsAfter, e, after, metNow
  <1>10. CASE Counted(e)
    <2>1. metNow = met \cup {key} /\ NextTotals(totals, e, after)
      BY <1>3, <1>4, <1>10
    <2>2. CASE /\ \A i \in 1 .. N : totals[i].key # key
               /\ Len(after) = N + 1 /\ DOMAIN after = 1 .. N + 1
               /\ \A i \in 1 .. N : after[i] = totals[i]
               /\ after[N + 1].key = key /\ after[N + 1].stroops = SignedMove(e)
      <3>1. /\ \A i \in 1 .. N + 1 : i \in 1 .. N \/ i = N + 1
            /\ \A i \in 1 .. N : i \in 1 .. N + 1 /\ i # N + 1
            /\ N + 1 \in 1 .. N + 1
        BY <1>7
      <3>2. key \notin met
        BY <1>2, <2>2
      <3>3. \A i, j \in 1 .. N + 1 : after[i].key = after[j].key => i = j
        BY <1>2, <2>2, <3>1, Zenon
      <3>4. \A i \in 1 .. N + 1 : after[i].key \in metNow
        BY <1>2, <2>1, <2>2, <3>1, Zenon
      <3>5. \A q \in metNow : \E i \in 1 .. N + 1 : after[i].key = q
        BY <1>2, <2>1, <2>2, <3>1, Zenon
      <3>6. IsTotal(effects, n, after[N + 1])
        <4> SUFFICES ASSUME NEW holder, NEW asset, Nameable(asset),
                            KeyOf(holder, Named(asset)) = key
                     PROVE  SignedMove(e) = ChangeOf(effects, holder, asset)[n]
          BY <2>2 DEF IsTotal
        <4>1. ChangeOf(effects, holder, asset)[n - 1] = 0
          BY <1>2, <3>2 DEF IsUnmoved
        <4>2. /\ ChangeOf(effects, holder, asset)[n] = ChangeOf(effects, holder, asset)[n - 1] + SignedMove(e)
              /\ ChangeOf(effects, holder, asset)[n] \in Int
          BY <1>10, BalanceSteps DEF e, key
        <4>3. SignedMove(e) \in Int
          BY <1>1, <1>10, ListedFacts, CountedIsSayable DEF e
        <4> QED BY <4>1, <4>2, <4>3
      <3>7. \A i \in 1 .. N + 1 : IsTotal(effects, n, after[i])
        <4>1. \A i \in 1 .. N : IsTotal(effects, n, totals[i])
          BY <1>2, <1>5, <2>2
        <4> QED BY <2>2, <3>1, <3>6, <4>1, Zenon
      <3>8. Len(after) = N + 1
        BY <2>2
      <3> HIDE DEF N
      <3> QED BY <1>3, <1>8, <3>3, <3>4, <3>5, <3>7, <3>8, Zenon DEF TotalsAfter, e, after, metNow
    <2>3. ASSUME Len(after) = N, NEW k \in 1 .. N, totals[k].key = key,
                 \A i \in 1 .. N : after[i].key = totals[i].key,
                 \A i \in 1 .. N : i # k => after[i].stroops = totals[i].stroops,
                 after[k].stroops = totals[k].stroops + SignedMove(e)
          PROVE  TotalsAfter(effects, n, after)
      <3>1. metNow = met
        BY <1>2, <2>1, <2>3
      <3>2. ASSUME NEW i \in 1 .. N PROVE IsTotal(effects, n, after[i])
        <4>1. CASE i = k
          <5> SUFFICES ASSUME NEW holder, NEW asset, Nameable(asset),
                              KeyOf(holder, Named(asset)) = key
                       PROVE  after[i].stroops = ChangeOf(effects, holder, asset)[n]
            BY <2>3, <4>1 DEF IsTotal
          <5>1. totals[k].stroops = ChangeOf(effects, holder, asset)[n - 1]
            BY <1>2, <2>3 DEF IsTotal
          <5>2. ChangeOf(effects, holder, asset)[n] = ChangeOf(effects, holder, asset)[n - 1] + SignedMove(e)
            BY <1>10, BalanceSteps DEF e, key
          <5> QED BY <2>3, <4>1, <5>1, <5>2
        <4>2. CASE i # k
          <5>1. totals[i].key # key
            BY <1>2, <2>3, <4>2
          <5>2. IsTotal(effects, n, totals[i])
            BY <1>2, <1>5, <5>1
          <5> QED BY <2>3, <4>2, <5>2, Zenon DEF IsTotal
        <4> QED BY <4>1, <4>2
      <3>3. /\ \A i, j \in 1 .. N : after[i].key = after[j].key => i = j
            /\ \A i \in 1 .. N : after[i].key \in metNow
            /\ \A q \in metNow : \E i \in 1 .. N : after[i].key = q
        BY <1>2, <2>3, <3>1, Zenon
      <3>4. Len(after) = N
        BY <2>3
      <3> HIDE DEF N
      <3> QED BY <1>3, <1>8, <3>2, <3>3, <3>4, Zenon DEF TotalsAfter, e, after, metNow
    <2>4. TotalsAfter(effects, n, after)
      <3>1. CASE /\ Len(after) = N /\ DOMAIN after = 1 .. N
                 /\ \E k \in 1 .. N :
                      /\ totals[k].key = key
                      /\ \A i \in 1 .. N : after[i].key = totals[i].key
                      /\ \A i \in 1 .. N : i # k => after[i].stroops = totals[i].stroops
                      /\ after[k].stroops = totals[k].stroops + SignedMove(e)
        BY <2>3, <3>1
      <3>2. CASE /\ \A i \in 1 .. N : totals[i].key # key
                 /\ Len(after) = N + 1 /\ DOMAIN after = 1 .. N + 1
                 /\ \A i \in 1 .. N : after[i] = totals[i]
                 /\ after[N + 1].key = key /\ after[N + 1].stroops = SignedMove(e)
        BY <2>2, <3>2 DEF e, after
      <3> QED BY <2>1, <3>1, <3>2, Zenon DEF NextTotals, key
    <2> QED BY <2>4 DEF e, after
  <1> QED BY <1>9, <1>10

LEMMA TotalsAreRight ==
    ASSUME NEW effects, AsListed(effects)
    PROVE  TotalsAfter(effects, Len(effects), TotalsOf(effects)[Len(effects)])
  <1> DEFINE N == Len(effects)
             totals == TotalsOf(effects)
             S == {n \in 0 .. N : TotalsAfter(effects, n, totals[n])}
  <1>1. N \in Nat
    BY ListedFacts
  <1>2. totals[0] = <<>> /\ \A n \in 1 .. N : totals[n] = AddTo(totals[n - 1], effects[n])
    BY TotalsFacts
  <1> HIDE DEF totals
  <1>3. 0 \in S
    BY <1>1, <1>2, NothingAdded
  <1>4. ASSUME NEW n \in 1 .. N, n - 1 \in S PROVE n \in S
    <2>1. TotalsAfter(effects, n - 1, totals[n - 1])
      BY <1>4
    <2>2. TotalsAfter(effects, n, totals[n])
      BY <1>2, <2>1, EffectAdded
    <2>3. n \in 0 .. N
      BY <1>1
    <2> QED BY <2>2, <2>3
  <1> HIDE DEF S
  <1>5. N \in S
    <2> HIDE DEF N
    <2>1. \A n \in 0 .. N : n \in S
      BY <1>1, <1>3, <1>4, UpTo
    <2> QED BY <1>1, <2>1
  <1> QED BY <1>5 DEF S, totals

-----------------------------------------------------------------------------
\* What a selection keeps, and where.

\* How many of the places are not above a number.
Ranks(places, N) == [n \in 0 .. N |-> Cardinality({m \in places : m <= n})]

Ranked(places, N, rank) ==
    /\ rank \in [0 .. N -> Nat] /\ rank[0] = 0
    /\ \A n \in 1 .. N : n \in places => rank[n] = rank[n - 1] + 1
    /\ \A n \in 1 .. N : n \notin places => rank[n] = rank[n - 1]
    /\ \A n \in places : rank[n] \in 1 .. rank[N]
    /\ \A m, n \in places : rank[m] = rank[n] => m = n
    /\ \A k \in 1 .. rank[N] : \E n \in places : rank[n] = k

LEMMA RankFacts ==
    ASSUME NEW N \in Nat, NEW places \in SUBSET (1 .. N)
    PROVE  /\ Ranked(places, N, Ranks(places, N))
           /\ Ranks(places, N)[N] = Cardinality(places)
  <1> DEFINE rank == Ranks(places, N)
             Upto(n) == {m \in places : m <= n}
  <1>0. \A m \in places : m \in Nat /\ 1 <= m /\ m <= N
    OBVIOUS
  <1>1. /\ rank \in [0 .. N -> Nat]
        /\ \A n \in 0 .. N : IsFiniteSet(Upto(n)) /\ rank[n] = Cardinality(Upto(n))
    <2>1. IsFiniteSet(1 .. N)
      BY FS_Interval
    <2>2. \A n \in 0 .. N : Upto(n) \subseteq 1 .. N
      OBVIOUS
    <2>3. \A n \in 0 .. N : IsFiniteSet(Upto(n)) /\ Cardinality(Upto(n)) \in Nat
      BY <2>1, <2>2, FS_Subset, FS_CardinalityType
    <2> QED BY <2>3 DEF Ranks
  <1>2. rank[0] = 0
    <2> HIDE DEF rank
    <2>1. \A m \in places : ~(m <= 0)
      BY <1>0
    <2>2. Upto(0) = {}
      BY <2>1, Zenon
    <2>3. 0 \in 0 .. N
      OBVIOUS
    <2> QED BY <1>1, <2>2, <2>3, FS_EmptySet
  <1>3. ASSUME NEW n \in 1 .. N, n \in places PROVE rank[n] = rank[n - 1] + 1
    <2>1. n \in 0 .. N /\ n - 1 \in 0 .. N
      OBVIOUS
    <2> HIDE DEF rank
    <2>2. /\ \A m \in places : m <= n <=> m <= n - 1 \/ m = n
          /\ ~(n <= n - 1) /\ n <= n
      BY <1>0
    <2>3. Upto(n) = Upto(n - 1) \cup {n} /\ n \notin Upto(n - 1)
      BY <1>3, <2>2
    <2> HIDE DEF Upto
    <2>4. Cardinality(Upto(n - 1) \cup {n}) = Cardinality(Upto(n - 1)) + 1
      BY <1>1, <2>1, <2>3, FS_AddElement
    <2> QED BY <1>1, <2>1, <2>3, <2>4
  <1>4. ASSUME NEW n \in 1 .. N, n \notin places PROVE rank[n] = rank[n - 1]
    <2>1. n \in 0 .. N /\ n - 1 \in 0 .. N
      OBVIOUS
    <2> HIDE DEF rank
    <2>2. \A m \in places : m <= n <=> m <= n - 1
      BY <1>0, <1>4
    <2>3. Upto(n) = Upto(n - 1)
      BY <2>2
    <2> QED BY <1>1, <2>1, <2>3
  <1>5. ASSUME NEW m \in 0 .. N, NEW n \in 0 .. N, m <= n PROVE rank[m] <= rank[n]
    <2> HIDE DEF rank
    <2>1. \A i \in places : i <= m => i <= n
      BY <1>0, <1>5
    <2>2. Upto(m) \subseteq Upto(n)
      BY <2>1, Zenon
    <2> HIDE DEF Upto
    <2>3. Cardinality(Upto(m)) <= Cardinality(Upto(n))
      BY <1>1, <2>2, FS_Subset
    <2> QED BY <1>1, <2>3
  <1>6. rank[N] = Cardinality(places)
    <2> HIDE DEF rank
    <2>1. \A m \in places : m <= N
      BY <1>0
    <2>2. Upto(N) = places
      BY <2>1, Zenon
    <2>3. N \in 0 .. N
      OBVIOUS
    <2> QED BY <1>1, <2>2, <2>3
  <1> HIDE DEF rank, Upto
  <1>7. ASSUME NEW n \in places PROVE rank[n] \in 1 .. rank[N]
    <2>1. n \in 1 .. N /\ n \in 0 .. N /\ n - 1 \in 0 .. N /\ N \in 0 .. N /\ n <= N
      OBVIOUS
    <2>2. rank[n] = rank[n - 1] + 1 /\ rank[n] <= rank[N]
      BY <1>3, <1>5, <1>7, <2>1
    <2>3. rank[n - 1] \in Nat /\ rank[N] \in Nat
      BY <1>1, <2>1
    <2> QED BY <2>2, <2>3
  <1>8. ASSUME NEW m \in places, NEW n \in places, rank[m] = rank[n] PROVE m = n
    <2>1. ASSUME NEW i \in places, NEW j \in places, i < j PROVE rank[i] < rank[j]
      <3>1. j \in 1 .. N /\ i \in 0 .. N /\ j - 1 \in 0 .. N /\ i <= j - 1
        BY <2>1
      <3>2. rank[j] = rank[j - 1] + 1 /\ rank[i] <= rank[j - 1]
        BY <1>3, <1>5, <2>1, <3>1
      <3>3. rank[j - 1] \in Nat /\ rank[i] \in Nat
        BY <1>1, <3>1
      <3> QED BY <3>2, <3>3
    <2>2. m \in Nat /\ n \in Nat /\ rank[m] \in Nat
      BY <1>1
    <2>3. ~(m < n) /\ ~(n < m)
      BY <1>8, <2>1, <2>2
    <2> QED BY <2>2, <2>3
  <1>9. \A k \in 1 .. rank[N] : \E n \in places : rank[n] = k
    <2> DEFINE S == {n \in 0 .. N : \A k \in 1 .. rank[n] : \E m \in places : rank[m] = k}
    <2>1. 0 \in S
      BY <1>2
    <2>2. ASSUME NEW n \in 1 .. N, n - 1 \in S PROVE n \in S
      <3>1. n \in 0 .. N /\ n - 1 \in 0 .. N /\ rank[n - 1] \in Nat
        BY <1>1
      <3>2. \A k \in 1 .. rank[n - 1] : \E m \in places : rank[m] = k
        BY <2>2
      <3>3. CASE n \in places
        <4>1. rank[n] = rank[n - 1] + 1
          BY <1>3, <3>3
        <4>2. \A k \in 1 .. rank[n] : k \in 1 .. rank[n - 1] \/ k = rank[n]
          BY <3>1, <4>1
        <4> QED BY <3>1, <3>2, <3>3, <4>2
      <3>4. CASE n \notin places
        <4>1. rank[n] = rank[n - 1]
          BY <1>4, <3>4
        <4> QED BY <3>1, <3>2, <4>1
      <3> QED BY <3>3, <3>4
    <2> HIDE DEF S
    <2>3. \A n \in 0 .. N : n \in S
      BY <2>1, <2>2, UpTo
    <2>4. N \in S
      BY <2>3
    <2> QED BY <2>4 DEF S
  <1>10. Ranked(places, N, rank)
    BY <1>1, <1>2, <1>3, <1>4, <1>7, <1>8, <1>9, Zenon DEF Ranked
  <1> QED BY <1>6, <1>10 DEF rank

\* The entries at the places, one after another.
IsPick(list, places, rank, size, picked) ==
    /\ Len(picked) = size /\ DOMAIN picked = 1 .. size
    /\ picked \in Seq(ToSet(picked))
    /\ \A n \in places : picked[rank[n]] = list[n]
    /\ \A k \in 1 .. size : \E n \in places : rank[n] = k /\ picked[k] = list[n]

LEMMA PickedFacts ==
    ASSUME NEW N \in Nat, NEW places \in SUBSET (1 .. N), NEW list
    PROVE  IsPick(list, places, Ranks(places, N), Ranks(places, N)[N], Picked(list, places))
  <1> DEFINE rank == Ranks(places, N)
             size == rank[N]
             picked == Picked(list, places)
             Upto(n) == {m \in places : m <= n}
  <1>1. Ranked(places, N, rank) /\ size = Cardinality(places)
    BY RankFacts
  <1>2. /\ rank \in [0 .. N -> Nat]
        /\ \A n \in places : rank[n] \in 1 .. size
        /\ \A m, n \in places : rank[m] = rank[n] => m = n
        /\ \A k \in 1 .. size : \E n \in places : rank[n] = k
    BY <1>1, Zenon DEF Ranked
  <1>3. \A n \in places : n \in 0 .. N /\ rank[n] = Cardinality(Upto(n))
    BY DEF Ranks
  <1>4. size \in Nat
    BY <1>2
  <1>5. picked = [k \in 1 .. size |->
                    list[CHOOSE n \in places : Cardinality(Upto(n)) = k]]
    <2>1. \A k \in 1 .. Cardinality(places) :
            Ascending(places)[k] = CHOOSE n \in places : Cardinality(Upto(n)) = k
      BY DEF Ascending
    <2> HIDE DEF rank
    <2> QED BY <1>1, <2>1 DEF Picked
  <1> HIDE DEF rank, Upto, size, picked
  <1>6. ASSUME NEW k \in 1 .. size, NEW n \in places, rank[n] = k PROVE picked[k] = list[n]
    <2>1. Cardinality(Upto(n)) = k
      BY <1>3, <1>6
    <2> DEFINE c == CHOOSE m \in places : Cardinality(Upto(m)) = k
    <2>2. c \in places /\ Cardinality(Upto(c)) = k
      BY <2>1
    <2>3. picked[k] = list[c]
      BY <1>5
    <2> HIDE DEF c
    <2>4. c = n
      BY <1>2, <1>3, <1>6, <2>2
    <2> QED BY <2>3, <2>4
  <1>7. DOMAIN picked = 1 .. size /\ picked = [k \in 1 .. size |-> picked[k]]
    BY <1>5
  <1>8. picked \in Seq(ToSet(picked))
    <2>1. \A k \in 1 .. size : picked[k] \in ToSet(picked)
      BY <1>7 DEF ToSet
    <2>2. picked \in [1 .. size -> ToSet(picked)]
      BY <1>7, <2>1
    <2> QED BY <1>4, <2>2, SeqDef
  <1>9. Len(picked) = size
    <2>1. Len(picked) \in Nat /\ DOMAIN picked = 1 .. Len(picked)
      BY <1>8, LenProperties
    <2> QED BY <1>4, <1>7, <2>1
  <1>10. \A n \in places : picked[rank[n]] = list[n]
    BY <1>2, <1>6
  <1>11. \A k \in 1 .. size : \E n \in places : rank[n] = k /\ picked[k] = list[n]
    BY <1>2, <1>6
  <1>12. IsPick(list, places, rank, size, picked)
    BY <1>7, <1>8, <1>9, <1>10, <1>11, Zenon DEF IsPick
  <1> QED BY <1>12 DEF rank, size, picked

-----------------------------------------------------------------------------
\* What does not move a balance adds nothing, so that the row of a history and
\* the balances tab add up the same.
LEMMA MovesFacts ==
    ASSUME NEW effects, AsListed(effects)
    PROVE  LET N == Len(effects)
               places == {n \in DOMAIN effects : Moves(effects[n])}
               rank == Ranks(places, N)
           IN  /\ places \in SUBSET (1 .. N) /\ Ranked(places, N, rank)
               /\ IsPick(effects, places, rank, rank[N], MovesAmong(effects))
               /\ AsListed(MovesAmong(effects))
  <1> DEFINE N == Len(effects)
             places == {n \in DOMAIN effects : Moves(effects[n])}
             rank == Ranks(places, N)
             rows == MovesAmong(effects)
  <1>1. N \in Nat /\ DOMAIN effects = 1 .. N
        /\ \A n \in 1 .. N : HorizonEffect(effects[n])
    BY ListedFacts
  <1>2. places \in SUBSET (1 .. N)
    BY <1>1
  <1>3. rows = Picked(effects, places)
    BY DEF MovesAmong
  <1> HIDE DEF N, places, rows
  <1>4. Ranked(places, N, rank) /\ IsPick(effects, places, rank, rank[N], rows)
    BY <1>1, <1>2, <1>3, RankFacts, PickedFacts
  <1>5. AsListed(rows)
    <2>1. /\ rows \in Seq(ToSet(rows)) /\ DOMAIN rows = 1 .. rank[N]
          /\ \A k \in 1 .. rank[N] : \E n \in places : rank[n] = k /\ rows[k] = effects[n]
      BY <1>4, Zenon DEF IsPick
    <2>2. \A k \in 1 .. rank[N] : HorizonEffect(rows[k])
      BY <1>1, <1>2, <2>1
    <2> HIDE DEF rank
    <2> QED BY <2>1, <2>2 DEF AsListed
  <1> QED BY <1>2, <1>4, <1>5 DEF N, places, rows

LEMMA MovesAddUpAlike ==
    ASSUME NEW effects, AsListed(effects)
    PROVE  NetBalanceChanges(MovesAmong(effects)) = NetBalanceChanges(effects)
  <1> DEFINE N == Len(effects)
             places == {n \in DOMAIN effects : Moves(effects[n])}
             rank == Ranks(places, N)
             rows == MovesAmong(effects)
             all == TotalsOf(effects)
             some == TotalsOf(rows)
             S == {n \in 0 .. N : some[rank[n]] = all[n]}
  <1>1. /\ places \in SUBSET (1 .. N) /\ Ranked(places, N, rank)
        /\ IsPick(effects, places, rank, rank[N], rows)
        /\ AsListed(rows)
    BY MovesFacts
  <1>2. /\ rank[0] = 0 /\ rank \in [0 .. N -> Nat]
        /\ \A n \in 1 .. N : n \in places => rank[n] = rank[n - 1] + 1
        /\ \A n \in 1 .. N : n \notin places => rank[n] = rank[n - 1]
        /\ \A n \in places : rank[n] \in 1 .. rank[N]
    BY <1>1, Zenon DEF Ranked
  <1>3. Len(rows) = rank[N] /\ \A n \in places : rows[rank[n]] = effects[n]
    BY <1>1, Zenon DEF IsPick
  <1>4. /\ all[0] = <<>>
        /\ all \in [0 .. N -> TotalLists(effects)]
        /\ \A n \in 1 .. N : all[n] = AddTo(all[n - 1], effects[n])
    BY TotalsFacts
  <1>5. some[0] = <<>> /\ \A k \in 1 .. rank[N] : some[k] = AddTo(some[k - 1], rows[k])
    BY <1>1, <1>3, TotalsFacts
  <1>6. N \in Nat /\ DOMAIN effects = 1 .. N
    BY ListedFacts
  <1>7. \A n \in 1 .. N : n \notin places => ~Counted(effects[n])
    BY <1>6 DEF Counted
  <1>8. 0 \in S
    <2> HIDE DEF N, rank, all, some
    <2> QED BY <1>2, <1>4, <1>5, <1>6
  <1>9. ASSUME NEW n \in 1 .. N, n - 1 \in S PROVE n \in S
    <2>1. n \in 0 .. N /\ n - 1 \in 0 .. N /\ some[rank[n - 1]] = all[n - 1]
      BY <1>6, <1>9
    <2> HIDE DEF N, rank, all, some, places, rows
    <2>2. CASE n \in places
      <3>1. rank[n] = rank[n - 1] + 1 /\ rank[n - 1] \in Nat /\ rank[n] \in 1 .. rank[N]
        BY <1>2, <2>1, <2>2
      <3>2. rank[n] - 1 = rank[n - 1]
        BY <3>1
      <3>3. some[rank[n]] = AddTo(some[rank[n] - 1], rows[rank[n]])
        BY <1>5, <3>1
      <3>4. some[rank[n]] = AddTo(all[n - 1], effects[n])
        BY <1>3, <2>1, <2>2, <3>2, <3>3
      <3> QED BY <1>4, <2>1, <3>4
    <2>3. CASE n \notin places
      <3>1. rank[n] = rank[n - 1]
        BY <1>2, <2>3
      <3>2. all[n] = all[n - 1]
        <4>1. all[n] = AddTo(all[n - 1], effects[n]) /\ ~Counted(effects[n])
          BY <1>4, <1>7, <2>3
        <4> QED BY <4>1, Zenon DEF AddTo
      <3> QED BY <2>1, <3>1, <3>2
    <2> QED BY <2>2, <2>3
  <1> HIDE DEF S
  <1>10. some[rank[N]] = all[N]
    <2> HIDE DEF N
    <2>1. \A n \in 0 .. N : n \in S
      BY <1>6, <1>8, <1>9, UpTo
    <2>2. N \in S
      BY <1>6, <2>1
    <2> QED BY <2>2 DEF S
  <1>11. TotalsOf(rows)[Len(rows)] = TotalsOf(effects)[Len(effects)]
    BY <1>3, <1>10
  <1> HIDE DEF rows
  <1>12. NetBalanceChanges(rows) = NetBalanceChanges(effects)
    BY <1>11, Zenon DEF NetBalanceChanges
  <1> QED BY <1>12 DEF rows

-----------------------------------------------------------------------------
\* One line for each balance that changed.
BalancesOf(effects) ==
    {<<TrueHolder(effects[i]), effects[i].asset>> : i \in Sayable(effects)}

BalanceKey(b) == KeyOf(b[1], Named(b[2]))

BalancesKeyed(effects, keys) ==
    /\ \A b \in BalancesOf(effects) : Nameable(b[2]) /\ BalanceKey(b) \in keys
    /\ \A key \in keys : \E b \in BalancesOf(effects) : BalanceKey(b) = key
    /\ \A a, b \in BalancesOf(effects) : BalanceKey(a) = BalanceKey(b) => a = b

LEMMA BalancesHaveKeys ==
    ASSUME NEW effects, AsListed(effects)
    PROVE  BalancesKeyed(effects, KeysMet(effects, Len(effects)))
  <1> DEFINE N == Len(effects)
             keys == KeysMet(effects, N)
             balances == BalancesOf(effects)
             B(i) == <<TrueHolder(effects[i]), effects[i].asset>>
  <1>1. N \in Nat /\ DOMAIN effects = 1 .. N
        /\ \A n \in 1 .. N : HorizonEffect(effects[n])
    BY ListedFacts
  <1>2. \A i \in 1 .. N : i \in Sayable(effects) <=> Counted(effects[i])
    BY <1>1, CountedIsSayable DEF Sayable
  <1>3. \A i \in Sayable(effects) : i \in 1 .. N
    BY <1>1 DEF Sayable
  <1>4. \A i \in Sayable(effects) :
            Nameable(effects[i].asset)
            /\ CountedUnder(effects[i]) = KeyOf(TrueHolder(effects[i]), Named(effects[i].asset))
    BY <1>1, <1>2, <1>3, CountedIsSayable
  <1>5. \A i \in Sayable(effects) :
            Nameable(B(i)[2]) /\ BalanceKey(B(i)) = CountedUnder(effects[i])
    BY <1>4 DEF BalanceKey
  <1> HIDE DEF N
  <1>6. \A b \in balances : \E i \in Sayable(effects) : b = B(i)
    BY Zenon DEF BalancesOf
  <1>7. \A i \in Sayable(effects) : B(i) \in balances
    BY Zenon DEF BalancesOf
  <1>8. \A i \in Sayable(effects) : CountedUnder(effects[i]) \in keys
    BY <1>2, <1>3, Zenon DEF KeysMet
  <1>9. \A key \in keys : \E i \in Sayable(effects) : key = CountedUnder(effects[i])
    BY <1>2, Zenon DEF KeysMet
  <1> HIDE DEF B, keys, balances
  <1>10. \A b \in balances : Nameable(b[2]) /\ BalanceKey(b) \in keys
    BY <1>5, <1>6, <1>8
  <1>11. \A key \in keys : \E b \in balances : BalanceKey(b) = key
    BY <1>5, <1>7, <1>9
  <1>12. ASSUME NEW a \in balances, NEW b \in balances, BalanceKey(a) = BalanceKey(b)
         PROVE  a = b
    <2>1. PICK i \in Sayable(effects) : a = B(i)
      BY <1>6
    <2>2. PICK j \in Sayable(effects) : b = B(j)
      BY <1>6
    <2>3. KeyOf(TrueHolder(effects[i]), Named(effects[i].asset))
            = KeyOf(TrueHolder(effects[j]), Named(effects[j].asset))
      BY <1>4, <1>5, <1>12, <2>1, <2>2
    <2>4. TrueHolder(effects[i]) = TrueHolder(effects[j]) /\ effects[i].asset = effects[j].asset
      BY <1>4, <2>3, KeysTellApart
    <2> QED BY <2>1, <2>2, <2>4, Zenon DEF B
  <1> QED BY <1>10, <1>11, <1>12, Zenon DEF BalancesKeyed, keys, balances, N

LEMMA NamedIsCodeAndIssuer ==
    ASSUME NEW asset
    PROVE  Named(asset) = [code |-> Named(asset).code, issuer |-> Named(asset).issuer]
  BY DEF Named, NoAsset

LEMMA NetLines ==
    ASSUME NEW effects, AsListed(effects)
    PROVE  AddsUp(effects)
  <1> DEFINE N == Len(effects)
             settled == TotalsOf(effects)[N]
             T == Len(settled)
             places == {i \in DOMAIN settled : settled[i].stroops # 0}
             rank == Ranks(places, T)
             left == Picked(settled, places)
             net == NetBalanceChanges(effects)
             balances == BalancesOf(effects)
             keys == KeysMet(effects, N)
             change(b) == TrueChange(effects, b[1], b[2])
             changed == {b \in balances : change(b) # 0}
             of(k) == CHOOSE b \in balances : BalanceKey(b) = left[k].key
             f == [k \in 1 .. rank[T] |-> of(k)]
  <1>1. TotalsAfter(effects, N, settled)
    BY TotalsAreRight
  <1>2. /\ settled \in TotalLists(effects)
        /\ \A i, j \in 1 .. T : settled[i].key = settled[j].key => i = j
        /\ \A i \in 1 .. T : settled[i].key \in keys
        /\ \A key \in keys : \E i \in 1 .. T : settled[i].key = key
        /\ \A i \in 1 .. T : IsTotal(effects, N, settled[i])
    BY <1>1, Zenon DEF TotalsAfter
  <1>3. /\ T \in Nat /\ DOMAIN settled = 1 .. T
        /\ \A i \in 1 .. T : settled[i].stroops \in Int
    BY <1>2, TotalListFacts
  <1>4. /\ \A b \in balances : Nameable(b[2]) /\ BalanceKey(b) \in keys
        /\ \A key \in keys : \E b \in balances : BalanceKey(b) = key
        /\ \A a, b \in balances : BalanceKey(a) = BalanceKey(b) => a = b
    BY BalancesHaveKeys, Zenon DEF BalancesKeyed
  <1>5. places \in SUBSET (1 .. T)
    BY <1>3
  <1>6. \A i \in 1 .. T : i \in places <=> settled[i].stroops # 0
    BY <1>3
  <1>7. net = [i \in DOMAIN left |->
                 [holder |-> left[i].key[1], assetCode |-> left[i].key[2],
                  assetIssuer |-> left[i].key[3],
                  amount |-> FormatAmount(left[i].stroops)]]
    BY Zenon DEF NetBalanceChanges
  <1>8. \A i \in 1 .. T, b \in balances :
            BalanceKey(b) = settled[i].key => settled[i].stroops = change(b)
    BY <1>2, <1>4 DEF IsTotal, BalanceKey, TrueChange
  <1>9. AddsUp(effects) =
           (/\ Len(net) = Cardinality(changed)
            /\ \A b \in changed :
                 \E i \in {j \in DOMAIN net :
                            /\ net[j].holder = b[1]
                            /\ [code |-> net[j].assetCode, issuer |-> net[j].assetIssuer]
                                 = Named(b[2])} :
                   (IF net[i].amount.negative THEN -1 ELSE 1) * InStroops(net[i].amount)
                     = change(b))
    BY Zenon DEF AddsUp, BalancesOf
  <1> HIDE DEF settled, places, left, net, balances, keys, change
  <1>10. Ranked(places, T, rank) /\ IsPick(settled, places, rank, rank[T], left)
    <2> HIDE DEF T
    <2> QED BY <1>3, <1>5, RankFacts, PickedFacts DEF left
  <1>11. /\ rank \in [0 .. T -> Nat]
         /\ \A i \in places : rank[i] \in 1 .. rank[T]
    BY <1>10, Zenon DEF Ranked
  <1>12. /\ DOMAIN left = 1 .. rank[T] /\ Len(left) = rank[T]
         /\ left \in Seq(ToSet(left))
         /\ \A i \in places : left[rank[i]] = settled[i]
         /\ \A k \in 1 .. rank[T] : \E i \in places : rank[i] = k /\ left[k] = settled[i]
    BY <1>10, Zenon DEF IsPick
  <1>13. rank[T] \in Nat
    BY <1>3, <1>11
  <1> HIDE DEF rank, T, of, f
  <1>14. ASSUME NEW i \in places
         PROVE  /\ of(rank[i]) \in changed
                /\ BalanceKey(of(rank[i])) = settled[i].key
                /\ change(of(rank[i])) = settled[i].stroops
    <2>1. i \in 1 .. T /\ settled[i].stroops # 0 /\ left[rank[i]] = settled[i]
      BY <1>5, <1>6, <1>12
    <2>2. of(rank[i]) \in balances /\ BalanceKey(of(rank[i])) = settled[i].key
      <3>1. settled[i].key \in keys
        BY <1>2, <2>1
      <3>2. \E b \in balances : BalanceKey(b) = left[rank[i]].key
        BY <1>4, <2>1, <3>1
      <3> QED BY <2>1, <3>2, Zenon DEF of
    <2>3. change(of(rank[i])) = settled[i].stroops
      BY <1>8, <2>1, <2>2
    <2> QED BY <2>1, <2>2, <2>3
  <1>15. ASSUME NEW b \in changed
         PROVE  \E i \in places : settled[i].key = BalanceKey(b) /\ of(rank[i]) = b
                                  /\ settled[i].stroops = change(b)
    <2>1. b \in balances /\ change(b) # 0
      OBVIOUS
    <2>2. BalanceKey(b) \in keys
      BY <1>4, <2>1
    <2>3. PICK i \in 1 .. T : settled[i].key = BalanceKey(b)
      BY <1>2, <2>2
    <2>4. settled[i].stroops = change(b)
      BY <1>8, <2>1, <2>3
    <2>5. i \in places
      BY <1>6, <2>1, <2>4
    <2>6. of(rank[i]) = b
      BY <1>4, <1>14, <2>1, <2>3, <2>5
    <2> QED BY <2>3, <2>4, <2>5, <2>6
  <1>16. Cardinality(changed) = rank[T]
    <2>1. \A k \in 1 .. rank[T] : f[k] = of(k)
      BY DEF f
    <2>2. \A k \in 1 .. rank[T] : of(k) \in changed
      BY <1>12, <1>14
    <2> HIDE DEF changed
    <2>3. f \in [1 .. rank[T] -> changed]
      BY <2>2 DEF f
    <2>4. ASSUME NEW k \in 1 .. rank[T], NEW l \in 1 .. rank[T], f[k] = f[l] PROVE k = l
      <3>1. PICK i \in places : rank[i] = k
        BY <1>12
      <3>2. PICK j \in places : rank[j] = l
        BY <1>12
      <3>3. settled[i].key = settled[j].key
        BY <1>14, <2>1, <2>4, <3>1, <3>2
      <3>4. i = j
        BY <1>2, <1>5, <3>3
      <3> QED BY <3>1, <3>2, <3>4
    <2>5. \A b \in changed : \E k \in 1 .. rank[T] : f[k] = b
      BY <1>11, <1>15, <2>1
    <2> QED BY <1>13, <2>3, <2>4, <2>5, CardinalityOfList
  <1>17. Len(net) = rank[T] /\ DOMAIN net = 1 .. rank[T]
    <2>1. DOMAIN net = 1 .. rank[T] /\ net = [k \in 1 .. rank[T] |-> net[k]]
      BY <1>7, <1>12
    <2>2. net \in Seq(ToSet(net))
      <3>1. \A k \in 1 .. rank[T] : net[k] \in ToSet(net)
        BY <2>1 DEF ToSet
      <3>2. net \in [1 .. rank[T] -> ToSet(net)]
        BY <2>1, <3>1
      <3> QED BY <1>13, <3>2, SeqDef
    <2>3. Len(net) \in Nat /\ DOMAIN net = 1 .. Len(net)
      BY <2>2, LenProperties
    <2> QED BY <1>13, <2>1, <2>3
  <1>18. ASSUME NEW b \in changed
         PROVE  \E k \in 1 .. rank[T] :
                   /\ net[k].holder = b[1]
                   /\ [code |-> net[k].assetCode, issuer |-> net[k].assetIssuer] = Named(b[2])
                   /\ (IF net[k].amount.negative THEN -1 ELSE 1) * InStroops(net[k].amount)
                        = change(b)
    <2>1. PICK i \in places : /\ settled[i].key = BalanceKey(b)
                              /\ settled[i].stroops = change(b)
      BY <1>15
    <2> DEFINE k == rank[i]
    <2>2. k \in 1 .. rank[T] /\ left[k] = settled[i] /\ i \in 1 .. T
      BY <1>5, <1>11, <1>12
    <2> HIDE DEF k
    <2>3. net[k] = [holder |-> left[k].key[1], assetCode |-> left[k].key[2],
                    assetIssuer |-> left[k].key[3],
                    amount |-> FormatAmount(left[k].stroops)]
      BY <1>7, <1>12, <2>2
    <2>4. /\ net[k].holder = left[k].key[1] /\ net[k].assetCode = left[k].key[2]
          /\ net[k].assetIssuer = left[k].key[3]
          /\ net[k].amount = FormatAmount(left[k].stroops)
      BY <2>3
    <2>5. left[k].key = <<b[1], Named(b[2]).code, Named(b[2]).issuer>>
          /\ left[k].stroops = change(b) /\ left[k].stroops \in Int
      BY <1>3, <2>1, <2>2 DEF BalanceKey, KeyOf
    <2>6. net[k].holder = b[1]
      BY <2>4, <2>5
    <2>7. [code |-> net[k].assetCode, issuer |-> net[k].assetIssuer] = Named(b[2])
      <3>1. net[k].assetCode = Named(b[2]).code /\ net[k].assetIssuer = Named(b[2]).issuer
        BY <2>4, <2>5
      <3> QED BY <3>1, NamedIsCodeAndIssuer
    <2>8. (IF net[k].amount.negative THEN -1 ELSE 1) * InStroops(net[k].amount) = change(b)
      BY <2>4, <2>5, FormattedBack, Zenon
    <2> QED BY <2>2, <2>6, <2>7, <2>8, Zenon
  <1> HIDE DEF changed
  <1>19. Len(net) = Cardinality(changed)
    BY <1>16, <1>17
  <1> QED BY <1>9, <1>17, <1>18, <1>19, Zenon

-----------------------------------------------------------------------------
\* One page of effects that holds them all.
LEMMA RecordIsListed ==
    ASSUME KnownRecord
    PROVE  /\ AsListed(record.effects)
           /\ DOMAIN record.ops \subseteq Nat
           /\ \A m, n \in DOMAIN record.ops : record.ops[m].id = record.ops[n].id => m = n
           /\ EFFECTS_LIMIT \in Nat
  <1>1. /\ record.effects \in Seq(ToSet(record.effects))
        /\ record.ops \in Seq(ToSet(record.ops))
    BY RecordsAssumption DEF KnownRecord
  <1>2. \A n \in DOMAIN record.effects : HorizonEffect(record.effects[n])
    BY EffectsAssumption DEF KnownRecord
  <1>3. \A m, n \in DOMAIN record.ops : record.ops[m].id = record.ops[n].id => m = n
    BY OperationsAssumption DEF KnownRecord
  <1>4. DOMAIN record.ops \subseteq Nat
    <2>1. Len(record.ops) \in Nat /\ DOMAIN record.ops = 1 .. Len(record.ops)
      BY <1>1, LenProperties
    <2> QED BY <2>1
  <1>5. EFFECTS_LIMIT \in Nat
    BY EffectsAssumption
  <1> QED BY <1>1, <1>2, <1>3, <1>4, <1>5 DEF AsListed

LEMMA EffectsAreWhole ==
    ASSUME KnownRecord, Len(record.effects) <= EFFECTS_LIMIT
    PROVE  Effects = record.effects
  <1> DEFINE N == Len(record.effects)
  <1>1. /\ N \in Nat /\ EFFECTS_LIMIT \in Nat
        /\ record.effects \in Seq(ToSet(record.effects))
    BY RecordIsListed, ListedFacts DEF AsListed
  <1>2. N <= EFFECTS_LIMIT
    OBVIOUS
  <1>3. SubSeq(record.effects, 1, N) = record.effects
    BY <1>1, SubSeqFull
  <1> HIDE DEF N
  <1>4. Min({EFFECTS_LIMIT, N}) = N
    <2>1. {EFFECTS_LIMIT, N} \in SUBSET Nat /\ N \in {EFFECTS_LIMIT, N}
      BY <1>1
    <2>2. /\ Min({EFFECTS_LIMIT, N}) \in {EFFECTS_LIMIT, N}
          /\ Min({EFFECTS_LIMIT, N}) <= N
      BY <2>1, MinOfPart
    <2> QED BY <1>1, <1>2, <2>2
  <1> QED BY <1>3, <1>4 DEF Effects, N

LEMMA HolderIsTrue ==
    ASSUME NEW e, HorizonEffect(e), Moves(e)
    PROVE  BalanceHolderOf(e) = TrueHolder(e)
  <1>1. CASE e.type = "contract"
    BY <1>1 DEF HorizonEffect, BalanceHolderOf, FirstOf, TrueHolder
  <1>2. CASE e.type = "account"
    BY <1>2 DEF HorizonEffect, BalanceHolderOf, FirstOf, TrueHolder
  <1> QED BY <1>1, <1>2 DEF Moves

LEMMA SourceIsItsOwn ==
    ASSUME NEW effect, NEW ops, DOMAIN ops \subseteq Nat,
           \A m, n \in DOMAIN ops : ops[m].id = ops[n].id => m = n,
           NEW j \in DOMAIN ops, ops[j].id = effect.operation
    PROVE  SourceOperation(effect, ops) = PresentOperation(ops[j])
  <1> DEFINE at == {i \in DOMAIN ops : ops[i].id = OperationIdOf(effect)}
  <1>1. j \in at /\ at \in SUBSET Nat
    BY DEF OperationIdOf
  <1>2. Min(at) \in at
    BY <1>1, MinOfPart
  <1>3. Min(at) = j
    BY <1>1, <1>2
  <1>4. SourceOperation(effect, ops) = PresentOperation(ops[Min(at)])
    BY <1>1, Zenon DEF SourceOperation
  <1> QED BY <1>3, <1>4

LEMMA RecordAddsUp ==
    ASSUME KnownRecord
    PROVE  NetChangesAddUp
  <1> SUFFICES ASSUME Len(record.effects) <= EFFECTS_LIMIT
               PROVE  /\ AddsUp(record.effects)
                      /\ record.ops # <<>> => HistoryRow.moves = BalanceTab.net
                      /\ \A i \in DOMAIN BalanceTab.rows :
                           LET effect == MovesAmong(record.effects)[i]
                           IN  /\ BalanceTab.rows[i].holder = TrueHolder(effect)
                               /\ \A j \in DOMAIN record.ops :
                                    record.ops[j].id = effect.operation =>
                                      BalanceTab.rows[i].from
                                        = PresentOperation(record.ops[j])
    BY Zenon DEF NetChangesAddUp
  <1> DEFINE effects == record.effects
             moves == MovesAmong(effects)
  <1>1. Effects = effects
    BY EffectsAreWhole
  <1>2. AsListed(effects)
    BY RecordIsListed
  <1>3. AddsUp(effects)
    BY <1>2, NetLines
  <1>4. /\ BalanceTab.net = NetBalanceChanges(moves)
        /\ BalanceTab.rows = [i \in DOMAIN moves |->
              [holder |-> BalanceHolderOf(moves[i]), delta |-> BalanceDelta(moves[i]),
               from |-> SourceOperation(moves[i], record.ops)]]
    BY <1>1 DEF BalanceTab, BalanceChanges
  <1>5. HistoryRow.moves = NetBalanceChanges(effects)
    BY <1>1 DEF HistoryRow
  <1>6. HistoryRow.moves = BalanceTab.net
    BY <1>2, <1>4, <1>5, MovesAddUpAlike
  <1>7. ASSUME NEW i \in DOMAIN moves
        PROVE  HorizonEffect(moves[i]) /\ Moves(moves[i])
    <2> DEFINE N == Len(effects)
               places == {n \in DOMAIN effects : Moves(effects[n])}
               rank == Ranks(places, N)
    <2>1. AsListed(moves) /\ IsPick(effects, places, rank, rank[N], moves)
      BY <1>2, MovesFacts
    <2>2. /\ DOMAIN moves = 1 .. rank[N]
          /\ \A k \in 1 .. rank[N] : \E n \in places : rank[n] = k /\ moves[k] = effects[n]
      BY <2>1, Zenon DEF IsPick
    <2> HIDE DEF moves, rank
    <2>3. PICK n \in places : moves[i] = effects[n]
      BY <2>2
    <2> QED BY <1>2, <2>3 DEF AsListed
  <1>8. ASSUME NEW i \in DOMAIN BalanceTab.rows
        PROVE  /\ BalanceTab.rows[i].holder = TrueHolder(moves[i])
               /\ \A j \in DOMAIN record.ops :
                    record.ops[j].id = moves[i].operation =>
                      BalanceTab.rows[i].from = PresentOperation(record.ops[j])
    <2> HIDE DEF moves
    <2>1. i \in DOMAIN moves
      BY <1>4
    <2>2. /\ BalanceTab.rows[i].holder = BalanceHolderOf(moves[i])
          /\ BalanceTab.rows[i].from = SourceOperation(moves[i], record.ops)
      BY <1>4, <2>1
    <2>3. BalanceHolderOf(moves[i]) = TrueHolder(moves[i])
      BY <1>7, <2>1, HolderIsTrue
    <2>4. \A j \in DOMAIN record.ops :
            record.ops[j].id = moves[i].operation =>
              SourceOperation(moves[i], record.ops) = PresentOperation(record.ops[j])
      BY RecordIsListed, SourceIsItsOwn
    <2> QED BY <2>2, <2>3, <2>4
  <1> QED BY <1>3, <1>6, <1>8, Zenon DEF effects, moves

\* Of any effects of any amounts: one line for each balance that changed, in
\* the tab and in the row of a history, of exactly the sum of its movements,
\* and every movement beside its own holder and its own operation.
THEOREM NetChangesAreExact == RecordSpec => []NetChangesAddUp
  <1>1. KnownRecord => NetChangesAddUp
    BY RecordAddsUp
  <1> QED BY <1>1, RecordStays, PTL
=============================================================================
