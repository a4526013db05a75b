---------------------------- MODULE TxPage_proofs ----------------------------
(***************************************************************************)
(* Proofs about TxPage, and about the rotation of Failover it is built on, *)
(* for any number of providers and calls: the page's reads are calls of    *)
(* Failover, so what is proved of them first holds on the page, and a      *)
(* trace is never thinner than what its sources answered.                  *)
(***************************************************************************)
EXTENDS TxPage, TLAPS

-----------------------------------------------------------------------------
(* The rotation: Failover *)

(* The index of an attempt is that of a provider. *)
LEMMA IndexIsProvider ==
  ASSUME NEW i \in Provider, NEW k \in Nat
  PROVE  (i + k) % Size \in Provider
  BY FailoverAssumption DEF Provider

(* Size attempts in a row meet every provider: the one at p is met after   *)
(* p - i steps, or Size more when p lies before i.                         *)
LEMMA RotationMeetsAll ==
  ASSUME NEW i \in Provider, NEW p \in Provider
  PROVE  \E k \in 0..(Size - 1) : (i + k) % Size = p
<1>1. CASE i <= p
  <2>1. p - i \in 0..(Size - 1) /\ (i + (p - i)) % Size = p
    BY <1>1, FailoverAssumption DEF Provider
  <2> QED BY <2>1
<1>2. CASE p < i
  <2>1. p - i + Size \in 0..(Size - 1) /\ (i + (p - i + Size)) % Size = p
    BY <1>2, FailoverAssumption DEF Provider
  <2> QED BY <2>1
<1> QED BY <1>1, <1>2 DEF Provider

-----------------------------------------------------------------------------
(* What a call knows: the providers that answered all the while answer now, *)
(* and none of them is among those it has tried.                            *)
SteadyAnswer == \A c \in Call : steady[c] \subseteq answers

TriedFailed ==
  \A c \in Call :
    pc[c] \in {"trying", "failed"} =>
      \A k \in 0..(attempt[c] - 1) : (start[c] + k) % Size \notin steady[c]

FailedTriedAll == \A c \in Call : pc[c] = "failed" => attempt[c] = Size

IInv == TypeOK /\ SteadyAnswer /\ TriedFailed /\ FailedTriedAll

(* The invariant holds when no call has begun. *)
LEMMA InitInv == Init => IInv
  BY FailoverAssumption
  DEF Init, IInv, TypeOK, SteadyAnswer, TriedFailed, FailedTriedAll, Provider

(* Every step keeps the types; a rotation that goes on has attempts left.  *)
LEMMA TypeStep == IInv /\ [Next]_vars => TypeOK'
<1> SUFFICES ASSUME IInv, [Next]_vars PROVE TypeOK'
  OBVIOUS
<1> USE FailoverAssumption DEF IInv, TypeOK
<1>1. ASSUME NEW c \in Call, Begin(c) PROVE TypeOK'
  BY <1>1 DEF Begin, Provider
<1>0. 0 \in Provider
  BY DEF Provider
<1>2. ASSUME NEW c \in Call, Accept(c) PROVE TypeOK'
  <2>1. Index(c) \in Provider
    BY <1>2, IndexIsProvider DEF Accept, Index
  <2>2. start' \in [Call -> Provider] /\ steady' \in [Call -> SUBSET Provider]
    BY <1>2, <1>0 DEF Accept, Forget
  <2>3. attempt' \in [Call -> 0..Size] /\ pc'[c] = "answered"
    BY <1>2 DEF Accept, Forget
  <2> QED BY <1>2, <2>1, <2>2, <2>3 DEF Accept, Forget
<1>3. ASSUME NEW c \in Call, Rotate(c) PROVE TypeOK'
  BY <1>3 DEF Rotate
<1>4. ASSUME NEW c \in Call, Cancelled(c) PROVE TypeOK'
  <2>1. start' \in [Call -> Provider] /\ steady' \in [Call -> SUBSET Provider]
    BY <1>4, <1>0 DEF Cancelled, Forget
  <2>2. attempt' \in [Call -> 0..Size] /\ pc'[c] = "cancelled"
    BY <1>4 DEF Cancelled, Forget
  <2> QED BY <1>4, <2>1, <2>2 DEF Cancelled, Forget
<1>7. ASSUME NEW calls \in SUBSET Call, Abort(calls) PROVE TypeOK'
  BY <1>7 DEF Abort
<1>5. ASSUME NEW p \in Provider, Change(p) PROVE TypeOK'
  BY <1>5 DEF Change
<1>6. CASE UNCHANGED vars
  BY <1>6 DEF vars, callVars
<1> QED BY <1>1, <1>2, <1>3, <1>4, <1>5, <1>6, <1>7 DEF Next, Step

(* Only a rotation adds to what a call has tried, and it adds a provider   *)
(* that does not answer; a provider that changes is steady for nobody.     *)
LEMMA TriedStep ==
  IInv /\ [Next]_vars => SteadyAnswer' /\ TriedFailed' /\ FailedTriedAll'
<1> SUFFICES ASSUME IInv, [Next]_vars
             PROVE  SteadyAnswer' /\ TriedFailed' /\ FailedTriedAll'
  OBVIOUS
<1> USE FailoverAssumption DEF IInv, TypeOK, SteadyAnswer, TriedFailed, FailedTriedAll
<1>1. ASSUME NEW c \in Call, Begin(c)
      PROVE  SteadyAnswer' /\ TriedFailed' /\ FailedTriedAll'
  BY <1>1 DEF Begin
<1>2. ASSUME NEW c \in Call, Accept(c) \/ Cancelled(c)
      PROVE  SteadyAnswer' /\ TriedFailed' /\ FailedTriedAll'
  BY <1>2 DEF Accept, Cancelled, Forget
<1>6. ASSUME NEW calls \in SUBSET Call, Abort(calls)
      PROVE  SteadyAnswer' /\ TriedFailed' /\ FailedTriedAll'
  BY <1>6 DEF Abort
<1>3. ASSUME NEW c \in Call, Rotate(c)
      PROVE  SteadyAnswer' /\ TriedFailed' /\ FailedTriedAll'
  <2>1. SteadyAnswer' /\ FailedTriedAll'
    BY <1>3 DEF Rotate
  <2>2. ASSUME NEW d \in Call, pc'[d] \in {"trying", "failed"},
               NEW k \in 0..(attempt'[d] - 1)
        PROVE  (start'[d] + k) % Size \notin steady'[d]
    <3>1. CASE d = c /\ k = attempt[c]
      BY <1>3, <3>1 DEF Rotate, Index
    <3>2. CASE d = c /\ k # attempt[c]
      BY <1>3, <2>2, <3>2 DEF Rotate
    <3>3. CASE d # c
      BY <1>3, <2>2, <3>3 DEF Rotate
    <3> QED BY <3>1, <3>2, <3>3
  <2>3. TriedFailed'
    BY <2>2
  <2> QED BY <2>1, <2>3
<1>4. ASSUME NEW p \in Provider, Change(p)
      PROVE  SteadyAnswer' /\ TriedFailed' /\ FailedTriedAll'
  BY <1>4 DEF Change
<1>5. CASE UNCHANGED vars
  BY <1>5 DEF vars, callVars
<1> QED BY <1>1, <1>2, <1>3, <1>4, <1>5, <1>6 DEF Next, Step

(* Type correctness for every number of providers and calls. *)
THEOREM TypeCorrect == Spec => []TypeOK
<1>1. IInv /\ [Next]_vars => IInv'
  BY TypeStep, TriedStep DEF IInv
<1>2. IInv => TypeOK
  BY DEF IInv
<1> QED BY InitInv, <1>1, <1>2, PTL DEF Spec

(* A call that fails has tried every provider, and whichever one answered  *)
(* all the while would have answered it (failover.ts:50-88).               *)
THEOREM OneProviderIsEnoughCorrect == Spec => []OneProviderIsEnough
<1>1. IInv /\ [Next]_vars => IInv'
  BY TypeStep, TriedStep DEF IInv
<1>2. IInv => OneProviderIsEnough
  <2> SUFFICES ASSUME IInv, NEW c \in Call, pc[c] = "failed",
                      NEW p \in steady[c]
               PROVE  FALSE
    BY DEF OneProviderIsEnough
  <2>1. p \in Provider /\ start[c] \in Provider
    BY DEF IInv, TypeOK
  <2>2. PICK k \in 0..(Size - 1) : (start[c] + k) % Size = p
    BY <2>1, RotationMeetsAll
  <2>3. (start[c] + k) % Size \notin steady[c]
    BY <2>2 DEF IInv, TriedFailed, FailedTriedAll
  <2> QED BY <2>2, <2>3
<1> QED BY InitInv, <1>1, <1>2, PTL DEF Spec

-----------------------------------------------------------------------------
(* The page: TxPage *)

(* Every step of the page is a step of the calls it makes or leaves them   *)
(* alone; leaving the page is one abort of all of them.                    *)
LEMMA PageStepIsCallStep == [PageNext]_allVars => [Next]_vars
<1> SUFFICES ASSUME [PageNext]_allVars PROVE [Next]_vars
  OBVIOUS
<1> USE PageAssumption
<1>1. CASE TxStep
  BY <1>1 DEF TxStep, FetchTx, AnswerTx, FailTx, CancelCall, Next, Step
<1>2. CASE OperationsStep
  BY <1>2 DEF OperationsStep, FetchOperations, AnswerOperations, FailOperations,
              CancelCall, Next, Step
<1>3. CASE EffectsStep \/ FetchEffects
  BY <1>3 DEF EffectsStep, FetchEffects, AnswerEffects, FailEffects,
              CancelCall, Next, Step
<1>4. CASE TraceStep \/ BareStep \/ Poll \/ Return \/ MetaMoves
  BY <1>4 DEF TraceStep, FetchTrace, AnswerRpc, FailRpc, AskArchive, AskHorizon,
              BareStep, FetchBare, AnswerBare, FailBare, AskHorizonBare, restVars,
              Poll, Return, MetaMoves
<1>5. CASE Leave
  <2>1. {c \in Call : pc[c] = "trying"} \in SUBSET Call
    OBVIOUS
  <2> QED BY <1>5, <2>1 DEF Leave, Next
<1>6. ASSUME NEW p \in Provider, Ingest(p) \/ ProviderChanges(p)
      PROVE  [Next]_vars
  BY <1>6 DEF Ingest, ProviderChanges, Next
<1>7. CASE UNCHANGED allVars
  BY <1>7 DEF allVars
<1> QED BY <1>1, <1>2, <1>3, <1>4, <1>5, <1>6, <1>7 DEF PageNext

(* The page implements Failover: its calls are calls of that module.       *)
THEOREM PageImplementsFailover == PageSpec => Spec
<1>1. PageInit => Init
  BY DEF PageInit
<1> QED BY <1>1, PageStepIsCallStep, PTL DEF PageSpec, Spec

(* On the page too a read fails only when no provider answered all the     *)
(* while, whatever the page's other reads do to the sticky index.          *)
THEOREM OneProviderIsEnoughOnPage == PageSpec => []OneProviderIsEnough
  BY PageImplementsFailover, OneProviderIsEnoughCorrect, PTL

-----------------------------------------------------------------------------
\* What the sources may have answered.
Answers == [rpc : {"not asked", "early", "held", "aged"},
            archive : {"not asked", "early", "failed"},
            horizon : {"not asked", "missing"}]

(* Where the trace is being looked for, every source before has answered   *)
(* without the meta; what they answered is kept with a thin trace.         *)
SourcesTried ==
  /\ stage \in {"idle", "rpc", "archive", "horizon"}
  /\ soroban \in {"pending", "executed", "reconstructed", "error"}
  /\ saw \in Answers
  /\ retention \in {"early", "held", "aged"}
  /\ stage # "idle" => soroban = "pending"
  /\ stage \in {"archive", "horizon"} => saw.rpc \in {"early", "aged"}
  /\ stage = "horizon" => saw.archive \in {"early", "failed"}

PageInv == SourcesTried /\ ThinTraceHasAReason

(* Nothing is known when the page opens for the first time.                *)
LEMMA PageInitInv == PageInit => PageInv
<1> SUFFICES ASSUME PageInit PROVE PageInv
  OBVIOUS
<1> USE DEF PageInit, NotAsked
<1>1. saw \in Answers
  BY DEF Answers
<1>2. retention \in {"early", "held", "aged"}
  OBVIOUS
<1>3. ThinTraceHasAReason
  BY DEF ThinTraceHasAReason
<1> QED BY <1>1, <1>2, <1>3 DEF PageInv, SourcesTried

(* Only the steps of the trace, of leaving and of coming back change what  *)
(* the invariant is about.                                                 *)
LEMMA PageStepInv == PageInv /\ [PageNext]_allVars => PageInv'
<1> SUFFICES ASSUME PageInv, [PageNext]_allVars PROVE PageInv'
  OBVIOUS
<1> USE DEF PageInv, SourcesTried, ThinTraceHasAReason
<1>0. NotAsked \in Answers
  BY DEF NotAsked, Answers
<1>1. CASE TxStep \/ OperationsStep \/ EffectsStep \/ FetchEffects \/ Poll
  BY <1>1 DEF TxStep, FetchTx, AnswerTx, FailTx, CancelCall, OperationsStep,
     FetchOperations, AnswerOperations, FailOperations, EffectsStep,
     AnswerEffects, FailEffects, FetchEffects, Poll, truthVars, pageVars, traceVars
<1>2. CASE FetchTrace
  BY <1>0, <1>2 DEF FetchTrace, NotAsked, truthVars, restVars
<1>3. CASE AnswerRpc \/ FailRpc
  <2>1. CASE Found /\ UNCHANGED retention
    BY <1>0, <2>1 DEF Found
  <2>2. CASE AnswerRpc /\ ~Found
    <3>1. /\ retention \in {"early", "aged"} /\ stage' = "archive"
          /\ saw' = [saw EXCEPT !.rpc = retention]
          /\ UNCHANGED <<soroban, retention>> /\ soroban = "pending"
      BY <2>2 DEF AnswerRpc, truthVars, restVars
    <3>2. saw' \in Answers /\ saw'.rpc = retention
      BY <3>1 DEF Answers
    <3> QED BY <3>1, <3>2
  <2>3. CASE FailRpc
    BY <2>3 DEF FailRpc, truthVars, restVars
  <2> QED BY <1>3, <2>1, <2>2, <2>3 DEF AnswerRpc, truthVars, restVars
<1>4. CASE AskArchive
  <2>1. CASE Found /\ UNCHANGED retention
    BY <1>0, <2>1 DEF Found
  <2>2. CASE ~Found
    <3>1. PICK answer \in {"failed", "early"} :
             saw' = [saw EXCEPT !.archive = answer]
      BY <1>4, <2>2 DEF AskArchive, restVars
    <3>2. /\ stage = "archive" /\ stage' = "horizon"
          /\ UNCHANGED <<soroban, retention>> /\ soroban = "pending"
      BY <1>4, <2>2 DEF AskArchive, truthVars, restVars
    <3>3. saw' \in Answers /\ saw'.archive = answer /\ saw'.rpc = saw.rpc
      BY <3>1 DEF Answers
    <3> QED BY <3>2, <3>3
  <2> QED BY <1>4, <2>1, <2>2 DEF AskArchive, truthVars, restVars
<1>5. CASE AskHorizon
  <2>1. CASE Found /\ UNCHANGED retention
    BY <1>0, <2>1 DEF Found
  <2>2. CASE ~Found
    <3>1. /\ stage = "horizon" /\ stage' = "idle" /\ UNCHANGED retention
          /\ soroban' = "reconstructed" /\ saw' = [saw EXCEPT !.horizon = "missing"]
      BY <1>5, <2>2 DEF AskHorizon, truthVars, restVars
    <3>2. /\ saw' \in Answers /\ saw'.horizon = "missing"
          /\ saw'.rpc = saw.rpc /\ saw'.archive = saw.archive
      BY <3>1 DEF Answers
    <3> QED BY <3>1, <3>2
  <2> QED BY <1>5, <2>1, <2>2 DEF AskHorizon, truthVars, restVars
<1>6. CASE Leave
  BY <1>0, <1>6 DEF Leave, truthVars, restVars
<1>7. CASE Return
  BY <1>7 DEF Return, Kept, truthVars, restVars
<1>8. CASE MetaMoves
  BY <1>8 DEF MetaMoves, pageVars, traceVars
<1>9. ASSUME NEW p \in Provider, Ingest(p) \/ ProviderChanges(p) PROVE PageInv'
  BY <1>9 DEF Ingest, ProviderChanges, truthVars, pageVars, traceVars
<1>11. CASE BareStep
  BY <1>11 DEF BareStep, FetchBare, AnswerBare, FailBare, AskHorizonBare,
     KeepBare, truthVars, restVars
<1>10. CASE UNCHANGED allVars
  BY <1>10 DEF allVars, truthVars, pageVars, traceVars
<1> QED BY <1>1, <1>2, <1>3, <1>4, <1>5, <1>6, <1>7, <1>8, <1>9, <1>10, <1>11
        DEF PageNext, TraceStep

(* A trace is rebuilt from the envelope only after RPC answered without    *)
(* the meta and neither the archive nor Horizon handed it out.             *)
THEOREM ThinTraceCorrect == PageSpec => []ThinTraceHasAReason
<1>1. PageInv => ThinTraceHasAReason
  BY DEF PageInv
<1> QED BY PageInitInv, PageStepInv, <1>1, PTL DEF PageSpec

-----------------------------------------------------------------------------
(* The queries keep the states they are read by: the bare trace never      *)
(* stands in for the whole one.                                            *)
LEMMA PageTypeStep == PageTypeOK /\ [PageNext]_allVars => PageTypeOK'
<1> SUFFICES ASSUME PageTypeOK, [PageNext]_allVars PROVE PageTypeOK'
  OBVIOUS
<1> USE DEF PageTypeOK
<1>1. CASE TxStep \/ Poll
  BY <1>1 DEF TxStep, FetchTx, AnswerTx, FailTx, CancelCall, Poll, truthVars, pageVars,
     traceVars, bareVars
<1>2. CASE OperationsStep \/ EffectsStep \/ FetchEffects
  BY <1>2 DEF OperationsStep, FetchOperations, AnswerOperations, FailOperations, CancelCall,
     EffectsStep, AnswerEffects, FailEffects, FetchEffects, truthVars, pageVars, traceVars,
     bareVars
<1>3. CASE TraceStep
  BY <1>3 DEF TraceStep, FetchTrace, AnswerRpc, FailRpc, AskArchive, AskHorizon, Found,
     restVars, truthVars, bareVars
<1>4. CASE BareStep
  BY <1>4 DEF BareStep, FetchBare, AnswerBare, FailBare, AskHorizonBare, KeepBare, restVars,
     truthVars
<1>5. CASE Leave
  BY <1>5 DEF Leave, truthVars
<1>6. CASE Return
  BY <1>6 DEF Return, Kept, truthVars
<1>7. CASE MetaMoves
  <2>1. retention' \in {"early", "held", "aged"} /\ archived' \in BOOLEAN
    BY <1>7 DEF MetaMoves
  <2> QED BY <1>7, <2>1 DEF MetaMoves, pageVars, traceVars, bareVars
<1>8. ASSUME NEW p \in Provider, Ingest(p) \/ ProviderChanges(p) PROVE PageTypeOK'
  BY <1>8 DEF Ingest, ProviderChanges, truthVars, pageVars, traceVars, bareVars
<1>9. CASE UNCHANGED allVars
  BY <1>9 DEF allVars, truthVars, pageVars, traceVars, bareVars
<1> QED BY <1>1, <1>2, <1>3, <1>4, <1>5, <1>6, <1>7, <1>8, <1>9 DEF PageNext

(* Every query of the page is pending, answered or failed, in the words    *)
(* its readers tell apart (tx/page.tsx, history-table.tsx, queries.ts).    *)
THEOREM PageTypeCorrect == PageSpec => []PageTypeOK
<1>1. PageInit => PageTypeOK
  BY DEF PageInit, PageTypeOK
<1> QED BY <1>1, PageTypeStep, PTL DEF PageSpec

(* The trace tab says that the transaction did not call a contract only    *)
(* when that is so or its operations could not be read                     *)
(* (page.tsx:226-240), and never that no trace is available                *)
(* (queries.ts:221-224), however page and row share their queries.         *)
THEOREM TraceTabCorrect == PageSpec => []TraceTabIsHonest
<1>1. PageTypeOK => TraceTabIsHonest
  BY DEF PageTypeOK, TraceTabIsHonest, Shown, Body, TracePanel, Settled, Invokes
<1> QED BY <1>1, PageTypeCorrect, PTL

=============================================================================
