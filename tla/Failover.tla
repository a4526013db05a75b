------------------------------ MODULE Failover ------------------------------
(***************************************************************************)
(* fetchJsonWithFailover (frontend/src/lib/failover.ts): every read of the *)
(* frontend from Horizon, RPC or the indexer is one call over a list of    *)
(* providers.  A call starts at the provider that last worked for any      *)
(* call and rotates; concurrent calls share that sticky index.             *)
(***************************************************************************)
EXTENDS Integers

CONSTANTS
  Call,        \* calls under way at one time
  Size,        \* baseUrls.length
  MaxChanges   \* bound: times a provider fails or recovers

ASSUME FailoverAssumption ==
  /\ Size \in Nat \ {0}
  /\ MaxChanges \in Nat

Provider == 0..(Size - 1)

VARIABLES
  answers,      \* the providers that answer now, with an answer that is accepted
  lastHealthy,  \* lastHealthy.get(key) ?? 0
  pc,           \* idle, trying, or how the last call ended
  start, attempt,
  aborted,      \* the calls whose signal is aborted
  steady,       \* history: providers that answer since the call began
  changes       \* how often a provider failed or recovered

callVars == <<pc, start, attempt, aborted, steady>>
vars == <<answers, lastHealthy, callVars, changes>>

TypeOK ==
  /\ answers \subseteq Provider
  /\ lastHealthy \in Provider
  /\ pc \in [Call -> {"idle", "trying", "answered", "failed", "cancelled"}]
  /\ start \in [Call -> Provider]
  /\ attempt \in [Call -> 0..Size]
  /\ \A c \in Call : pc[c] = "trying" => attempt[c] < Size
  /\ aborted \subseteq Call
  /\ steady \in [Call -> SUBSET Provider]
  /\ changes \in 0..MaxChanges

Init ==
  /\ answers = Provider
  /\ lastHealthy = 0
  /\ pc = [c \in Call |-> "idle"]
  /\ start = [c \in Call |-> 0]
  /\ attempt = [c \in Call |-> 0]
  /\ aborted = {}
  /\ steady = [c \in Call |-> {}]
  /\ changes = 0

Begin(c) ==
  /\ pc[c] # "trying"
  /\ pc' = [pc EXCEPT ![c] = "trying"]
  /\ start' = [start EXCEPT ![c] = lastHealthy]
  /\ attempt' = [attempt EXCEPT ![c] = 0]
  /\ aborted' = aborted \ {c}
  /\ steady' = [steady EXCEPT ![c] = answers]
  /\ UNCHANGED <<answers, lastHealthy, changes>>

(* Mutant: the sticky index is read again for every attempt. *)
IndexReread(c) == (lastHealthy + attempt[c]) % Size

Index(c) == (start[c] + attempt[c]) % Size

\* The variables of a call are gone when it returns.
Forget(c) ==
  /\ start' = [start EXCEPT ![c] = 0]
  /\ attempt' = [attempt EXCEPT ![c] = 0]
  /\ steady' = [steady EXCEPT ![c] = {}]

(* An answer that is parsed, whatever its status if not a retriable one. *)
Accept(c) ==
  /\ pc[c] = "trying" /\ c \notin aborted
  /\ Index(c) \in answers
  /\ lastHealthy' = Index(c)
  /\ pc' = [pc EXCEPT ![c] = "answered"]
  /\ Forget(c)
  /\ UNCHANGED <<answers, aborted, changes>>

(* No answer in time, 401, 403, 429, 5xx or a body that does not parse *)
Rotate(c) ==
  /\ pc[c] = "trying" /\ c \notin aborted
  /\ Index(c) \notin answers
  /\ attempt' = [attempt EXCEPT ![c] = @ + 1]
  /\ pc' = [pc EXCEPT ![c] = IF attempt'[c] = Size THEN "failed" ELSE "trying"]
  /\ UNCHANGED <<answers, lastHealthy, start, aborted, steady, changes>>

(* The callers abort; the attempts under way throw and none follows. *)
Abort(calls) ==
  /\ \A c \in calls : pc[c] = "trying"
  /\ aborted' = aborted \cup calls
  /\ UNCHANGED <<answers, lastHealthy, pc, start, attempt, steady, changes>>

Cancelled(c) ==
  /\ pc[c] = "trying" /\ c \in aborted
  /\ pc' = [pc EXCEPT ![c] = "cancelled"]
  /\ aborted' = aborted \ {c}
  /\ Forget(c)
  /\ UNCHANGED <<answers, lastHealthy, changes>>

(* A provider fails or recovers. *)
Change(p) ==
  /\ changes < MaxChanges /\ changes' = changes + 1
  /\ answers' = IF p \in answers THEN answers \ {p} ELSE answers \cup {p}
  /\ steady' = [c \in Call |-> steady[c] \cap answers']
  /\ UNCHANGED <<lastHealthy, pc, start, attempt, aborted>>

Step(c) == Accept(c) \/ Rotate(c) \/ Cancelled(c)

Next ==
  \/ \E c \in Call : Begin(c) \/ Step(c)
  \/ \E calls \in SUBSET Call : Abort(calls)
  \/ \E p \in Provider : Change(p)

Spec == Init /\ [][Next]_vars

-----------------------------------------------------------------------------
(* Properties *)

(* "Fetches from the first responsive base URL" (failover.ts:33): a call   *)
(* fails only if no provider answered all the while, however many calls    *)
(* move the sticky index meanwhile.                                        *)
OneProviderIsEnough ==
  \A c \in Call : pc[c] = "failed" => steady[c] = {}

=============================================================================
