-------------------------------- MODULE Chat --------------------------------
(* The AI chat (src/frontend/src/components/ai/chat-widget.tsx and           *)
(* lib/ai/use-ai-chat.ts): one conversation kept in the layout while the     *)
(* reader walks from page to page.  Each turn is one request; a question     *)
(* waits until none is under way, a failed turn may be tried again at any    *)
(* time, so requests overlap and their answers come in any order.            *)
EXTENDS Navigation, FiniteSets

CONSTANTS
  HISTORY_LIMIT,
  MaxTurns        \* bound: questions asked

ASSUME ChatAssumption == HISTORY_LIMIT \in Nat \ {0} /\ MaxTurns \in Nat

VARIABLES
  turns,      \* a sequence: a turn's id is its place in it
  mutedRoute, \* the page whose eye is off, or Nowhere
  sent,       \* the requests under way
  tries       \* history: each request ever made, with what it carried

chatVars == <<turns, mutedRoute, sent, tries>>

Nowhere == "nowhere"

\* What a question names: a page's entity or none.
Named == Page \cup {Nowhere}

ChatInit ==
  /\ NavInit
  /\ turns = <<>> /\ mutedRoute = Nowhere /\ sent = {} /\ tries = {}

pending == \E i \in DOMAIN turns : turns[i].status = "pending"

(* The page is the context unless its eye is off.                            *)
UseRouteContext == mutedRoute # Here

\* The last n of the turns in a set.
LastOf(n, ids) == {i \in ids : Cardinality({j \in ids : j > i}) < n}

(* Mutant: a retry carries the answers of later turns too. *)
HistoryFromAll(before) ==
  LastOf(HISTORY_LIMIT, {i \in DOMAIN turns : turns[i].status = "done"})

(* The answered turns before a turn, the last few of them.                   *)
HistoryFrom(before) ==
  LastOf(HISTORY_LIMIT, {i \in DOMAIN turns : turns[i].status = "done" /\ i < before})

(* The subject of the conversation: the latest turn that has one.            *)
SubjectOf(turn) == IF turn.context # Nowhere THEN turn.context ELSE turn.names
ActiveEntity ==
  LET about == {i \in DOMAIN turns : SubjectOf(turns[i]) # Nowhere} IN
  IF about = {} THEN Nowhere
  ELSE SubjectOf(turns[CHOOSE i \in about : \A j \in about : j <= i])

(* What a question is sent with: the page, or what the question names, or    *)
(* what the conversation is about.                                           *)
Context(names) ==
  IF UseRouteContext THEN Here
  ELSE IF names # Nowhere THEN names
  ELSE ActiveEntity

(* A request leaves for the analysis service.                                *)
Run(turn, context, history) ==
  LET request == [turn |-> turn, context |-> context, history |-> history]
  IN sent' = sent \cup {request} /\ tries' = tries \cup {request}

Ask(names) ==
  /\ Act /\ Len(turns) < MaxTurns /\ ~pending
  /\ turns' = Append(turns, [names |-> names, context |-> Context(names),
                             status |-> "pending"])
  /\ Run(Len(turns) + 1, Context(names), HistoryFrom(Len(turns) + 1))
  /\ UNCHANGED <<urls, at, mutedRoute>>

Retry(i) ==
  /\ Act /\ turns[i].status = "error"
  /\ turns' = [turns EXCEPT ![i].status = "pending"]
  /\ Run(i, turns[i].context, HistoryFrom(i))
  /\ UNCHANGED <<urls, at, mutedRoute>>

(* Mutant: the last turn gets the answer. *)
AnswerLast(request, status) ==
  /\ request \in sent /\ sent' = sent \ {request}
  /\ turns' = [turns EXCEPT ![Len(turns)].status = status]
  /\ UNCHANGED <<navVars, mutedRoute, tries>>

(* The service answers, or the request fails in any way.                     *)
AnswerTo(request, status) ==
  /\ request \in sent /\ sent' = sent \ {request}
  /\ turns' = [turns EXCEPT ![request.turn].status = status]
  /\ UNCHANGED <<navVars, mutedRoute, tries>>

(* The eye in the header of the widget.                                      *)
ToggleEye ==
  /\ Act
  /\ mutedRoute' = IF UseRouteContext THEN Here ELSE Nowhere
  /\ UNCHANGED <<urls, at, turns, sent, tries>>

Walk == Go /\ UNCHANGED chatVars

ChatNext ==
  \/ Walk \/ ToggleEye
  \/ \E names \in Named : Ask(names)
  \/ \E i \in DOMAIN turns : Retry(i)
  \/ \E request \in sent, status \in {"done", "error"} : AnswerTo(request, status)

allVars == <<navVars, chatVars>>

ChatSpec == ChatInit /\ [][ChatNext]_allVars

-----------------------------------------------------------------------------
(* Properties                                                                *)

(* What waits is under way: each pending turn has exactly one request, and   *)
(* no request is without its turn, however they overlap                      *)
(* (use-ai-chat.ts:58-84).                                                   *)
OneRequestPerTurn ==
  \A i \in DOMAIN turns :
    Cardinality({r \in sent : r.turn = i}) = IF turns[i].status = "pending" THEN 1 ELSE 0

(* A turn is asked again as it was asked first, wherever the reader is by    *)
(* then and whatever was answered since: about the same entity and with      *)
(* nothing of later turns (use-ai-chat.ts:99-116).                           *)
RetriedAsAsked ==
  \A r, q \in tries : r.turn = q.turn =>
    /\ r.context = q.context
    /\ \A i \in r.history : i < r.turn

=============================================================================
