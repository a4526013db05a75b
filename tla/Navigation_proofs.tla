-------------------------- MODULE Navigation_proofs --------------------------
(* Proofs about what goes on while the reader moves between pages, for any   *)
(* pages and any number of acts.  Chat: each pending turn has one request    *)
(* under way, and a turn is asked again as it was asked first.  History: the *)
(* pages walked of a list follow each other, the pager leads on while there  *)
(* is more, and the rows on screen stay until others come.                   *)
EXTENDS Chat, History, FiniteSetTheorems, SequenceTheorems, WellFoundedInduction, TLAPS

(* Some naturals have a least among them.                                    *)
LEMMA LeastNat ==
  ASSUME NEW S, S \subseteq Nat, S # {}
  PROVE  \E n \in S : \A m \in S : n <= m
<1> DEFINE R == {ss \in Nat \X Nat : ss[1] < ss[2]}
<1>1. IsWellFoundedOn(R, Nat)
  BY NatLessThanWellFounded DEF OpToRel
<1> HIDE DEF R
<1>2. PICK n \in S : \A m \in S : ~(<<m, n>> \in R)
  BY <1>1, WFMin
<1>3. \A m \in S : <<m, n>> \in R <=> m < n
  BY DEF R
<1>4. \A m \in S : n <= m
  <2>1. SUFFICES ASSUME NEW m \in S PROVE n <= m
    OBVIOUS
  <2>2. m \in Nat /\ n \in Nat /\ ~(m < n)
    BY <1>2, <1>3
  <2>3. QED
    BY <2>2
<1>5. QED
  BY <1>4

-----------------------------------------------------------------------------
(* The reader's way *)

(* The reader comes in on a page.                                            *)
LEMMA NavInitType == NavInit => NavTypeOK
<1>1. SUFFICES ASSUME NavInit PROVE NavTypeOK
  OBVIOUS
<1>2. PICK u \in Url : urls = <<u>>
  BY <1>1 DEF NavInit
<1>3. urls \in Seq(Url) /\ Len(urls) = 1
  BY <1>2
<1>4. QED
  BY <1>1, <1>3, NavigationAssumption DEF NavInit, NavTypeOK

(* Every url is a page's, that on screen too.                                *)
LEMMA UrlHasPage ==
  ASSUME NEW u \in Seq(Url), NEW i \in DOMAIN u
  PROVE  u[i].page \in Page
<1>1. u[i] \in Url
  OBVIOUS
<1>2. QED
  BY <1>1 DEF Url

(* Wherever the reader goes there is a page.                                 *)
LEMMA GoKeepsType ==
  ASSUME NavTypeOK, Go
  PROVE  NavTypeOK'
<1>1. acts' \in 0..MaxActs
  <2>1. Act
    BY DEF Go, Visit, OpenTab, Back, Forward
  <2>2. QED
    BY <2>1, NavigationAssumption DEF Act, NavTypeOK
<1>2. at \in 1..Len(urls) /\ urls \in Seq(Url)
  BY DEF NavTypeOK
<1>3. ASSUME NEW p \in Page, Visit(p)
      PROVE  urls' \in Seq(Url) /\ at' \in DOMAIN urls'
  <2>1. [page |-> p, tab |-> "details"] \in Url
    BY DEF Url
  <2>2. SubSeq(urls, 1, at) \in Seq(Url) /\ Len(SubSeq(urls, 1, at)) = at
    BY <1>2
  <2>3. QED
    BY <2>1, <2>2, <1>2, <1>3 DEF Visit
<1>4. ASSUME NEW t \in {"details", "list"}, OpenTab(t)
      PROVE  urls' \in Seq(Url) /\ at' \in DOMAIN urls'
  <2>1. urls[at] \in Url
    BY <1>2
  <2>2. [urls[at] EXCEPT !.tab = t] \in Url
    BY <2>1 DEF Url
  <2>3. urls' = [urls EXCEPT ![at] = [urls[at] EXCEPT !.tab = t]] /\ at' = at
    BY <1>4 DEF OpenTab
  <2>4. QED
    BY <1>2, <2>2, <2>3
<1>5. CASE Back \/ Forward
  BY <1>1, <1>2, <1>5 DEF Back, Forward, NavTypeOK
<1>6. QED
  BY <1>1, <1>3, <1>4, <1>5 DEF Go, NavTypeOK

-----------------------------------------------------------------------------
(* The conversation *)

Turn == [names : Named, context : Named, status : {"pending", "done", "error"}]

(* A request carries its turn's context and only what came before it.        *)
AskedAs(r) ==
  /\ r.turn \in 1..Len(turns)
  /\ r.context = turns[r.turn].context
  /\ \A i \in r.history : i < r.turn

(* No two requests under way are for one turn.                               *)
SentOnce == \A r, q \in sent : r.turn = q.turn => r = q

(* A turn waits exactly while a request of its own is under way.             *)
PendingIsSent ==
  \A i \in 1..Len(turns) : turns[i].status = "pending" <=> \E r \in sent : r.turn = i

ChatInv ==
  /\ NavTypeOK
  /\ turns \in Seq(Turn)
  /\ sent \subseteq tries
  /\ \A r \in tries : AskedAs(r)
  /\ SentOnce
  /\ PendingIsSent

(* Nothing is asked at the start.                                           *)
LEMMA ChatInvInit == ChatInit => ChatInv
<1>1. SUFFICES ASSUME ChatInit PROVE ChatInv
  OBVIOUS
<1>2. NavTypeOK
  BY <1>1, NavInitType DEF ChatInit
<1>3. turns = <<>> /\ sent = {} /\ tries = {}
  BY <1>1 DEF ChatInit
<1>4. QED
  BY <1>2, <1>3 DEF ChatInv, SentOnce, PendingIsSent

-----------------------------------------------------------------------------
(* What a question is sent with *)

(* A set of turns has a last one.                                            *)
LEMMA LastTurn ==
  ASSUME NEW n \in Nat, NEW T \in SUBSET (1..n), T # {}
  PROVE  \E i \in T : \A j \in T : j <= i
<1> DEFINE behind == {n - i : i \in T}
<1>1. behind \subseteq Nat /\ behind # {}
  <2>1. \A i \in T : n - i \in Nat
    OBVIOUS
  <2>2. QED
    BY <2>1
<1>2. PICK x \in behind : \A y \in behind : x <= y
  BY <1>1, LeastNat
<1>3. PICK i \in T : x = n - i
  OBVIOUS
<1>4. ASSUME NEW j \in T PROVE j <= i
  <2>1. n - i <= n - j
    BY <1>2, <1>3
  <2>2. QED
    BY <2>1
<1>5. QED
  BY <1>4

(* A question's context is a page's entity or none.                          *)
LEMMA ContextType ==
  ASSUME ChatInv, NEW names \in Named
  PROVE  Context(names) \in Named
<1>1. Here \in Page
  BY UrlHasPage DEF ChatInv, NavTypeOK, Here
<1>2. ActiveEntity \in Named
  <2> DEFINE about == {i \in DOMAIN turns : SubjectOf(turns[i]) # Nowhere}
  <2>1. CASE about = {}
    BY <2>1 DEF ActiveEntity, Named
  <2>2. CASE about # {}
    <3>1. \E i \in about : \A j \in about : j <= i
      <4>1. about \in SUBSET (1..Len(turns)) /\ Len(turns) \in Nat
        BY DEF ChatInv
      <4>2. QED
        BY <2>2, <4>1, LastTurn
    <3>2. PICK i \in about : ActiveEntity = SubjectOf(turns[i])
      BY <2>2, <3>1 DEF ActiveEntity
    <3>3. turns[i] \in Turn
      BY DEF ChatInv
    <3>4. QED
      BY <3>2, <3>3 DEF SubjectOf, Turn
  <2>3. QED
    BY <2>1, <2>2
<1>3. QED
  BY <1>1, <1>2 DEF Context, Named

(* The history sent along is of earlier turns.                               *)
LEMMA HistoryIsEarlier ==
  ASSUME NEW before, NEW i \in HistoryFrom(before)
  PROVE  i < before
BY DEF HistoryFrom, LastOf

-----------------------------------------------------------------------------
(* The steps *)

(* A new turn brings its own request.                                        *)
LEMMA AskStep ==
  ASSUME ChatInv, NEW names \in Named, Ask(names)
  PROVE  ChatInv'
<1>1. PICK n : n = Len(turns) + 1
  OBVIOUS
<1>2. PICK turn : turn = [names |-> names, context |-> Context(names), status |-> "pending"]
  OBVIOUS
<1>3. PICK request :
        request = [turn |-> n, context |-> Context(names), history |-> HistoryFrom(n)]
  OBVIOUS
<1>4. /\ turns' = Append(turns, turn) /\ sent' = sent \cup {request}
      /\ tries' = tries \cup {request} /\ urls' = urls /\ at' = at
  BY <1>1, <1>2, <1>3 DEF Ask, Run
<1>5. NavTypeOK'
  BY <1>4, NavigationAssumption DEF ChatInv, NavTypeOK, Ask, Act
<1>6. turn \in Turn
  BY <1>2, ContextType DEF Turn
<1>7. /\ turns' \in Seq(Turn) /\ Len(turns) \in Nat /\ Len(turns') = n /\ turns'[n] = turn
      /\ \A i \in 1..Len(turns) : turns'[i] = turns[i]
  BY <1>1, <1>4, <1>6 DEF ChatInv
<1>8. \A r \in tries : AskedAs(r)'
  BY <1>1, <1>7 DEF ChatInv, AskedAs
<1>9. AskedAs(request)'
  BY <1>1, <1>2, <1>3, <1>7, HistoryIsEarlier DEF AskedAs
<1>10. \A r \in sent : r.turn \in 1..Len(turns) /\ r.turn # n
  BY <1>1, <1>7 DEF ChatInv, AskedAs
<1>11. SentOnce'
  BY <1>3, <1>4, <1>10 DEF ChatInv, SentOnce
<1>12. PendingIsSent'
  <2>1. SUFFICES ASSUME NEW i \in 1..n
                 PROVE  turns'[i].status = "pending" <=> \E r \in sent' : r.turn = i
    BY <1>7 DEF PendingIsSent
  <2>2. CASE i = n
    BY <2>2, <1>2, <1>3, <1>4, <1>7
  <2>3. CASE i # n
    BY <2>3, <1>1, <1>3, <1>4, <1>7 DEF ChatInv, PendingIsSent
  <2>4. QED
    BY <2>2, <2>3
<1>13. QED
  BY <1>4, <1>5, <1>7, <1>8, <1>9, <1>11, <1>12 DEF ChatInv

(* A failed turn has no request left when it gets a new one.                 *)
LEMMA RetryStep ==
  ASSUME ChatInv, NEW i \in DOMAIN turns, Retry(i)
  PROVE  ChatInv'
<1>1. PICK request :
        request = [turn |-> i, context |-> turns[i].context, history |-> HistoryFrom(i)]
  OBVIOUS
<1>2. /\ turns[i].status = "error" /\ turns' = [turns EXCEPT ![i].status = "pending"]
      /\ sent' = sent \cup {request} /\ tries' = tries \cup {request}
      /\ urls' = urls /\ at' = at
  BY <1>1 DEF Retry, Run
<1>3. NavTypeOK'
  BY <1>2, NavigationAssumption DEF ChatInv, NavTypeOK, Retry, Act
<1>4. i \in 1..Len(turns) /\ Len(turns) \in Nat /\ \A j \in 1..Len(turns) : turns[j] \in Turn
  BY DEF ChatInv
<1>5. /\ turns' \in Seq(Turn) /\ Len(turns') = Len(turns)
      /\ \A j \in 1..Len(turns) :
           /\ turns'[j].context = turns[j].context
           /\ turns'[j].status = IF j = i THEN "pending" ELSE turns[j].status
  BY <1>2, <1>4 DEF ChatInv, Turn
<1>6. \A r \in tries : AskedAs(r)'
  BY <1>5 DEF ChatInv, AskedAs
<1>7. AskedAs(request)'
  BY <1>1, <1>4, <1>5, HistoryIsEarlier DEF AskedAs
<1>8. \A r \in sent : r.turn # i
  BY <1>2, <1>4 DEF ChatInv, PendingIsSent
<1>9. SentOnce'
  BY <1>1, <1>2, <1>8 DEF ChatInv, SentOnce
<1>10. PendingIsSent'
  BY <1>1, <1>2, <1>5, <1>8 DEF ChatInv, PendingIsSent
<1>11. QED
  BY <1>2, <1>3, <1>5, <1>6, <1>7, <1>9, <1>10 DEF ChatInv

(* An answer settles the one turn it was asked for.                          *)
LEMMA AnswerStep ==
  ASSUME ChatInv, NEW request \in sent, NEW status \in {"done", "error"},
         AnswerTo(request, status)
  PROVE  ChatInv'
<1> DEFINE i == request.turn
<1>1. /\ sent' = sent \ {request} /\ turns' = [turns EXCEPT ![i].status = status]
      /\ tries' = tries /\ UNCHANGED navVars
  BY DEF AnswerTo
<1>2. NavTypeOK'
  BY <1>1 DEF ChatInv, NavTypeOK, navVars
<1>3. i \in 1..Len(turns) /\ Len(turns) \in Nat /\ \A j \in 1..Len(turns) : turns[j] \in Turn
  BY DEF ChatInv, AskedAs
<1>4. /\ turns' \in Seq(Turn) /\ Len(turns') = Len(turns)
      /\ \A j \in 1..Len(turns) :
           /\ turns'[j].context = turns[j].context
           /\ turns'[j].status = IF j = i THEN status ELSE turns[j].status
  BY <1>1, <1>3, SMTT(30) DEF ChatInv, Turn
<1>5. \A r \in tries' : AskedAs(r)'
  BY <1>1, <1>4 DEF ChatInv, AskedAs
<1>6. SentOnce'
  BY <1>1 DEF ChatInv, SentOnce
<1>7. \A j \in 1..Len(turns) : (\E r \in sent' : r.turn = j) <=> j # i /\ \E r \in sent : r.turn = j
  BY <1>1 DEF ChatInv, SentOnce
<1>8. PendingIsSent'
  BY <1>4, <1>7 DEF ChatInv, PendingIsSent
<1>9. QED
  BY <1>1, <1>2, <1>4, <1>5, <1>6, <1>8 DEF ChatInv

(* Every step keeps the invariant.                                           *)
LEMMA ChatInvStep == ChatInv /\ [ChatNext]_allVars => ChatInv'
<1>1. SUFFICES ASSUME ChatInv, [ChatNext]_allVars PROVE ChatInv'
  OBVIOUS
<1>2. CASE NavTypeOK' /\ UNCHANGED <<turns, sent, tries>>
  BY <1>1, <1>2 DEF ChatInv, AskedAs, SentOnce, PendingIsSent
<1>3. CASE Walk
  BY <1>1, <1>2, <1>3, GoKeepsType DEF Walk, chatVars, ChatInv
<1>4. CASE ToggleEye
  BY <1>1, <1>2, <1>4, NavigationAssumption DEF ToggleEye, Act, NavTypeOK, ChatInv
<1>5. CASE UNCHANGED allVars
  BY <1>1, <1>2, <1>5 DEF allVars, navVars, chatVars, NavTypeOK, ChatInv
<1>6. QED
  BY <1>1, <1>3, <1>4, <1>5, AskStep, RetryStep, AnswerStep DEF ChatNext

(* What waits is under way (use-ai-chat.ts:58-84), for any pages and any     *)
(* number of turns: each pending turn has exactly one request.               *)
THEOREM OneRequestPerTurnCorrect == ChatSpec => []OneRequestPerTurn
<1>1. ASSUME ChatInv PROVE OneRequestPerTurn
  <2>1. SUFFICES ASSUME NEW i \in DOMAIN turns
                 PROVE  Cardinality({r \in sent : r.turn = i})
                          = IF turns[i].status = "pending" THEN 1 ELSE 0
    BY DEF OneRequestPerTurn
  <2>2. i \in 1..Len(turns)
    BY <1>1 DEF ChatInv
  <2>3. CASE turns[i].status = "pending"
    <3>1. PICK r \in sent : r.turn = i
      BY <1>1, <2>2, <2>3 DEF ChatInv, PendingIsSent
    <3>2. {q \in sent : q.turn = i} = {r}
      BY <1>1, <3>1 DEF ChatInv, SentOnce
    <3>3. QED
      BY <2>3, <3>2, FS_Singleton
  <2>4. CASE turns[i].status # "pending"
    <3>1. {q \in sent : q.turn = i} = {}
      BY <1>1, <2>2, <2>4 DEF ChatInv, PendingIsSent
    <3>2. QED
      BY <2>4, <3>1, FS_EmptySet
  <2>5. QED
    BY <2>3, <2>4
<1>2. QED
  BY <1>1, ChatInvInit, ChatInvStep, PTL DEF ChatSpec

(* A turn is asked again as it was asked first (use-ai-chat.ts:99-116): for  *)
(* any pages and any history limit, about the same entity and with nothing   *)
(* of later turns.                                                           *)
THEOREM RetriedAsAskedCorrect == ChatSpec => []RetriedAsAsked
<1>1. ChatInv => RetriedAsAsked
  BY DEF ChatInv, AskedAs, RetriedAsAsked
<1>2. QED
  BY <1>1, ChatInvInit, ChatInvStep, PTL DEF ChatSpec

-----------------------------------------------------------------------------
(* The lists *)

\* A place in some list: at or below one of its rows.
Token == {c \in Nat \ {0} : \E p \in Page : \E n \in ops[p] : c <= n}

(* The pager leads on from an answer.                                        *)
LeadsOn(key, answer) ==
  /\ KindOf[key.page] = "account" => Cardinality(answer.found) = PageSize
  /\ answer.next # None

(* An answer that leads on holds all that lies between its cursor and the    *)
(* next, and one with more rows behind it leads on, whatever has come in.    *)
AnswerFits(key, answer) ==
  /\ answer.found \subseteq Nat
  /\ answer.next \in Token \cup {None} /\ answer.last \in Token \cup {None}
  /\ LeadsOn(key, answer) /\ key.cursor # None =>
       Between(key.page, key.filter, answer.next, key.cursor) = answer.found
  /\ (\E n \in Listed(key.page, key.filter) : n < answer.last) => LeadsOn(key, answer)

CacheFits ==
  \A key \in DOMAIN cache : key.cursor \in Token \cup {None} /\ AnswerFits(key, cache[key])

(* Rows kept on screen are a contract's, and those of the key if it has any. *)
KeptRows ==
  /\ previous # NoKey =>
       /\ mounted /\ KindOf[Here] = "contract" /\ KindOf[previous.page] = "contract"
       /\ previous \in DOMAIN cache
  /\ mounted /\ KindOf[Here] = "contract" /\ KeyNow \in DOMAIN cache => previous = KeyNow

(* While a page is fetched, the rows on screen are those that lead to it.    *)
RowsLeadHere ==
  mounted /\ KindOf[Here] = "contract" /\ ~carried /\ visited # <<>> /\ KeyNow \notin DOMAIN cache
    => previous # NoKey /\ cache[previous].next = Cursor

(* The reader leaves a page behind only with its answer, or unmoved.         *)
AnsweredBehind ==
  KindOf[Here] = "contract" /\ ~carried =>
    \A i \in 2..Len(visited) :
      \/ [page |-> Here, filter |-> filter, cursor |-> visited[i - 1].token] \in DOMAIN cache
      \/ visited[i].token = visited[i - 1].token

WalkFits ==
  KindOf[Here] = "account" \/ ~carried =>
    \A i \in 2..Len(visited) :
      visited[i].page = visited[i - 1].page /\ visited[i].filter = visited[i - 1].filter =>
        Between(visited[i].page, visited[i].filter,
                visited[i].token, visited[i - 1].token) \in {{}, visited[i].found}

OpsAreTokens == \A p \in Page : ops[p] \subseteq Nat \ {0} /\ IsFiniteSet(ops[p])

WalkedTokens == \A i \in 1..Len(visited) : visited[i].token \in Token

ListInv == WalkedTokens /\ KeptRows /\ RowsLeadHere /\ AnsweredBehind /\ WalkFits

HistoryInv == NavTypeOK /\ HistoryTypeOK /\ OpsAreTokens /\ CacheFits /\ ListInv

-----------------------------------------------------------------------------
(* What an answer says *)

(* A page that leaves something out is a full one.                           *)
LEMMA TopFull ==
  ASSUME NEW B, B \subseteq Nat, IsFiniteSet(B), NEW K \in Nat \ {0},
         NEW x \in B, Cardinality({m \in B : m > x}) >= K
  PROVE  Cardinality({n \in B : Cardinality({m \in B : m > n}) < K}) = K
<1> DEFINE Above(n) == {m \in B : m > n}
           Top == {n \in B : Cardinality(Above(n)) < K}
<1>1. \A n : IsFiniteSet(Above(n)) /\ Cardinality(Above(n)) \in Nat
  BY FS_Subset, FS_CardinalityType
<1>2. \A n, m \in B : n < m => Cardinality(Above(m)) < Cardinality(Above(n))
  <2>1. SUFFICES ASSUME NEW n \in B, NEW m \in B, n < m
                 PROVE  Cardinality(Above(m)) < Cardinality(Above(n))
    OBVIOUS
  <2>2. Above(m) \subseteq Above(n)
    <3>1. \A z \in B : z > m => z > n
      BY <2>1
    <3>2. QED
      BY <3>1
  <2>3. m \in Above(n) /\ m \notin Above(m)
    BY <2>1
  <2> HIDE DEF Above
  <2>4. Cardinality(Above(m)) <= Cardinality(Above(n)) /\ Cardinality(Above(m)) # Cardinality(Above(n))
    BY <1>1, <2>2, <2>3, FS_Subset
  <2>5. QED
    BY <1>1, <2>4
<1>3. \E y \in B : /\ Cardinality(Above(y)) >= K
                  /\ \A z \in B : Cardinality(Above(z)) >= K =>
                       Cardinality(Above(y)) <= Cardinality(Above(z))
  <2> DEFINE S == {Cardinality(Above(n)) : n \in {z \in B : Cardinality(Above(z)) >= K}}
  <2>1. S \subseteq Nat /\ S # {}
    BY <1>1
  <2>2. PICK k \in S : \A j \in S : k <= j
    BY <2>1, LeastNat
  <2>3. PICK y \in B : k = Cardinality(Above(y)) /\ Cardinality(Above(y)) >= K
    OBVIOUS
  <2>4. \A z \in B : Cardinality(Above(z)) >= K => k <= Cardinality(Above(z))
    BY <2>2
  <2> HIDE DEF Above, S
  <2>5. QED
    BY <2>3, <2>4
<1>4. PICK y \in B : /\ Cardinality(Above(y)) >= K
                    /\ \A z \in B : Cardinality(Above(z)) >= K =>
                         Cardinality(Above(y)) <= Cardinality(Above(z))
  BY <1>3
<1>5. \A n \in B : n \in Top <=> n > y
  <2>1. SUFFICES ASSUME NEW n \in B PROVE n \in Top <=> n > y
    OBVIOUS
  <2>2. n \in Nat /\ y \in Nat /\ (n \in Top <=> Cardinality(Above(n)) < K)
    OBVIOUS
  <2> HIDE DEF Above, Top
  <2>3. CASE n > y
    BY <2>2, <2>3, <1>1, <1>2, <1>4
  <2>4. CASE n < y
    BY <2>2, <2>4, <1>1, <1>2, <1>4
  <2>5. CASE n = y
    BY <2>2, <2>5, <1>1, <1>4
  <2>6. QED
    BY <2>2, <2>3, <2>4, <2>5
<1>6. Top = Above(y)
  BY <1>5
<1>7. Top # {}
  <2>1. Cardinality(Above(y)) # 0
    BY <1>1, <1>4
  <2>2. QED
    BY <1>6, <2>1, FS_EmptySet
<1>8. PICK r \in Top : \A n \in Top : r <= n
  BY <1>7, LeastNat
<1>9. Top \subseteq Above(r) \cup {r}
  <2>1. \A n \in Top : n = r \/ n \in Above(r)
    BY <1>8
  <2>2. QED
    BY <2>1
<1>10. Cardinality(Above(r)) < K
  BY <1>8
<1> HIDE DEF Above, Top
<1>11. Cardinality(Top) <= Cardinality(Above(r)) + 1
  <2>1. IsFiniteSet(Above(r) \cup {r}) /\ Cardinality(Above(r) \cup {r}) <= Cardinality(Above(r)) + 1
    <3>1. IsFiniteSet(Above(r)) /\ Cardinality(Above(r)) \in Nat
      BY <1>1
    <3>2. /\ IsFiniteSet(Above(r) \cup {r})
          /\ Cardinality(Above(r) \cup {r}) = IF r \in Above(r) THEN Cardinality(Above(r))
                                              ELSE Cardinality(Above(r)) + 1
      BY <3>1, FS_AddElement, Zenon
    <3>3. QED
      BY <3>1, <3>2
  <2>2. Cardinality(Top) <= Cardinality(Above(r) \cup {r}) /\ Cardinality(Above(r) \cup {r}) \in Nat
    BY <1>9, <2>1, FS_Subset, FS_CardinalityType
  <2>3. QED
    BY <1>1, <1>6, <2>1, <2>2
<1>12. Cardinality(Top) = K
  BY <1>1, <1>4, <1>6, <1>10, <1>11
<1>13. QED
  BY <1>12 DEF Top, Above

(* A page that is full, or the last, leads on exactly when it must, whatever *)
(* rows are lost.                                                            *)
LEMMA WholeAnswerIsFit ==
  ASSUME NEW key \in Key, ops[key.page] \subseteq Nat \ {0}, IsFiniteSet(ops[key.page]), NEW gone
  PROVE  AnswerFits(key, Answer(key, None, gone))
<1> DEFINE p == key.page
           B == Below(key)
           R == RowsOf(key)
           answer == Answer(key, None, gone)
<1>1. B \subseteq ops[p] /\ B \subseteq Nat /\ IsFiniteSet(B) /\ \A n \in B : n # 0
  BY FS_Subset DEF Below, Listed
<1>2. R \subseteq B /\ IsFiniteSet(R) /\ Cardinality(R) \in Nat
  BY <1>1, FS_Subset, FS_CardinalityType DEF RowsOf
<1>3. R # {} => EndOf(R) \in R /\ \A n \in R : EndOf(R) <= n
  <2>1. SUFFICES ASSUME R # {} PROVE EndOf(R) \in R /\ \A n \in R : EndOf(R) <= n
    OBVIOUS
  <2>2. \E n \in R : \A m \in R : n <= m
    BY <1>1, <1>2, <2>1, LeastNat
  <2>3. QED
    BY <2>1, <2>2 DEF EndOf, Min
<1>4. R = {} => EndOf(R) = None
  BY DEF EndOf
<1>5. EndOf(R) \in Token \cup {None} /\ (EndOf(R) # None => EndOf(R) \in R)
  <2>1. \A n \in R : n \in Token
    BY <1>1, <1>2 DEF Token, Key
  <2>2. QED
    BY <1>3, <1>4, <2>1
<1>6. R # B => Cardinality(R) = PageSize
  <2>1. SUFFICES ASSUME NEW x \in B, x \notin R PROVE Cardinality(R) = PageSize
    BY <1>2
  <2>2. PageSize \in Nat \ {0}
    BY HistoryAssumption
  <2>3. Cardinality({m \in B : m > x}) \in Nat
    BY <1>1, FS_Subset, FS_CardinalityType
  <2>4. Cardinality({m \in B : m > x}) >= PageSize
    BY <2>1, <2>2, <2>3 DEF RowsOf
  <2>5. QED
    BY <1>1, <2>2, <2>4, TopFull DEF RowsOf
<1>7. \A n \in Listed(p, key.filter), r \in R : n < r => n \in B
  <2>1. SUFFICES ASSUME NEW n \in Listed(p, key.filter), NEW r \in R, n < r PROVE n \in B
    OBVIOUS
  <2>2. key.cursor = None \/ r < key.cursor
    BY <1>2 DEF Below
  <2>3. n \in Nat /\ r \in Nat /\ key.cursor \in Nat
    BY <1>1, <1>2 DEF Listed, Key
  <2>4. QED
    BY <2>1, <2>2, <2>3 DEF Below
<1>8. \A n \in B, r \in R : r <= n => n \in R
  <2>1. SUFFICES ASSUME NEW n \in B, NEW r \in R, r <= n PROVE n \in R
    OBVIOUS
  <2>2. {m \in B : m > n} \subseteq {m \in B : m > r} /\ IsFiniteSet({m \in B : m > r})
    BY <1>1, <1>2, <2>1, FS_Subset
  <2>3. /\ Cardinality({m \in B : m > n}) <= Cardinality({m \in B : m > r})
        /\ Cardinality({m \in B : m > n}) \in Nat /\ Cardinality({m \in B : m > r}) \in Nat
    BY <2>2, FS_Subset, FS_CardinalityType
  <2>4. Cardinality({m \in B : m > r}) < PageSize /\ PageSize \in Nat
    BY HistoryAssumption DEF RowsOf
  <2>5. QED
    BY <2>3, <2>4 DEF RowsOf
<1>9. /\ answer.found = R /\ answer.last = EndOf(R)
      /\ answer.next = IF KindOf[p] = "contract" /\ R = B THEN None ELSE EndOf(R)
  BY DEF Answer, Found
<1>10. LeadsOn(key, answer) => /\ answer.next = EndOf(R) /\ answer.next \in R
                               /\ Cardinality(R) = PageSize
  <2>1. p \in Page /\ KindOf[p] \in {"account", "contract"}
    BY NavigationAssumption DEF Key
  <2> HIDE DEF B, R, answer
  <2>2. QED
    BY <2>1, <1>5, <1>6, <1>9 DEF LeadsOn
<1>11. LeadsOn(key, answer) /\ key.cursor # None =>
         Between(p, key.filter, answer.next, key.cursor) = answer.found
  <2>1. SUFFICES ASSUME LeadsOn(key, answer), key.cursor # None
                 PROVE  Between(p, key.filter, answer.next, key.cursor) = R
    BY <1>9
  <2>2. answer.next \in R /\ \A n \in R : answer.next <= n
    BY <1>3, <1>10, <2>1
  <2>3. ASSUME NEW n \in Between(p, key.filter, answer.next, key.cursor) PROVE n \in R
    <3>1. n \in B
      BY <2>3 DEF Between, Below
    <3>2. QED
      BY <1>8, <2>2, <2>3, <3>1 DEF Between
  <2>4. ASSUME NEW n \in R PROVE n \in Between(p, key.filter, answer.next, key.cursor)
    BY <1>2, <2>1, <2>2 DEF Between, Below
  <2>5. QED
    BY <2>3, <2>4
<1>12. (\E n \in Listed(p, key.filter) : n < answer.last) => LeadsOn(key, answer)
  <2>1. SUFFICES ASSUME NEW n \in Listed(p, key.filter), n < answer.last PROVE LeadsOn(key, answer)
    OBVIOUS
  <2>2. n \in Nat
    BY DEF Listed
  <2>3. EndOf(R) # None
    BY <1>9, <2>1, <2>2 DEF None
  <2>4. EndOf(R) \in R /\ \A m \in R : EndOf(R) <= m
    BY <1>3, <1>4, <2>3
  <2>5. n \in B /\ n \notin R
    BY <1>1, <1>2, <1>7, <1>9, <2>1, <2>2, <2>4
  <2>6. Cardinality(R) = PageSize /\ R # B
    BY <1>6, <2>5
  <2> HIDE DEF B, R, answer
  <2>7. QED
    BY <1>9, <2>3, <2>6 DEF LeadsOn
<1>13. answer.next \in Token \cup {None} /\ answer.last \in Token \cup {None}
       /\ answer.found \subseteq Nat
  BY <1>1, <1>2, <1>5, <1>9
<1> HIDE DEF answer
<1>14. AnswerFits(key, answer)
  BY <1>11, <1>12, <1>13 DEF AnswerFits
<1>15. QED
  BY <1>14 DEF answer

(* A page whose search stopped early leads on from where it stopped.         *)
LEMMA StoppedAnswerIsFit ==
  ASSUME NEW key \in Key, ops[key.page] \subseteq Nat \ {0},
         NEW stop \in Stops(key), NEW gone
  PROVE  stop # None /\ AnswerFits(key, Answer(key, stop, gone))
<1> DEFINE answer == Answer(key, stop, gone)
           F == Found(key, stop)
<1>1. /\ KindOf[key.page] # "account" /\ key.page \in Page
      /\ key.cursor = None \/ stop < key.cursor
  BY DEF Stops, Key
<1>2. PICK m \in ops[key.page] : stop \in 1..m
  BY DEF Stops
<1>3. stop \in Nat \ {0} /\ stop # None /\ stop \in Token
  <2>1. m \in Nat \ {0}
    OBVIOUS
  <2>2. stop \in Nat \ {0} /\ stop <= m
    BY <1>2, <2>1
  <2>3. QED
    BY <1>1, <2>2 DEF Token, None
<1>4. F = {n \in Below(key) : n >= stop}
  BY <1>3 DEF Found
<1>5. F \subseteq Nat
  BY <1>4 DEF Below, Listed
<1>6. key.cursor # None => Between(key.page, key.filter, stop, key.cursor) = F
  <2>1. SUFFICES ASSUME key.cursor # None
                 PROVE  Between(key.page, key.filter, stop, key.cursor) = F
    OBVIOUS
  <2>2. \A n \in Listed(key.page, key.filter) : n \in Nat
    BY DEF Listed
  <2>3. \A n \in Listed(key.page, key.filter) : stop <= n <=> n >= stop
    BY <1>3, <2>2
  <2>4. QED
    BY <1>4, <2>1, <2>3 DEF Between, Below
<1>7. answer.found = F /\ answer.last = stop /\ answer.next = stop
  BY <1>3 DEF Answer
<1> HIDE DEF answer, F
<1>8. LeadsOn(key, answer)
  BY <1>1, <1>3, <1>7 DEF LeadsOn
<1>9. AnswerFits(key, answer)
  BY <1>3, <1>5, <1>6, <1>7, <1>8 DEF AnswerFits
<1>10. QED
  BY <1>3, <1>9 DEF answer

(* Whatever the search found and whatever rows are lost, an answer leads on  *)
(* exactly when it must.                                                     *)
LEMMA AnswerIsFit ==
  ASSUME NEW key \in Key, ops[key.page] \subseteq Nat \ {0}, IsFiniteSet(ops[key.page]),
         NEW stop \in {None} \cup Stops(key), NEW gone
  PROVE  AnswerFits(key, Answer(key, stop, gone))
BY WholeAnswerIsFit, StoppedAnswerIsFit

-----------------------------------------------------------------------------
(* What the invariant says at once *)

(* Tokens are numbers, and none is None.                                     *)
LEMMA TokenType ==
  ASSUME OpsAreTokens
  PROVE  Token \subseteq Nat \ {0}
BY DEF OpsAreTokens, Token

(* The key on screen is one.                                                 *)
LEMMA KeyNowType ==
  ASSUME HistoryInv
  PROVE  /\ Here \in Page /\ KindOf[Here] \in {"account", "contract"}
         /\ visited \in Seq(Step) /\ Len(visited) \in Nat
         /\ Cursor \in Token \cup {None} /\ (visited # <<>> => Cursor \in Token)
         /\ KeyNow \in Key /\ KeyNow # NoKey
<1>1. Here \in Page /\ KindOf[Here] \in {"account", "contract"}
  BY UrlHasPage, NavigationAssumption DEF HistoryInv, NavTypeOK, Here
<1>2. visited \in Seq(Step) /\ Len(visited) \in Nat
  BY DEF HistoryInv, HistoryTypeOK
<1>3. Cursor \in Token \cup {None} /\ (visited # <<>> => Cursor \in Token)
  BY <1>2 DEF Cursor, HistoryInv, ListInv, WalkedTokens
<1>4. Cursor \in Nat
  BY <1>3, TokenType DEF None, HistoryInv
<1>5. KeyNow \in Key /\ KeyNow # NoKey
  BY <1>1, <1>4, HistoryAssumption DEF KeyNow, Key, NoKey, HistoryInv, HistoryTypeOK
<1>6. QED
  BY <1>1, <1>2, <1>3, <1>5

(* What is on screen is an answer, to the key or to the one that led to it.  *)
LEMMA RowsShown ==
  ASSUME HistoryInv, View = "rows"
  PROVE  /\ mounted /\ ~failed
         /\ ShownKey \in DOMAIN cache /\ ShownKey \in Key /\ AnswerFits(ShownKey, Data)
         /\ KindOf[ShownKey.page] = KindOf[Here]
         /\ \/ ShownKey = KeyNow /\ KeyNow \in DOMAIN cache
            \/ /\ ShownKey = previous /\ previous # NoKey
               /\ KindOf[Here] = "contract" /\ KeyNow \notin DOMAIN cache
         /\ HasMore <=> LeadsOn(ShownKey, Data)
<1>1. mounted /\ ~failed /\ ShownKey # NoKey
  BY DEF View
<1>2. DOMAIN cache \subseteq Key /\ Here \in Page /\ KindOf[Here] \in {"account", "contract"}
  BY KeyNowType DEF HistoryInv, HistoryTypeOK
<1>3. \/ ShownKey = KeyNow /\ KeyNow \in DOMAIN cache
      \/ /\ ShownKey = previous /\ previous # NoKey
         /\ KindOf[Here] = "contract" /\ KeyNow \notin DOMAIN cache
  BY <1>1 DEF ShownKey
<1>4. ShownKey \in DOMAIN cache /\ KindOf[ShownKey.page] = KindOf[Here]
  BY <1>3 DEF KeyNow, HistoryInv, ListInv, KeptRows
<1>5. AnswerFits(ShownKey, Data)
  BY <1>4 DEF HistoryInv, CacheFits, Data
<1>6. HasMore <=> LeadsOn(ShownKey, Data)
  BY <1>2, <1>4 DEF HasMore, LeadsOn
<1>7. QED
  BY <1>1, <1>2, <1>3, <1>4, <1>5, <1>6

-----------------------------------------------------------------------------
(* The providers' side *)

(* What comes in is newer than all that was listed.                          *)
LEMMA HappensOnTop ==
  ASSUME OpsAreTokens, ops \in [Page -> SUBSET Nat],
         NEW p \in Page, NEW n \in Late, Happens(p, n)
  PROVE  /\ OpsAreTokens' /\ \A t \in Token : t \in Token' /\ t < n
         /\ \A q \in Page : ops[q] \subseteq ops'[q]
         /\ \A q \in Page, f \in Filter : \A m : m \in Listed(q, f)' => m \in Listed(q, f) \/ m = n
         /\ \A q \in Page, f \in Filter, low, high \in Token :
              Between(q, f, low, high)' = Between(q, f, low, high)
<1>1. n \in Nat \ {0} /\ \A q \in Page : \A m \in ops[q] : n > m
  BY HistoryAssumption DEF Happens
<1>2. \A q \in Page : ops'[q] = IF q = p THEN ops[q] \cup {n} ELSE ops[q]
  BY DEF Happens
<1>3. OpsAreTokens'
  <2>1. \A q \in Page : IsFiniteSet(ops[q] \cup {n})
    BY FS_AddElement, Zenon DEF OpsAreTokens
  <2>2. \A q \in Page : IsFiniteSet(ops'[q])
    BY <1>2, <2>1 DEF OpsAreTokens
  <2>3. QED
    BY <1>1, <1>2, <2>2 DEF OpsAreTokens
<1>4. \A t \in Token : t \in Token' /\ t < n
  <2>1. SUFFICES ASSUME NEW t \in Token PROVE t \in Token' /\ t < n
    OBVIOUS
  <2>1a. PICK q \in Page : \E m \in ops[q] : t <= m
    BY DEF Token
  <2>2. PICK m \in ops[q] : t <= m
    BY <2>1a
  <2>3. t \in Nat \ {0} /\ m \in Nat /\ m \in ops'[q]
    BY <1>2 DEF Token, OpsAreTokens
  <2>4. t \in Token'
    BY <2>2, <2>3 DEF Token
  <2>5. n \in Nat /\ n > m
    BY <1>1
  <2>6. QED
    BY <2>2, <2>3, <2>4, <2>5
<1>5. \A q \in Page, f \in Filter : \A m :
        /\ m \in Listed(q, f) => m \in Listed(q, f)'
        /\ m \in Listed(q, f)' => m \in Listed(q, f) \/ m = n
  <2>1. SUFFICES ASSUME NEW q \in Page, NEW f \in Filter, NEW m
                 PROVE  /\ m \in Listed(q, f) => m \in Listed(q, f)'
                        /\ m \in Listed(q, f)' => m \in Listed(q, f) \/ m = n
    BY Zenon
  <2>2. m \in ops'[q] <=> m \in ops[q] \/ (q = p /\ m = n)
    BY <1>2
  <2>3. QED
    BY <2>2, Zenon DEF Listed
<1>6. \A q \in Page, f \in Filter, low, high \in Token :
        Between(q, f, low, high)' = Between(q, f, low, high)
  <2>1. SUFFICES ASSUME NEW q \in Page, NEW f \in Filter, NEW low, NEW high \in Token
                 PROVE  {m \in Listed(q, f)' : low <= m /\ m < high}
                          = {m \in Listed(q, f) : low <= m /\ m < high}
    BY DEF Between
  <2>2. high < n /\ high \in Nat /\ n \in Nat
    BY <1>1, <1>4, TokenType
  <2>3. QED
    BY <1>5, <2>2
<1>7. QED
  BY <1>2, <1>3, <1>4, <1>5, <1>6

(* A new answer fits, and no other is touched.                               *)
LEMMA AnswerKept ==
  ASSUME HistoryInv, NEW key \in Key, key.cursor \in Token \cup {None},
         NEW stop \in {None} \cup Stops(key), NEW gone, ops' = ops,
         cache' = [k \in DOMAIN cache \cup {key} |->
                    IF k = key THEN Answer(k, stop, gone) ELSE cache[k]]
  PROVE  CacheFits'
<1>1. AnswerFits(key, Answer(key, stop, gone))
  BY AnswerIsFit DEF HistoryInv, OpsAreTokens, Key
<1>2. PICK answer : answer = Answer(key, stop, gone)
  OBVIOUS
<1>3. Token' = Token
  BY DEF Token
<1>4. \A k, a : AnswerFits(k, a) => AnswerFits(k, a)'
  BY <1>3 DEF AnswerFits, LeadsOn, Between, Listed
<1>5. \A k \in DOMAIN cache' : cache'[k] = IF k = key THEN answer ELSE cache[k]
  BY <1>2
<1>6. DOMAIN cache' = DOMAIN cache \cup {key}
  OBVIOUS
<1>7. QED
  BY <1>1, <1>2, <1>3, <1>4, <1>5, <1>6 DEF HistoryInv, CacheFits

(* Every step keeps the answers right.                                       *)
LEMMA CacheStep ==
  ASSUME HistoryInv, [HistoryNext]_<<navVars, historyVars>>
  PROVE  OpsAreTokens' /\ CacheFits' /\ DOMAIN cache' \subseteq Key
<1>1. CASE ops' = ops /\ cache' = cache
  BY <1>1 DEF HistoryInv, HistoryTypeOK, OpsAreTokens, CacheFits, AnswerFits, LeadsOn,
              Between, Listed, Token
<1>2. ASSUME NEW stop \in {None} \cup Stops(KeyNow), NEW gone, Receive(stop, gone)
      PROVE  OpsAreTokens' /\ CacheFits' /\ DOMAIN cache' \subseteq Key
  <2>1. ops' = ops
    BY <1>2 DEF Receive
  <2>2. KeyNow \in Key /\ KeyNow.cursor \in Token \cup {None}
    BY KeyNowType DEF KeyNow
  <2>3. CacheFits'
    BY <1>2, <2>1, <2>2, AnswerKept DEF Receive
  <2>4. DOMAIN cache' \subseteq Key
    BY <1>2, <2>2 DEF Receive, HistoryInv, HistoryTypeOK
  <2>5. QED
    BY <2>1, <2>3, <2>4 DEF HistoryInv, OpsAreTokens
<1>3. CASE Prefetch
  <2>1. PICK ahead : ahead = [KeyNow EXCEPT !.cursor = Data.next]
    OBVIOUS
  <2>2. /\ ops' = ops
        /\ cache' = [k \in DOMAIN cache \cup {ahead} |->
                      IF k = ahead THEN Answer(k, None, {}) ELSE cache[k]]
    BY <1>3, <2>1 DEF Prefetch
  <2>3. Data.next \in Token
    <3>1. AnswerFits(ShownKey, Data) /\ LeadsOn(ShownKey, Data) /\ ShownKey.page \in Page
      BY <1>3, RowsShown DEF Prefetch, Key
    <3>2. QED
      BY <3>1 DEF AnswerFits, LeadsOn
  <2>4. ahead \in Key /\ ahead.cursor \in Token
    BY <2>1, <2>3, KeyNowType, TokenType DEF Key, HistoryInv
  <2>5. CacheFits'
    BY <2>2, <2>4, AnswerKept
  <2>6. DOMAIN cache' \subseteq Key
    BY <2>2, <2>4 DEF HistoryInv, HistoryTypeOK
  <2>7. QED
    BY <2>2, <2>5, <2>6 DEF HistoryInv, OpsAreTokens
<1>4. ASSUME NEW p \in Page, NEW n \in Late, Happens(p, n)
      PROVE  OpsAreTokens' /\ CacheFits' /\ DOMAIN cache' \subseteq Key
  <2>1. /\ OpsAreTokens' /\ \A t \in Token : t \in Token' /\ t < n
        /\ \A q \in Page : ops[q] \subseteq ops'[q]
        /\ \A q \in Page, f \in Filter : \A m : m \in Listed(q, f)' => m \in Listed(q, f) \/ m = n
        /\ \A q \in Page, f \in Filter, low, high \in Token :
             Between(q, f, low, high)' = Between(q, f, low, high)
    BY <1>4, HappensOnTop DEF HistoryInv, HistoryTypeOK
  <2>2. n \in Nat \ {0} /\ Token \subseteq Nat
    BY HistoryAssumption, TokenType DEF HistoryInv
  <2>3. ASSUME NEW k \in Key, NEW a, AnswerFits(k, a), k.cursor \in Token \cup {None}
        PROVE  AnswerFits(k, a)' /\ k.cursor \in Token' \cup {None}
    <3>1. k.page \in Page /\ k.filter \in Filter
      BY DEF Key
    <3>2. a.next \in Token' \cup {None} /\ a.last \in Token' \cup {None}
      BY <2>1, <2>3 DEF AnswerFits
    <3>3. a.next # None => a.next \in Token
      BY <2>3 DEF AnswerFits
    <3>4. LeadsOn(k, a) /\ k.cursor # None =>
            Between(k.page, k.filter, a.next, k.cursor)' = a.found
      BY <2>1, <2>3, <3>1, <3>3 DEF AnswerFits, LeadsOn
    <3>5. a.last \in Nat /\ a.last < n
      <4>1. a.last \in Token \cup {None}
        BY <2>3, Zenon DEF AnswerFits
      <4>2. \A t \in Token : t < n
        BY <2>1, Zenon
      <4>3. CASE a.last \in Token
        BY <2>2, <4>2, <4>3, Zenon
      <4>4. CASE a.last = None
        <5>1. n \in Nat \ {0} /\ a.last = 0
          BY <2>2, <4>4, Zenon DEF None
        <5>2. QED
          BY <5>1
      <4>5. QED
        BY <4>1, <4>3, <4>4, Zenon
    <3>6. (\E m \in Listed(k.page, k.filter)' : m < a.last) => LeadsOn(k, a)
      <4>1. SUFFICES ASSUME NEW m \in Listed(k.page, k.filter)', m < a.last PROVE LeadsOn(k, a)
        OBVIOUS
      <4>2. m # n
        BY <2>2, <3>5, <4>1
      <4>3. QED
        BY <2>1, <2>3, <3>1, <4>1, <4>2 DEF AnswerFits
    <3>7. QED
      BY <2>1, <2>3, <3>2, <3>4, <3>6 DEF AnswerFits, LeadsOn
  <2>4. cache' = cache
    BY <1>4 DEF Happens
  <2>5. QED
    BY <2>1, <2>3, <2>4 DEF HistoryInv, HistoryTypeOK, CacheFits
<1>5. HistoryNext => \/ ops' = ops /\ cache' = cache
                     \/ (\E stop \in {None} \cup Stops(KeyNow) : \E gone : Receive(stop, gone)) \/ Prefetch
                     \/ \E p \in Page, n \in Late : Happens(p, n)
  BY DEF HistoryNext, Move, Query, PageLoads, Fails, Next, Previous, ToFirst, ApplyFilter, Redraw
<1>6. QED
  BY <1>1, <1>2, <1>3, <1>4, <1>5 DEF historyVars

-----------------------------------------------------------------------------
(* The list's side *)

(* A key comes on screen: with its answer, or over the rows already there.   *)
LEMMA ShowStep ==
  ASSUME HistoryInv, Show, mounted', cache' = cache, Here' \in Page
  PROVE  /\ KeptRows'
         /\ KindOf[Here'] = "contract" /\ KeyNow' \notin DOMAIN cache /\ mounted =>
              previous' = previous
<1>1. KeyNow'.page = Here'
  BY DEF KeyNow
<1>2. previous' = IF KindOf[Here'] = "account" THEN NoKey
                  ELSE IF KeyNow' \in DOMAIN cache THEN KeyNow'
                  ELSE IF mounted THEN previous ELSE NoKey
  BY DEF Show
<1>3. previous # NoKey => KindOf[previous.page] = "contract" /\ previous \in DOMAIN cache
  BY DEF HistoryInv, ListInv, KeptRows
<1>4. KindOf[Here'] = "contract" \/ previous' = NoKey
  BY <1>2, NavigationAssumption
<1>5. QED
  BY <1>1, <1>2, <1>3, <1>4 DEF KeptRows

(* A walk that gets no longer stays right under the same filter and page.    *)
LEMMA WalkKept ==
  ASSUME HistoryInv, ops' = ops, DOMAIN cache \subseteq DOMAIN cache',
         Len(visited') \in Nat, Len(visited') <= Len(visited),
         \A i \in 1..Len(visited') : visited'[i] = visited[i],
         Len(visited') < 2 \/
           /\ KindOf[Here'] = "account" \/ ~carried' => KindOf[Here] = "account" \/ ~carried
           /\ KindOf[Here'] = "contract" /\ ~carried' =>
                KindOf[Here] = "contract" /\ ~carried /\ Here' = Here /\ filter' = filter
  PROVE  WalkedTokens' /\ AnsweredBehind' /\ WalkFits'
<1>1. Len(visited) \in Nat
  BY KeyNowType
<1>2. WalkedTokens'
  BY <1>1 DEF HistoryInv, ListInv, WalkedTokens, Token
<1>3. AnsweredBehind'
  <2>1. SUFFICES ASSUME KindOf[Here'] = "contract", ~carried', NEW i \in 2..Len(visited')
                 PROVE  \/ [page |-> Here', filter |-> filter', cursor |-> visited'[i - 1].token]
                             \in DOMAIN cache'
                        \/ visited'[i].token = visited'[i - 1].token
    BY DEF AnsweredBehind
  <2>2. /\ i \in 2..Len(visited) /\ visited'[i] = visited[i] /\ visited'[i - 1] = visited[i - 1]
        /\ ~(Len(visited') < 2)
    BY <1>1, <2>1
  <2>3. KindOf[Here] = "contract" /\ ~carried /\ Here' = Here /\ filter' = filter
    BY <2>1, <2>2
  <2>4. QED
    BY <2>2, <2>3 DEF HistoryInv, ListInv, AnsweredBehind
<1>4. WalkFits'
  <2>1. SUFFICES ASSUME KindOf[Here'] = "account" \/ ~carried', NEW i \in 2..Len(visited'),
                        visited'[i].page = visited'[i - 1].page,
                        visited'[i].filter = visited'[i - 1].filter
                 PROVE  Between(visited[i].page, visited[i].filter,
                                visited[i].token, visited[i - 1].token)'
                          \in {{}, visited[i].found}
    BY <1>1 DEF WalkFits, Between, Listed
  <2>2. /\ i \in 2..Len(visited) /\ visited'[i] = visited[i] /\ visited'[i - 1] = visited[i - 1]
        /\ KindOf[Here] = "account" \/ ~carried
    BY <1>1, <2>1
  <2>3. QED
    BY <2>1, <2>2 DEF HistoryInv, ListInv, WalkFits, Between, Listed
<1>5. QED
  BY <1>2, <1>3, <1>4

(* The list is opened or closed.                                             *)
LEMMA FreshStep ==
  ASSUME HistoryInv, Mount \/ Close, ops' = ops, cache' = cache, Here' \in Page
  PROVE  ListInv'
<1>1. visited' = <<>> /\ Len(visited') = 0
  BY DEF Mount, Close
<1>2. WalkedTokens' /\ AnsweredBehind' /\ WalkFits'
  BY <1>1 DEF WalkedTokens, AnsweredBehind, WalkFits
<1>3. RowsLeadHere'
  BY <1>1 DEF RowsLeadHere
<1>4. KeptRows'
  BY ShowStep DEF Mount, Close, KeptRows
<1>5. QED
  BY <1>2, <1>3, <1>4 DEF ListInv

(* The reader moves, and the list with him.                                  *)
LEMMA MoveStep ==
  ASSUME HistoryInv, Move
  PROVE  ListInv'
<1>1. ops' = ops /\ cache' = cache
  BY DEF Move
<1>2. Here' \in Page
  <2>1. NavTypeOK'
    BY GoKeepsType DEF Move, HistoryInv
  <2>2. QED
    BY <2>1, UrlHasPage DEF NavTypeOK, Here
<1>3. CASE ~Opens \/ ~(mounted /\ KindOf[Here'] = KindOf[Here])
  BY <1>2, <1>1, <1>3, FreshStep DEF Move
<1>4. CASE Opens /\ mounted /\ KindOf[Here'] = KindOf[Here]
  <2>1. /\ mounted' /\ visited' = visited /\ filter' = filter /\ Show
        /\ carried' = (carried \/ (visited # <<>> /\ Here' # Here))
    BY <1>4 DEF Move
  <2>2. Len(visited) \in Nat /\ (Len(visited) > 0 => visited # <<>>)
    BY KeyNowType
  <2>3. KeptRows' /\ (KindOf[Here'] = "contract" /\ KeyNow' \notin DOMAIN cache => previous' = previous)
    BY <1>2, <1>1, <1>4, <2>1, ShowStep
  <2>4. Len(visited') < 2 \/
          /\ KindOf[Here'] = "account" \/ ~carried' => KindOf[Here] = "account" \/ ~carried
          /\ KindOf[Here'] = "contract" /\ ~carried' =>
               KindOf[Here] = "contract" /\ ~carried /\ Here' = Here /\ filter' = filter
    <3>1. ~carried' => ~carried /\ (visited = <<>> \/ Here' = Here)
      BY <2>1, Zenon
    <3>2. visited = <<>> => Len(visited') < 2
      BY <2>1
    <3>3. QED
      BY <1>4, <2>1, <3>1, <3>2
  <2>5. WalkedTokens' /\ AnsweredBehind' /\ WalkFits'
    BY <1>1, <2>1, <2>2, <2>4, WalkKept
  <2>6. RowsLeadHere'
    <3>1. SUFFICES ASSUME KindOf[Here'] = "contract", ~carried', visited' # <<>>,
                          KeyNow' \notin DOMAIN cache
                   PROVE  previous' # NoKey /\ cache[previous'].next = Cursor'
      BY <1>1 DEF RowsLeadHere
    <3>2. ~carried /\ Here' = Here /\ KindOf[Here] = "contract" /\ previous' = previous
      BY <1>4, <2>1, <2>3, <3>1
    <3>3. Cursor' = Cursor /\ KeyNow' = KeyNow
      BY <2>1, <3>2 DEF Cursor, KeyNow
    <3>4. QED
      BY <1>4, <2>1, <3>1, <3>2, <3>3 DEF HistoryInv, ListInv, RowsLeadHere
  <2>7. QED
    BY <2>3, <2>5, <2>6 DEF ListInv
<1>5. QED
  BY <1>3, <1>4

(* The answer comes.                                                         *)
LEMMA ReceiveStep ==
  ASSUME HistoryInv, NEW stop, NEW gone, Receive(stop, gone)
  PROVE  ListInv'
<1>1. /\ ops' = ops /\ DOMAIN cache' = DOMAIN cache \cup {KeyNow} /\ mounted /\ mounted'
      /\ Here' = Here /\ visited' = visited /\ filter' = filter /\ carried' = carried
      /\ previous' = IF KindOf[Here] = "contract" THEN KeyNow ELSE NoKey
  BY DEF Receive, navVars, Here
<1>2. KeyNow' = KeyNow
  BY <1>1 DEF KeyNow, Cursor
<1>3. WalkedTokens' /\ AnsweredBehind' /\ WalkFits'
  BY <1>1, KeyNowType, WalkKept
<1>4. KeptRows' /\ RowsLeadHere'
  BY <1>1, <1>2 DEF KeptRows, RowsLeadHere, KeyNow
<1>5. QED
  BY <1>3, <1>4 DEF ListInv

(* The list stands still.                                                    *)
LEMMA StillStep ==
  ASSUME HistoryInv, ops' = ops, UNCHANGED <<urls, at, mounted, visited, filter, carried, previous>>,
         cache' = cache \/ (KindOf[Here] = "account" /\ DOMAIN cache \subseteq DOMAIN cache')
  PROVE  ListInv'
<1>1. Here' = Here /\ Cursor' = Cursor /\ KeyNow' = KeyNow
  BY DEF Here, Cursor, KeyNow
<1>2. WalkedTokens' /\ AnsweredBehind' /\ WalkFits'
  BY <1>1, KeyNowType, WalkKept
<1>3. KeptRows' /\ RowsLeadHere'
  BY <1>1 DEF HistoryInv, ListInv, KeptRows, RowsLeadHere
<1>4. QED
  BY <1>2, <1>3 DEF ListInv

(* Something newer comes in.                                                 *)
LEMMA HappensStep ==
  ASSUME HistoryInv, NEW p \in Page, NEW n \in Late, Happens(p, n)
  PROVE  ListInv'
<1>1. UNCHANGED <<urls, at, mounted, visited, filter, carried, previous, cache>>
  BY DEF Happens, navVars, listVars
<1>2. Here' = Here /\ Cursor' = Cursor /\ KeyNow' = KeyNow
  BY <1>1 DEF Here, Cursor, KeyNow
<1>3. /\ \A t \in Token : t \in Token'
      /\ \A q \in Page, f \in Filter, low, high \in Token :
           Between(q, f, low, high)' = Between(q, f, low, high)
  BY HappensOnTop DEF HistoryInv, HistoryTypeOK
<1>4. WalkedTokens'
  BY <1>1, <1>3 DEF HistoryInv, ListInv, WalkedTokens
<1>5. KeptRows' /\ RowsLeadHere' /\ AnsweredBehind'
  BY <1>1, <1>2 DEF HistoryInv, ListInv, KeptRows, RowsLeadHere, AnsweredBehind
<1>6. WalkFits'
  <2>1. SUFFICES ASSUME KindOf[Here] = "account" \/ ~carried, NEW i \in 2..Len(visited),
                        visited[i].page = visited[i - 1].page,
                        visited[i].filter = visited[i - 1].filter
                 PROVE  Between(visited[i].page, visited[i].filter,
                                visited[i].token, visited[i - 1].token)'
                          \in {{}, visited[i].found}
    BY <1>1, <1>2 DEF WalkFits, Between, Listed
  <2>2. Len(visited) \in Nat /\ i \in 1..Len(visited) /\ i - 1 \in 1..Len(visited)
    BY KeyNowType
  <2>3. /\ visited[i].page \in Page /\ visited[i].filter \in Filter
        /\ visited[i].token \in Token /\ visited[i - 1].token \in Token
    <3>1. visited \in Seq(Step)
      BY KeyNowType
    <3>2. visited[i] \in Step
      BY <2>2, <3>1, ElementOfSeq
    <3>3. visited[i].page \in Page /\ visited[i].filter \in Filter
      BY <3>2 DEF Step
    <3>4. QED
      BY <2>2, <3>3, Zenon DEF HistoryInv, ListInv, WalkedTokens
  <2>4. Between(visited[i].page, visited[i].filter,
                visited[i].token, visited[i - 1].token) \in {{}, visited[i].found}
    BY <2>1 DEF HistoryInv, ListInv, WalkFits
  <2>5. PICK q, f, low, high : /\ q = visited[i].page /\ f = visited[i].filter
                               /\ low = visited[i].token /\ high = visited[i - 1].token
    OBVIOUS
  <2>6. Between(visited[i].page, visited[i].filter, visited[i].token, visited[i - 1].token)'
          = Between(q, f, low, high)'
    BY <1>1, <2>5 DEF Between, Listed
  <2>7. QED
    BY <1>3, <2>3, <2>4, <2>5, <2>6
<1>7. QED
  BY <1>4, <1>5, <1>6 DEF ListInv

-----------------------------------------------------------------------------
(* The pager and the filter *)

(* A redrawn list keeps its rows until the new key has some.                 *)
LEMMA RedrawStep ==
  ASSUME HistoryInv, AtPager, Redraw
  PROVE  /\ Here' = Here /\ mounted /\ mounted' /\ ops' = ops /\ cache' = cache
         /\ KeptRows'
         /\ KindOf[Here] = "contract" /\ KeyNow' \notin DOMAIN cache => previous' = previous
         /\ carried' => carried
         /\ visited' # <<>> /\ ~carried' => ~carried
<1>1. mounted /\ Here \in Page
  BY RowsShown, KeyNowType DEF AtPager
<1>2. /\ Here' = Here /\ mounted' /\ ops' = ops /\ cache' = cache
      /\ mounted' = mounted
  BY <1>1 DEF Redraw, Here
<1>3. KeptRows' /\ (KindOf[Here] = "contract" /\ KeyNow' \notin DOMAIN cache => previous' = previous)
  <2>1. CASE KeyNow' = KeyNow
    <3>1. previous' = previous
      BY <2>1 DEF Redraw
    <3>2. QED
      BY <1>1, <1>2, <2>1, <3>1 DEF HistoryInv, ListInv, KeptRows
  <2>2. CASE KeyNow' # KeyNow
    BY <1>1, <1>2, <2>2, ShowStep DEF Redraw
  <2>3. QED
    BY <2>1, <2>2
<1>4. (carried' => carried) /\ (visited' # <<>> /\ ~carried' => ~carried)
  BY Zenon DEF Redraw
<1>5. QED
  BY <1>1, <1>2, <1>3, <1>4

(* The first page again, of this list or of another.                         *)
LEMMA FirstPageStep ==
  ASSUME HistoryInv, ToFirst \/ \E f \in Filter : ApplyFilter(f)
  PROVE  ListInv'
<1>1. AtPager /\ Redraw /\ visited' = <<>> /\ Len(visited') = 0
  BY DEF ToFirst, ApplyFilter
<1>2. WalkedTokens' /\ AnsweredBehind' /\ WalkFits' /\ RowsLeadHere'
  BY <1>1 DEF WalkedTokens, AnsweredBehind, WalkFits, RowsLeadHere
<1>3. QED
  BY <1>1, <1>2, RedrawStep DEF ListInv

(* A page back: it was answered when it was left, or it is the same page.    *)
LEMMA PreviousStep ==
  ASSUME HistoryInv, Previous
  PROVE  ListInv'
<1>1. PICK L : L = Len(visited)
  OBVIOUS
<1>2. /\ AtPager /\ Redraw /\ visited # <<>> /\ filter' = filter
      /\ visited' = SubSeq(visited, 1, L - 1)
  BY <1>1 DEF Previous
<1>3. /\ Here' = Here /\ mounted /\ mounted' /\ ops' = ops /\ cache' = cache /\ KeptRows'
      /\ KindOf[Here] = "contract" /\ KeyNow' \notin DOMAIN cache => previous' = previous
      /\ visited' # <<>> /\ ~carried' => ~carried
  BY <1>2, RedrawStep
<1>4. visited \in Seq(Step) /\ L \in Nat /\ L > 0
  BY <1>1, <1>2, KeyNowType
<1>5. Len(visited') = L - 1 /\ \A i \in 1..(L - 1) : visited'[i] = visited[i]
  BY <1>1, <1>2, <1>4, SubSeqProperties
<1>6. Len(visited') > 0 => visited' # <<>>
  BY <1>4, <1>5
<1>7. WalkedTokens' /\ AnsweredBehind' /\ WalkFits'
  <2>1. Len(visited') < 2 \/ (~carried' => ~carried)
    BY <1>3, <1>4, <1>5, <1>6
  <2>2. Len(visited') \in Nat /\ Len(visited') <= Len(visited)
    BY <1>1, <1>4, <1>5
  <2>3. QED
    BY <1>1, <1>2, <1>3, <1>5, <2>1, <2>2, WalkKept
<1>8. RowsLeadHere'
  <2>1. SUFFICES ASSUME KindOf[Here] = "contract", ~carried', visited' # <<>>,
                        KeyNow' \notin DOMAIN cache
                 PROVE  previous' # NoKey /\ cache[previous'].next = Cursor'
    BY <1>3 DEF RowsLeadHere
  <2>2. L - 1 \in 1..L /\ L \in 2..L
    <3>1. L - 1 # 0
      BY <1>2, <1>4, <2>1
    <3>2. QED
      BY <1>4, <3>1
  <2>3. Cursor' = visited[L - 1].token /\ Cursor = visited[L].token
    BY <1>1, <1>2, <1>5, <2>1, <2>2 DEF Cursor
  <2>4. KeyNow' = [page |-> Here, filter |-> filter, cursor |-> visited[L - 1].token]
    BY <1>2, <1>3, <2>3 DEF KeyNow
  <2>5. ~carried /\ previous' = previous
    BY <1>3, <2>1
  <2>6. visited[L].token = visited[L - 1].token
    BY <1>1, <2>1, <2>2, <2>4, <2>5 DEF HistoryInv, ListInv, AnsweredBehind
  <2>7. Cursor' = Cursor /\ KeyNow' = KeyNow
    BY <2>3, <2>4, <2>6 DEF KeyNow
  <2>8. QED
    BY <1>2, <1>3, <2>1, <2>5, <2>7 DEF HistoryInv, ListInv, RowsLeadHere
<1>9. QED
  BY <1>3, <1>7, <1>8 DEF ListInv

(* A page on: all that was found below the last cursor, or the same page     *)
(* again when its answer is still to come.                                   *)
LEMMA NextStep ==
  ASSUME HistoryInv, Next
  PROVE  ListInv'
<1>1. PICK step, L : /\ step = [token |-> Data.next, page |-> ShownKey.page,
                               filter |-> ShownKey.filter, found |-> Data.found]
                     /\ L = Len(visited)
  OBVIOUS
<1>2. /\ AtPager /\ HasMore /\ Redraw /\ filter' = filter /\ visited' = Append(visited, step)
  BY <1>1 DEF Next
<1>3. /\ Here' = Here /\ mounted /\ mounted' /\ ops' = ops /\ cache' = cache /\ KeptRows'
      /\ KindOf[Here] = "contract" /\ KeyNow' \notin DOMAIN cache => previous' = previous
      /\ visited' # <<>> /\ ~carried' => ~carried
  BY <1>2, RedrawStep
<1>4. /\ L \in Nat /\ Len(visited') = L + 1 /\ visited' # <<>> /\ visited'[L + 1] = step
      /\ \A i \in 1..L : visited'[i] = visited[i]
  BY <1>1, <1>2, KeyNowType
<1>5. ~carried' => ~carried
  BY <1>3, <1>4
<1>6. /\ ShownKey \in Key /\ ShownKey \in DOMAIN cache /\ AnswerFits(ShownKey, Data) /\ LeadsOn(ShownKey, Data)
      /\ \/ ShownKey = KeyNow /\ KeyNow \in DOMAIN cache
         \/ /\ ShownKey = previous /\ previous # NoKey
            /\ KindOf[Here] = "contract" /\ KeyNow \notin DOMAIN cache
  BY <1>2, RowsShown DEF AtPager
<1>7. step.token \in Token /\ Token' = Token
  BY <1>1, <1>3, <1>6 DEF AnswerFits, LeadsOn, Token
<1>8. L > 0 => visited # <<>> /\ Cursor = visited[L].token /\ Cursor \in Token /\ Cursor # None
  BY <1>1, <1>4, KeyNowType, TokenType DEF Cursor, HistoryInv, None
<1>9. L > 0 /\ ShownKey # KeyNow /\ ~carried => step.token = visited[L].token
  BY <1>1, <1>3, <1>6, <1>8 DEF HistoryInv, ListInv, RowsLeadHere, Data
<1>10. WalkedTokens'
  <2>1. SUFFICES ASSUME NEW i \in 1..(L + 1) PROVE visited'[i].token \in Token
    BY <1>4, <1>7 DEF WalkedTokens
  <2>2. i = L + 1 \/ i \in 1..L
    BY <1>4
  <2>3. QED
    BY <1>1, <1>4, <1>7, <2>2 DEF HistoryInv, ListInv, WalkedTokens
<1>11. AnsweredBehind'
  <2>1. SUFFICES ASSUME KindOf[Here] = "contract", ~carried', NEW i \in 2..(L + 1)
                 PROVE  \/ [page |-> Here, filter |-> filter, cursor |-> visited'[i - 1].token]
                             \in DOMAIN cache
                        \/ visited'[i].token = visited'[i - 1].token
    BY <1>2, <1>3, <1>4 DEF AnsweredBehind
  <2>2. CASE i = L + 1
    <3>1. L > 0 /\ visited'[i - 1] = visited[L] /\ visited'[i] = step /\ ~carried
      BY <1>4, <1>5, <2>1, <2>2
    <3>2. KeyNow = [page |-> Here, filter |-> filter, cursor |-> visited[L].token]
      BY <1>8, <3>1 DEF KeyNow
    <3>3. QED
      BY <1>6, <1>9, <3>1, <3>2
  <2>3. CASE i # L + 1
    <3>1. i \in 2..L /\ visited'[i] = visited[i] /\ visited'[i - 1] = visited[i - 1] /\ ~carried
      BY <1>4, <1>5, <2>1, <2>3
    <3>2. QED
      BY <1>1, <2>1, <3>1 DEF HistoryInv, ListInv, AnsweredBehind
  <2>4. QED
    BY <2>2, <2>3
<1>12. WalkFits'
  <2>1. SUFFICES ASSUME KindOf[Here] = "account" \/ ~carried', NEW i \in 2..(L + 1),
                        visited'[i].page = visited'[i - 1].page,
                        visited'[i].filter = visited'[i - 1].filter
                 PROVE  {n \in Listed(visited'[i].page, visited'[i].filter) :
                           visited'[i].token <= n /\ n < visited'[i - 1].token}
                          \in {{}, visited'[i].found}
    BY <1>3, <1>4 DEF WalkFits, Between, Listed
  <2>2. CASE i = L + 1
    <3>1. L > 0 /\ visited'[i - 1] = visited[L] /\ visited'[i] = step
      BY <1>4, <2>2
    <3>2. KindOf[Here] = "account" \/ ~carried
      BY <1>5, <2>1
    <3>3. CASE ShownKey = KeyNow
      <4>1. ShownKey.cursor = visited[L].token /\ ShownKey.cursor # None
        BY <1>8, <3>1, <3>3 DEF KeyNow
      <4>2. Between(ShownKey.page, ShownKey.filter, Data.next, ShownKey.cursor) = Data.found
        BY <1>6, <4>1 DEF AnswerFits
      <4>3. QED
        BY <1>1, <3>1, <4>1, <4>2 DEF Between
    <3>4. CASE ShownKey # KeyNow
      <4>1. step.token = visited[L].token
        BY <1>6, <1>9, <3>1, <3>2, <3>4
      <4>2. visited[L].token \in Nat
        BY <1>7, <4>1, TokenType DEF HistoryInv
      <4>3. {n \in Listed(visited'[i].page, visited'[i].filter) :
              visited'[i].token <= n /\ n < visited'[i - 1].token} = {}
        <5>1. \A n \in Listed(visited'[i].page, visited'[i].filter) : n \in Int
          <6>1. step.page \in Page
            BY <1>1, <1>6 DEF Key
          <6>2. QED
            BY <3>1, <6>1 DEF Listed, HistoryInv, OpsAreTokens
        <5>2. QED
          BY <3>1, <4>1, <4>2, <5>1
      <4>4. QED
        BY <4>3
    <3>5. QED
      BY <3>3, <3>4
  <2>3. CASE i # L + 1
    <3>1. i \in 2..L /\ visited'[i] = visited[i] /\ visited'[i - 1] = visited[i - 1]
      BY <1>4, <2>1, <2>3
    <3>2. QED
      BY <1>1, <1>5, <2>1, <3>1 DEF HistoryInv, ListInv, WalkFits, Between
  <2>4. QED
    BY <2>2, <2>3
<1>13. RowsLeadHere'
  <2>1. SUFFICES ASSUME KindOf[Here] = "contract", ~carried', KeyNow' \notin DOMAIN cache
                 PROVE  previous' # NoKey /\ cache[previous'].next = Cursor'
    BY <1>3 DEF RowsLeadHere
  <2>2. Cursor' = Data.next /\ previous' = previous
    BY <1>1, <1>3, <1>4, <2>1 DEF Cursor
  <2>3. previous = ShownKey /\ ShownKey # NoKey
    BY <1>3, <1>6, <2>1, KeyNowType DEF HistoryInv, ListInv, KeptRows
  <2>4. QED
    BY <2>2, <2>3 DEF Data
<1>14. QED
  BY <1>3, <1>10, <1>11, <1>12, <1>13 DEF ListInv

-----------------------------------------------------------------------------
(* All steps *)

(* There is no list yet, and no answer.                                      *)
LEMMA HistoryInvInit == HistoryInit => HistoryInv
<1>1. SUFFICES ASSUME HistoryInit PROVE HistoryInv
  OBVIOUS
<1>2. /\ ops = First /\ loaded = {} /\ mounted = FALSE /\ visited = <<>> /\ filter = "all"
      /\ carried = FALSE /\ asking = FALSE /\ failed = FALSE /\ previous = NoKey
      /\ cache = <<>> /\ lost = 0 /\ NavTypeOK
  BY <1>1, NavInitType DEF HistoryInit
<1>3. DOMAIN cache = {} /\ Len(visited) = 0 /\ visited \in Seq(Step)
  BY <1>2
<1>4. HistoryTypeOK /\ OpsAreTokens
  <2>1. \A p \in Page : ops[p] \subseteq Nat \ {0} /\ IsFiniteSet(ops[p])
    BY <1>2, HistoryAssumption
  <2>2. ops \in [Page -> SUBSET Nat] /\ lost \in 0..MaxLost
    BY <1>2, <2>1, HistoryAssumption
  <2>3. QED
    BY <1>2, <1>3, <2>1, <2>2 DEF HistoryTypeOK, OpsAreTokens, Filter
<1>5. CacheFits /\ ListInv
  BY <1>2, <1>3 DEF CacheFits, ListInv, WalkedTokens, KeptRows, RowsLeadHere, AnsweredBehind, WalkFits
<1>6. QED
  BY <1>2, <1>4, <1>5 DEF HistoryInv

(* Every step keeps the list right.                                          *)
LEMMA ListStep ==
  ASSUME HistoryInv, [HistoryNext]_<<navVars, historyVars>>
  PROVE  ListInv'
<1>1. CASE Fails
  BY <1>1, StillStep DEF Fails, navVars
<1>2. CASE Prefetch
  <2>1. PICK ahead : ahead = [KeyNow EXCEPT !.cursor = Data.next]
    OBVIOUS
  <2>2. DOMAIN cache' = DOMAIN cache \cup {ahead}
    BY <1>2, <2>1 DEF Prefetch
  <2>3. QED
    BY <1>2, <2>2, StillStep DEF Prefetch, navVars, listVars
<1>3. CASE PageLoads
  <2>1. ops' = ops /\ cache' = cache /\ UNCHANGED navVars
    BY <1>3 DEF PageLoads
  <2>2. Here' = Here
    BY <2>1 DEF navVars, Here
  <2>3. CASE Opens
    BY <1>3, <2>1, <2>2, <2>3, KeyNowType, FreshStep DEF PageLoads
  <2>4. CASE ~Opens
    BY <1>3, <2>1, <2>4, StillStep DEF PageLoads, navVars, listVars
  <2>5. QED
    BY <2>3, <2>4
<1>4. CASE UNCHANGED <<navVars, historyVars>>
  BY <1>4, StillStep DEF navVars, historyVars, listVars
<1>5. QED
  BY <1>1, <1>2, <1>3, <1>4, MoveStep, ReceiveStep, NextStep, PreviousStep, FirstPageStep,
     HappensStep DEF HistoryNext, Query

(* Every step keeps the types.                                               *)
LEMMA TypeStep ==
  ASSUME HistoryInv, [HistoryNext]_<<navVars, historyVars>>,
         OpsAreTokens', DOMAIN cache' \subseteq Key, KeptRows'
  PROVE  NavTypeOK' /\ HistoryTypeOK'
<1> DEFINE Walked == Seq(Step)
<1>1. NavTypeOK'
  <2>1. CASE Go
    BY <2>1, GoKeepsType DEF HistoryInv
  <2>2. CASE UNCHANGED <<urls, at>> /\ (acts' = acts \/ Act)
    BY <2>2, NavigationAssumption DEF HistoryInv, NavTypeOK, Act
  <2>3. QED
    BY <2>1, <2>2 DEF HistoryNext, Move, Query, PageLoads, Fails, Receive, Prefetch, Next, Previous,
                      ToFirst, ApplyFilter, AtPager, Redraw, Happens, navVars, historyVars
<1>2. ops' \in [Page -> SUBSET Nat]
  <2>1. ops' = ops \/ \E p \in Page, n \in Late : Happens(p, n)
    BY DEF HistoryNext, Move, Query, PageLoads, Fails, Receive, Prefetch, Next, Previous,
           ToFirst, ApplyFilter, Redraw, historyVars
  <2>2. QED
    BY <2>1, HistoryAssumption DEF Happens, HistoryInv, HistoryTypeOK
<1>3. previous' \in Key \cup {NoKey}
  BY DEF KeptRows
<1>4. /\ visited' \in Walked /\ filter' \in Filter
      /\ mounted' \in BOOLEAN /\ carried' \in BOOLEAN /\ asking' \in BOOLEAN /\ failed' \in BOOLEAN
      /\ loaded' \subseteq Page /\ lost' \in 0..MaxLost
  <2>1. /\ visited \in Walked /\ filter \in Filter
        /\ mounted \in BOOLEAN /\ carried \in BOOLEAN /\ asking \in BOOLEAN /\ failed \in BOOLEAN
        /\ loaded \subseteq Page /\ lost \in 0..MaxLost /\ Here \in Page
    BY KeyNowType DEF HistoryInv, HistoryTypeOK
  <2>2. <<>> \in Walked /\ "all" \in Filter
    BY DEF Filter
  <2>3. Show => asking' \in BOOLEAN /\ failed' \in BOOLEAN
    BY DEF Show
  <2>4. CASE Move
    BY <2>1, <2>2, <2>3, <2>4, Zenon DEF Move, Mount, Close
  <2>5. CASE PageLoads
    BY <2>1, <2>2, <2>3, <2>5 DEF PageLoads, Mount, listVars
  <2>6. ASSUME NEW stop \in {None} \cup Stops(KeyNow),
               NEW gone \in SUBSET Found(KeyNow, stop), Receive(stop, gone)
        PROVE  lost' \in 0..MaxLost
    <3>1. IsFiniteSet(ops[Here]) /\ Found(KeyNow, stop) \subseteq ops[Here]
      BY <2>1 DEF HistoryInv, OpsAreTokens, Found, RowsOf, Below, Listed, KeyNow
    <3>2. Cardinality(gone) \in Nat
      BY <3>1, FS_Subset, FS_CardinalityType
    <3>3. QED
      BY <2>1, <2>6, <3>2, HistoryAssumption DEF Receive
  <2>7. CASE Fails \/ Prefetch \/ (\E stop \in {None} \cup Stops(KeyNow) :
                                       \E gone \in SUBSET Found(KeyNow, stop) : Receive(stop, gone))
             \/ (\E p \in Page, n \in Late : Happens(p, n)) \/ UNCHANGED <<navVars, historyVars>>
    BY <2>1, <2>6, <2>7 DEF Fails, Prefetch, Receive, Happens, listVars, historyVars
  <2>8. CASE Next \/ Previous \/ ToFirst \/ \E f \in Filter : ApplyFilter(f)
    <3>1. /\ AtPager /\ Redraw /\ filter' \in Filter
          /\ \/ /\ HasMore
                /\ visited' = Append(visited, [token |-> Data.next, page |-> ShownKey.page,
                                               filter |-> ShownKey.filter, found |-> Data.found])
             \/ visited' = SubSeq(visited, 1, Len(visited) - 1) /\ visited # <<>>
             \/ visited' = <<>>
      BY <2>1, <2>8 DEF Next, Previous, ToFirst, ApplyFilter
    <3>2. /\ ShownKey.page \in Page /\ ShownKey.filter \in Filter
          /\ HasMore => Data.next \in Nat /\ Data.found \in SUBSET Nat
      <4>1. ShownKey \in Key /\ AnswerFits(ShownKey, Data) /\ (HasMore => LeadsOn(ShownKey, Data))
        BY <3>1, RowsShown DEF AtPager
      <4>2. ShownKey.page \in Page /\ ShownKey.filter \in Filter
        BY <4>1 DEF Key
      <4>3. QED
        BY <4>1, <4>2, TokenType DEF AnswerFits, LeadsOn, HistoryInv
    <3>3. visited' \in Walked
      <4>1. CASE visited' = SubSeq(visited, 1, Len(visited) - 1) /\ visited # <<>>
        <5>1. Len(visited) \in Nat /\ Len(visited) # 0
          BY <2>1, <4>1
        <5>2. Len(visited) - 1 \in 0..Len(visited)
          BY <5>1
        <5>3. \A i \in 1..(Len(visited) - 1) : visited[i] \in Step
          <6>1. \A i \in 1..(Len(visited) - 1) : i \in 1..Len(visited)
            BY <5>1
          <6>2. QED
            BY <2>1, <6>1, ElementOfSeq, Zenon
        <5>4. QED
          BY <4>1, <5>2, <5>3, SubSeqProperties
      <4>2. CASE HasMore /\ visited' = Append(visited, [token |-> Data.next, page |-> ShownKey.page,
                                                        filter |-> ShownKey.filter,
                                                        found |-> Data.found])
        <5>1. [token |-> Data.next, page |-> ShownKey.page, filter |-> ShownKey.filter,
               found |-> Data.found] \in Step
          BY <3>2, <4>2 DEF Step
        <5>2. QED
          BY <2>1, <4>2, <5>1, AppendProperties, Zenon
      <4>3. QED
        BY <2>2, <3>1, <4>1, <4>2
    <3>4. carried' \in BOOLEAN /\ UNCHANGED <<mounted, loaded, lost>>
      BY <3>1, Zenon DEF Redraw
    <3>5. asking' \in BOOLEAN /\ failed' \in BOOLEAN
      BY <2>1, <2>3, <3>1 DEF Redraw
    <3>6. QED
      BY <2>1, <3>1, <3>3, <3>4, <3>5
  <2>9. QED
    BY <2>4, <2>5, <2>7, <2>8 DEF HistoryNext, Query
<1>5. QED
  BY <1>1, <1>2, <1>3, <1>4 DEF HistoryTypeOK

(* Every step keeps the invariant.                                           *)
LEMMA HistoryInvStep == HistoryInv /\ [HistoryNext]_<<navVars, historyVars>> => HistoryInv'
<1>1. SUFFICES ASSUME HistoryInv, [HistoryNext]_<<navVars, historyVars>> PROVE HistoryInv'
  OBVIOUS
<1>2. OpsAreTokens' /\ CacheFits' /\ DOMAIN cache' \subseteq Key
  BY <1>1, CacheStep
<1>3. ListInv'
  BY <1>1, ListStep
<1>4. NavTypeOK' /\ HistoryTypeOK'
  BY <1>1, <1>2, <1>3, TypeStep DEF ListInv
<1>5. QED
  BY <1>2, <1>3, <1>4 DEF HistoryInv

-----------------------------------------------------------------------------

(* Type correctness of the lists, for any pages, rows and page size.         *)
THEOREM HistoryTypeCorrect == HistorySpec => [](NavTypeOK /\ HistoryTypeOK)
<1>1. HistoryInv => NavTypeOK /\ HistoryTypeOK
  BY DEF HistoryInv
<1>2. QED
  BY <1>1, HistoryInvInit, HistoryInvStep, PTL DEF HistorySpec

(* The pages walked of a list follow each other (use-cursor-pages.ts,        *)
(* history-table.tsx:104-117), for any pages, rows and page size, wherever   *)
(* the search for a page stopped (contract/page.tsx:562-565), whatever was   *)
(* cached, prefetched, lost or came in meanwhile: between two cursors lies   *)
(* exactly what the page was answered with, or nothing.                      *)
THEOREM WalkSkipsNothingCorrect == HistorySpec => []WalkSkipsNothing
<1>1. HistoryInv => WalkSkipsNothing
  BY DEF HistoryInv, ListInv, WalkFits, WalkSkipsNothing, OfThisList, Between
<1>2. QED
  BY <1>1, HistoryInvInit, HistoryInvStep, PTL DEF HistorySpec

(* While a list goes on below the page on screen, so does the pager          *)
(* (history-table.tsx:70-74), for any rows, page size and lost lookups, and  *)
(* for short and empty pages whose search goes on behind them.               *)
THEOREM PagerLeadsOnCorrect == HistorySpec => []PagerLeadsOn
<1>1. ASSUME HistoryInv PROVE PagerLeadsOn
  <2>1. SUFFICES ASSUME View = "rows", ShownKey = KeyNow,
                        \E n \in Listed(Here, filter) : n < Data.last
                 PROVE  HasMore
    BY DEF PagerLeadsOn
  <2>2. AnswerFits(ShownKey, Data) /\ (HasMore <=> LeadsOn(ShownKey, Data))
    BY <1>1, <2>1, RowsShown
  <2>3. ShownKey.page = Here /\ ShownKey.filter = filter
    BY <2>1 DEF KeyNow
  <2>4. QED
    BY <2>1, <2>2, <2>3 DEF AnswerFits
<1>2. QED
  BY <1>1, HistoryInvInit, HistoryInvStep, PTL DEF HistorySpec

(* A contract's list that has shown rows never drops to a skeleton while it  *)
(* is open (contract/page.tsx:521-522), for any pages and rows.              *)
THEOREM NoSkeletonMidUseCorrect == HistorySpec => NoSkeletonMidUse
<1> DEFINE NoDrop == View = "rows" /\ KindOf[Here] = "contract" /\ mounted' /\ KindOf[Here'] = "contract"
                       => View' # "skeleton"
<1>1. ASSUME HistoryInv, HistoryInv', [HistoryNext]_<<navVars, historyVars>>
      PROVE  [NoDrop]_<<navVars, historyVars>>
  <2>1. SUFFICES ASSUME HistoryNext, View = "rows", KindOf[Here] = "contract",
                        mounted', KindOf[Here'] = "contract"
                 PROVE  View' # "skeleton"
    BY <1>1
  <2>2. mounted /\ previous # NoKey
    <3>1. ShownKey # NoKey /\ mounted
      BY <2>1 DEF View
    <3>2. QED
      BY <1>1, <2>1, <3>1 DEF ShownKey, HistoryInv, ListInv, KeptRows
  <2>3. previous' # NoKey
    <3>1. KeyNow' # NoKey
      <4>1. Here' \in Page
        BY <1>1, UrlHasPage DEF HistoryInv, NavTypeOK, Here
      <4>2. QED
        BY <4>1, HistoryAssumption DEF KeyNow, NoKey
    <3>2. Show => previous' # NoKey
      BY <2>1, <2>2, <3>1 DEF Show
    <3>3. CASE Move
      BY <2>1, <3>2, <3>3 DEF Move, Close, Mount
    <3>4. CASE PageLoads
      BY <2>2, <3>2, <3>4 DEF PageLoads, Mount, listVars
    <3>5. CASE Next \/ Previous \/ ToFirst \/ \E f \in Filter : ApplyFilter(f)
      BY <2>2, <3>2, <3>5 DEF Next, Previous, ToFirst, ApplyFilter, Redraw
    <3>6. CASE \E stop, gone : Receive(stop, gone)
      BY <2>1, <3>6, <1>1, KeyNowType DEF Receive
    <3>7. CASE Fails \/ Prefetch \/ \E p \in Page, n \in Late : Happens(p, n)
      BY <2>2, <3>7 DEF Fails, Prefetch, Happens, listVars
    <3>8. QED
      BY <2>1, <3>3, <3>4, <3>5, <3>6, <3>7 DEF HistoryNext, Query
  <2>4. ShownKey' # NoKey
    BY <1>1, <2>1, <2>3, KeyNowType DEF ShownKey, HistoryInv, ListInv, KeptRows
  <2>5. QED
    BY <2>4 DEF View
<1>2. HistorySpec => []HistoryInv
  BY HistoryInvInit, HistoryInvStep, PTL DEF HistorySpec
<1>3. QED
  BY <1>1, <1>2, PTL DEF HistorySpec, NoSkeletonMidUse

=============================================================================
