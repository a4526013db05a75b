-------------------------------- MODULE Icons --------------------------------
(***************************************************************************)
(* internal/icons: what an issuer publishes about an asset, resolved once  *)
(* for all the requests that ask for it (Service.resolved) and kept in a   *)
(* cache with an age limit and a byte budget.  The request that claims an  *)
(* asset resolves it in up to three upstream calls, on its own context;    *)
(* the others wait for its channel to close and look again.                *)
(***************************************************************************)
EXTENDS Integers, Sequences, FiniteSets

CONSTANTS
  Asset,        \* cache keys, code and issuer
  Client,       \* requests under way at one time
  Nobody,       \* no request resolves the asset
  Publishes,    \* what each issuer publishes: nothing, domain, meta or icon
  Overridden,   \* the assets of domainOverrides
  SizeOf,       \* entry.size() of each kind of entry
  CacheBudget,
  PositiveTTL, NegativeTTL,
  MaxClock,     \* bound: the last tick of the clock
  MaxAsked,     \* bound: requests in a behaviour
  MaxFaults     \* bound: upstream failures and cancelled requests

Published == {"nothing", "domain", "meta", "icon"}

ASSUME IconsAssumption ==
  /\ IsFiniteSet(Asset)
  /\ Nobody \notin Client
  /\ Publishes \in [Asset -> Published]
  /\ Overridden \subseteq {a \in Asset : Publishes[a] # "nothing"}
  /\ SizeOf \in [Published -> Nat \ {0}]
  /\ {CacheBudget, PositiveTTL, NegativeTTL, MaxClock, MaxAsked, MaxFaults} \subseteq Nat

VARIABLES
  clock,
  cache,       \* Service.cache
  order,       \* Service.order, oldest first
  cacheBytes,  \* Service.cacheBytes
  inFlight,    \* Service.inFlight: the request whose channel each asset has
  pc,          \* where each request is in resolved and resolve
  asset,       \* the asset it asks for
  draft,       \* the entry it is resolving
  answer,      \* what it was answered last: a published kind, error or none
  cancelled,   \* the requests whose context is done
  asked, faults

serviceVars == <<cache, order, cacheBytes, inFlight>>
requestVars == <<pc, asset, draft, answer, cancelled>>
vars == <<clock, serviceVars, requestVars, asked, faults>>

NoEntry == [kind |-> "none", at |-> 0]
Entry == [kind : Published, at : 0..MaxClock]

Resolving == {"horizon", "toml", "image", "store", "release"}

TypeOK ==
  /\ clock \in 0..MaxClock
  /\ cache \in [Asset -> Entry \cup {NoEntry}]
  /\ order \in Seq(Asset) /\ Len(order) <= Cardinality(Asset)
  /\ cacheBytes \in 0..CacheBudget
  /\ inFlight \in [Asset -> Client \cup {Nobody}]
  /\ pc \in [Client -> {"idle", "lookup", "claim", "wait", "woken"} \cup Resolving]
  /\ asset \in [Client -> Asset]
  /\ draft \in [Client -> Entry \cup {NoEntry}]
  /\ answer \in [Client -> Published \cup {"none", "error"}]
  /\ cancelled \subseteq Client
  /\ asked \in 0..MaxAsked /\ faults \in 0..MaxFaults

Init ==
  /\ clock = 0
  /\ cache = [a \in Asset |-> NoEntry]
  /\ order = <<>>
  /\ cacheBytes = 0
  /\ inFlight = [a \in Asset |-> Nobody]
  /\ pc = [c \in Client |-> "idle"]
  /\ asset \in {[c \in Client |-> a] : a \in Asset}
  /\ draft = [c \in Client |-> NoEntry]
  /\ answer = [c \in Client |-> "none"]
  /\ cancelled = {}
  /\ asked = 0 /\ faults = 0

Goto(c, from, to) == pc[c] = from /\ pc' = [pc EXCEPT ![c] = to]

Fault == faults < MaxFaults /\ faults' = faults + 1

-----------------------------------------------------------------------------
(* The world: time passes, clients ask and hang up. *)

Tick ==
  /\ clock < MaxClock
  /\ clock' = clock + 1
  /\ UNCHANGED <<serviceVars, requestVars, asked, faults>>

(* Icon or Meta: both go through resolved. *)
Ask(c, a) ==
  /\ asked < MaxAsked
  /\ Goto(c, "idle", "lookup")
  /\ asset' = [asset EXCEPT ![c] = a]
  /\ answer' = [answer EXCEPT ![c] = "none"]
  /\ draft' = [draft EXCEPT ![c] = NoEntry]
  /\ cancelled' = cancelled \ {c}
  /\ asked' = asked + 1
  /\ UNCHANGED <<clock, serviceVars, faults>>

HangUp(c) ==
  /\ pc[c] # "idle" /\ c \notin cancelled
  /\ Fault
  /\ cancelled' = cancelled \cup {c}
  /\ UNCHANGED <<clock, serviceVars, pc, asset, draft, answer, asked>>

-----------------------------------------------------------------------------
(* resolved *)

Fresh(a) ==
  /\ cache[a] # NoEntry
  /\ clock - cache[a].at <= (IF cache[a].kind = "icon" THEN PositiveTTL ELSE NegativeTTL)

Answer(c, what) ==
  /\ pc' = [pc EXCEPT ![c] = "idle"]
  /\ answer' = [answer EXCEPT ![c] = what]

Lookup(c) ==
  /\ pc[c] = "lookup"
  /\ IF Fresh(asset[c])
       THEN Answer(c, cache[asset[c]].kind)
       ELSE Goto(c, "lookup", "claim") /\ UNCHANGED answer
  /\ UNCHANGED <<clock, serviceVars, asset, draft, cancelled, asked, faults>>

(* Mutant: the in-flight table is not consulted. *)
ClaimAlways(c) ==
  /\ Goto(c, "claim", "horizon")
  /\ inFlight' = [inFlight EXCEPT ![asset[c]] = c]
  /\ draft' = [draft EXCEPT ![c] = [kind |-> "nothing", at |-> clock]]
  /\ UNCHANGED <<clock, cache, order, cacheBytes, asset, answer, cancelled, asked, faults>>

(* claim: the leader goes on to resolve and notes the time, the others     *)
(* wait for its channel.                                                   *)
Claim(c) ==
  LET a == asset[c]
  IN  /\ IF inFlight[a] = Nobody
           THEN /\ Goto(c, "claim", IF a \in Overridden THEN "toml" ELSE "horizon")
                /\ inFlight' = [inFlight EXCEPT ![a] = c]
                /\ draft' = [draft EXCEPT ![c] = [kind |-> "nothing", at |-> clock]]
           ELSE Goto(c, "claim", "wait") /\ UNCHANGED <<inFlight, draft>>
      /\ UNCHANGED <<clock, cache, order, cacheBytes, asset, answer, cancelled, asked, faults>>

(* <-done *)
Retry(c) ==
  /\ Goto(c, "woken", "lookup")
  /\ UNCHANGED <<clock, serviceVars, asset, draft, answer, cancelled, asked, faults>>

(* <-ctx.Done() *)
GiveUp(c) ==
  /\ pc[c] \in {"wait", "woken"} /\ c \in cancelled
  /\ Answer(c, "error")
  /\ UNCHANGED <<clock, serviceVars, asset, draft, cancelled, asked, faults>>

-----------------------------------------------------------------------------
(* resolve *)

(* Each upstream call finds what the issuer publishes, and either goes on  *)
(* or has its entry.                                                       *)
Upstream(c, step, last, following) ==
  /\ c \notin cancelled
  /\ Goto(c, step, IF Publishes[asset[c]] \in last THEN "store" ELSE following)
  /\ draft' = [draft EXCEPT ![c].kind =
                 IF Publishes[asset[c]] \in last THEN Publishes[asset[c]] ELSE @]
  /\ UNCHANGED <<clock, serviceVars, asset, answer, cancelled, asked, faults>>

(* A call fails for a reason that says nothing about the asset; a call on  *)
(* a cancelled context always does.                                        *)
UpstreamFails(c, step, next, kind) ==
  /\ Goto(c, step, next)
  /\ IF c \in cancelled THEN UNCHANGED faults ELSE Fault
  /\ draft' = [draft EXCEPT ![c] = IF kind = "none" THEN NoEntry ELSE [@ EXCEPT !.kind = kind]]
  /\ UNCHANGED <<clock, serviceVars, asset, answer, cancelled, asked>>

(* An override names a domain whatever the account says. *)
HomeDomain(c) == Upstream(c, "horizon", {"nothing"}, "toml")
TomlCurrency(c) == Upstream(c, "toml", {"domain", "meta"}, "image")
FetchImage(c) == Upstream(c, "image", {"icon"}, "store")

(* 429, 408, 5xx, no connection: the error goes to the caller. *)
HomeDomainFails(c) == UpstreamFails(c, "horizon", "release", "none")

(* Dropped mid-body: the error goes to the caller.  No connection, a       *)
(* timeout or any status but 200: the toml counts as useless.              *)
TomlCurrencyFails(c) ==
  \/ UpstreamFails(c, "toml", "release", "none")
  \/ UpstreamFails(c, "toml", "store", "domain")

(* Likewise, and the image counts as missing. *)
FetchImageFails(c) ==
  \/ UpstreamFails(c, "image", "release", "none")
  \/ UpstreamFails(c, "image", "store", "meta")

-----------------------------------------------------------------------------
(* store and release *)

\* The bytes the entries of some assets take, each of them bytes of its own.
Taken(table, as) ==
  UNION {{a} \X (1..SizeOf[table[a].kind]) : a \in {b \in as : table[b] # NoEntry}}

Bytes(table, as) == Cardinality(Taken(table, as))

Oldest(queue, n) == {queue[i] : i \in 1..n}

(* How many of the oldest go, one by one, until the budget is kept or       *)
(* nothing is left.                                                        *)
Evicted(table, queue, bytes) ==
  LET Enough(n) ==
        bytes - Bytes(table, Oldest(queue, n)) <= CacheBudget \/ n = Len(queue)
  IN  CHOOSE n \in 0..Len(queue) :
        Enough(n) /\ \A m \in 0..Len(queue) : m < n => ~Enough(m)

(* The new entry joins in the place of the old or at the end, with the      *)
(* account at this many bytes before the oldest go.                        *)
StoreAt(c, bytes) ==
  LET a     == asset[c]
      table == [cache EXCEPT ![a] = draft[c]]
      queue == IF cache[a] # NoEntry THEN order ELSE Append(order, a)
      n     == Evicted(table, queue, bytes)
      gone  == Oldest(queue, n)
  IN  /\ Goto(c, "store", "release")
      /\ cache' = [b \in Asset |-> IF b \in gone THEN NoEntry ELSE table[b]]
      /\ order' = SubSeq(queue, n + 1, Len(queue))
      /\ cacheBytes' = bytes - Bytes(table, gone)
      /\ UNCHANGED <<clock, inFlight, asset, draft, answer, cancelled, asked, faults>>

(* Mutant: the size of a replaced entry stays in the account. *)
StoreEntryTwiceCounted(c) == StoreAt(c, cacheBytes + SizeOf[draft[c].kind])

(* The old entry leaves the account and the new one joins it. *)
StoreEntry(c) ==
  StoreAt(c, cacheBytes - Bytes(cache, {asset[c]}) + SizeOf[draft[c].kind])

Result(c) == IF draft[c] = NoEntry THEN "error" ELSE draft[c].kind

Waiters(a) == {w \in Client : pc[w] = "wait" /\ asset[w] = a}

(* Mutant: an error returns before the release. *)
ReleaseUnlessFailed(c) ==
  /\ pc[c] = "release"
  /\ inFlight' = [inFlight EXCEPT ![asset[c]] = IF Result(c) = "error" THEN @ ELSE Nobody]
  /\ pc' = [w \in Client |-> IF w = c THEN "idle"
                             ELSE IF w \in Waiters(asset[c]) /\ Result(c) # "error"
                               THEN "woken" ELSE pc[w]]
  /\ answer' = [answer EXCEPT ![c] = Result(c)]
  /\ UNCHANGED <<clock, cache, order, cacheBytes, asset, draft, cancelled, asked, faults>>

(* The deferred release closes the channel, on success and on error. *)
Release(c) ==
  /\ pc[c] = "release"
  /\ inFlight' = [inFlight EXCEPT ![asset[c]] = Nobody]
  /\ pc' = [w \in Client |-> IF w = c THEN "idle"
                             ELSE IF w \in Waiters(asset[c]) THEN "woken" ELSE pc[w]]
  /\ answer' = [answer EXCEPT ![c] = Result(c)]
  /\ UNCHANGED <<clock, cache, order, cacheBytes, asset, draft, cancelled, asked, faults>>

-----------------------------------------------------------------------------
Step(c) ==
  \/ Lookup(c) \/ Claim(c) \/ Retry(c) \/ GiveUp(c)
  \/ HomeDomain(c) \/ TomlCurrency(c) \/ FetchImage(c)
  \/ HomeDomainFails(c) \/ TomlCurrencyFails(c) \/ FetchImageFails(c)
  \/ StoreEntry(c) \/ Release(c)

Next ==
  \/ Tick
  \/ \E c \in Client : Step(c) \/ HangUp(c) \/ (\E a \in Asset : Ask(c, a))

Spec == Init /\ [][Next]_vars

(* Upstream calls end, by the client's timeout at the latest; goroutines   *)
(* run.                                                                    *)
FairSpec == Spec /\ \A c \in Client : WF_vars(Step(c))

-----------------------------------------------------------------------------
(* Properties *)

(* "Somebody else is already resolving this asset; share their work"       *)
(* (icons.go:163): at most one request resolves an asset, and it is the    *)
(* one whose channel the others find.                                      *)
OneResolver ==
  \A c \in Client : pc[c] \in Resolving => inFlight[asset[c]] = c

(* The byte budget (icons.go:402-420): the account is the sum of the       *)
(* cached entries and within the budget, and the eviction order lists      *)
(* exactly the cached assets, each once, after any replacing, expiring and *)
(* evicting.                                                               *)
BudgetAccounts ==
  /\ cacheBytes = Bytes(cache, Asset)
  /\ cacheBytes <= CacheBudget
  /\ {order[i] : i \in 1..Len(order)} = {a \in Asset : cache[a] # NoEntry}
  /\ \A i, j \in 1..Len(order) : order[i] = order[j] => i = j

(* Every request is answered, also when the one it waits for fails or its  *)
(* client hangs up (icons.go:155-170).                                     *)
RequestsAnswered == \A c \in Client : pc[c] # "idle" ~> pc[c] = "idle"

=============================================================================
