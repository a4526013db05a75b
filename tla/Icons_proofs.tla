----------------------------- MODULE Icons_proofs -----------------------------
(***************************************************************************)
(* Proofs about Icons, for any assets, requests, cancellations and         *)
(* upstream failures: an asset in flight has exactly one request resolving *)
(* it, whoever waits for the asset waits for a request at work, and the    *)
(* byte account of the cache is the sum of its entries, within the budget. *)
(***************************************************************************)
EXTENDS Icons, FiniteSetTheorems, SequenceTheorems, WellFoundedInduction, TLAPS

Places == {"idle", "lookup", "claim", "wait", "woken"} \cup Resolving

(* The types of what the argument is about. *)
FlightTypes ==
  /\ inFlight \in [Asset -> Client \cup {Nobody}]
  /\ pc \in [Client -> Places]
  /\ asset \in [Client -> Asset]

(* The channel of an asset belongs to a request that resolves it. *)
FlightIsResolved ==
  \A a \in Asset : inFlight[a] # Nobody =>
    pc[inFlight[a]] \in Resolving /\ asset[inFlight[a]] = a

(* A request that waits has a channel to wait for. *)
WaitHasChannel ==
  \A c \in Client : pc[c] = "wait" => inFlight[asset[c]] # Nobody

FlightInv == FlightTypes /\ OneResolver /\ FlightIsResolved /\ WaitHasChannel

(* Nothing is in flight at the start. *)
LEMMA FlightInvInit == Init => FlightInv
<1>1. SUFFICES ASSUME Init PROVE FlightInv
  OBVIOUS
<1>2. FlightTypes
  BY <1>1 DEF Init, FlightTypes, Places
<1>3. QED
  BY <1>1, <1>2
  DEF Init, FlightInv, FlightTypes, OneResolver, FlightIsResolved, WaitHasChannel, Resolving

-----------------------------------------------------------------------------
(* The steps *)

(* A request that stays inside resolve, or outside it without waiting,     *)
(* disturbs nobody.                                                        *)
LEMMA MoveKeepsFlight ==
  ASSUME FlightInv, NEW c \in Client, NEW to \in Places, to # "wait",
         pc[c] \in Resolving <=> to \in Resolving,
         pc' = [pc EXCEPT ![c] = to], inFlight' = inFlight, asset' = asset
  PROVE  FlightInv'
<1>1. FlightTypes'
  BY DEF FlightInv, FlightTypes
<1>2. \A d \in Client : pc'[d] = IF d = c THEN to ELSE pc[d]
  BY DEF FlightInv, FlightTypes
<1>3. OneResolver'
  BY <1>2 DEF FlightInv, OneResolver
<1>4. FlightIsResolved'
  <2>1. SUFFICES ASSUME NEW a \in Asset, inFlight[a] # Nobody
                 PROVE  pc'[inFlight[a]] \in Resolving /\ asset[inFlight[a]] = a
    BY DEF FlightIsResolved
  <2>2. inFlight[a] \in Client
    BY <2>1 DEF FlightInv, FlightTypes
  <2>3. QED
    BY <2>1, <2>2, <1>2 DEF FlightInv, FlightIsResolved
<1>5. WaitHasChannel'
  BY <1>2 DEF FlightInv, WaitHasChannel
<1>6. QED
  BY <1>1, <1>3, <1>4, <1>5 DEF FlightInv

(* Every step of resolve keeps its request inside it. *)
LEMMA ResolvingStep ==
  ASSUME FlightInv, NEW c \in Client,
         \/ HomeDomain(c) \/ TomlCurrency(c) \/ FetchImage(c)
         \/ HomeDomainFails(c) \/ TomlCurrencyFails(c) \/ FetchImageFails(c)
         \/ StoreEntry(c)
  PROVE  FlightInv'
<1>1. PICK to \in Resolving : pc[c] \in Resolving /\ pc' = [pc EXCEPT ![c] = to]
  <2>1. CASE HomeDomain(c) \/ TomlCurrency(c) \/ FetchImage(c)
    BY <2>1 DEF HomeDomain, TomlCurrency, FetchImage, Upstream, Goto, Resolving
  <2>2. CASE HomeDomainFails(c) \/ TomlCurrencyFails(c) \/ FetchImageFails(c)
    BY <2>2 DEF HomeDomainFails, TomlCurrencyFails, FetchImageFails, UpstreamFails, Goto,
       Resolving
  <2>3. CASE StoreEntry(c)
    BY <2>3 DEF StoreEntry, StoreAt, Goto, Resolving
  <2>4. QED
    BY <2>1, <2>2, <2>3
<1>2. inFlight' = inFlight /\ asset' = asset
  <2>1. CASE HomeDomain(c) \/ TomlCurrency(c) \/ FetchImage(c)
    BY <2>1 DEF HomeDomain, TomlCurrency, FetchImage, Upstream, serviceVars
  <2>2. CASE HomeDomainFails(c) \/ TomlCurrencyFails(c) \/ FetchImageFails(c)
    BY <2>2 DEF HomeDomainFails, TomlCurrencyFails, FetchImageFails, UpstreamFails, serviceVars
  <2>3. CASE StoreEntry(c)
    BY <2>3 DEF StoreEntry, StoreAt
  <2>4. QED
    BY <2>1, <2>2, <2>3
<1>3. QED
  BY <1>1, <1>2, MoveKeepsFlight DEF Places, Resolving

(* A request that only looks, wakes or gives up never was inside. *)
LEMMA OutsideStep ==
  ASSUME FlightInv, NEW c \in Client, Lookup(c) \/ Retry(c) \/ GiveUp(c)
  PROVE  FlightInv'
<1>1. PICK to \in {"idle", "claim", "lookup"} :
        pc[c] \in {"lookup", "woken", "wait"} /\ pc' = [pc EXCEPT ![c] = to]
  BY DEF Lookup, Retry, GiveUp, Answer, Goto
<1>2. inFlight' = inFlight /\ asset' = asset
  BY DEF Lookup, Retry, GiveUp, serviceVars
<1>3. QED
  BY <1>1, <1>2, MoveKeepsFlight DEF Places, Resolving

(* A new request may ask for another asset: it is not resolving any. *)
LEMMA AskStep ==
  ASSUME FlightInv, NEW c \in Client, NEW a \in Asset, Ask(c, a)
  PROVE  FlightInv'
<1>1. /\ pc[c] = "idle" /\ pc' = [pc EXCEPT ![c] = "lookup"]
      /\ asset' = [asset EXCEPT ![c] = a] /\ inFlight' = inFlight
  BY DEF Ask, Goto, serviceVars
<1>2. FlightTypes'
  BY <1>1 DEF FlightInv, FlightTypes, Places
<1>3. /\ pc'[c] = "lookup"
      /\ \A d \in Client : d # c => pc'[d] = pc[d] /\ asset'[d] = asset[d]
  BY <1>1 DEF FlightInv, FlightTypes
<1>4. OneResolver' /\ WaitHasChannel'
  BY <1>1, <1>3 DEF FlightInv, OneResolver, WaitHasChannel, Resolving
<1>5. FlightIsResolved'
  <2>1. SUFFICES ASSUME NEW b \in Asset, inFlight[b] # Nobody
                 PROVE  pc'[inFlight[b]] \in Resolving /\ asset'[inFlight[b]] = b
    BY <1>1 DEF FlightIsResolved
  <2>2. inFlight[b] \in Client /\ pc[inFlight[b]] \in Resolving /\ asset[inFlight[b]] = b
    BY <2>1 DEF FlightInv, FlightTypes, FlightIsResolved
  <2>3. inFlight[b] # c
    BY <2>2, <1>1 DEF Resolving
  <2>4. QED
    BY <2>2, <2>3, <1>3
<1>6. QED
  BY <1>2, <1>4, <1>5 DEF FlightInv

(* Whoever finds no channel makes one and resolves; the others wait. *)
LEMMA ClaimStep ==
  ASSUME FlightInv, NEW c \in Client, Claim(c)
  PROVE  FlightInv'
<1> DEFINE a == asset[c]
<1>1. a \in Asset /\ pc[c] = "claim" /\ asset' = asset
  BY DEF FlightInv, FlightTypes, Claim, Goto
<1>2. CASE inFlight[a] = Nobody
  <2>1. PICK to \in {"toml", "horizon"} :
          pc' = [pc EXCEPT ![c] = to] /\ inFlight' = [inFlight EXCEPT ![a] = c]
    BY <1>2 DEF Claim, Goto
  <2>2. /\ \A d \in Client : pc'[d] = IF d = c THEN to ELSE pc[d]
        /\ \A b \in Asset : inFlight'[b] = IF b = a THEN c ELSE inFlight[b]
    BY <2>1 DEF FlightInv, FlightTypes
  <2>3. FlightTypes'
    BY <2>1, <1>1 DEF FlightInv, FlightTypes, Places, Resolving
  <2>4. \A d \in Client : d # c /\ pc[d] \in Resolving => asset[d] # a
    BY <1>2, IconsAssumption DEF FlightInv, OneResolver
  <2>5. OneResolver'
    BY <2>2, <2>4, <1>1 DEF FlightInv, FlightTypes, OneResolver
  <2>6. FlightIsResolved'
    <3>1. SUFFICES ASSUME NEW b \in Asset, inFlight'[b] # Nobody
                   PROVE  pc'[inFlight'[b]] \in Resolving /\ asset[inFlight'[b]] = b
      BY <1>1 DEF FlightIsResolved
    <3>2. CASE b = a
      BY <3>2, <2>1, <2>2 DEF Resolving
    <3>3. CASE b # a
      <4>1. inFlight'[b] = inFlight[b] /\ inFlight[b] \in Client
        BY <3>1, <3>3, <2>2 DEF FlightInv, FlightTypes
      <4>2. pc[inFlight[b]] \in Resolving /\ asset[inFlight[b]] = b
        BY <3>1, <4>1 DEF FlightInv, FlightIsResolved
      <4>3. inFlight[b] # c
        BY <4>2, <1>1 DEF Resolving
      <4>4. QED
        BY <4>1, <4>2, <4>3, <2>2
    <3>4. QED
      BY <3>2, <3>3
  <2>7. WaitHasChannel'
    BY <2>1, <2>2, <1>1, IconsAssumption DEF FlightInv, FlightTypes, WaitHasChannel
  <2>8. QED
    BY <2>3, <2>5, <2>6, <2>7 DEF FlightInv
<1>3. CASE inFlight[a] # Nobody
  <2>1. pc' = [pc EXCEPT ![c] = "wait"] /\ inFlight' = inFlight
    BY <1>3 DEF Claim, Goto
  <2>2. \A d \in Client : pc'[d] = IF d = c THEN "wait" ELSE pc[d]
    BY <2>1 DEF FlightInv, FlightTypes
  <2>3. FlightTypes' /\ OneResolver' /\ WaitHasChannel'
    BY <2>1, <2>2, <1>1, <1>3
    DEF FlightInv, FlightTypes, OneResolver, WaitHasChannel, Places, Resolving
  <2>4. FlightIsResolved'
    <3>1. SUFFICES ASSUME NEW b \in Asset, inFlight[b] # Nobody
                   PROVE  pc'[inFlight[b]] \in Resolving /\ asset[inFlight[b]] = b
      BY <1>1, <2>1 DEF FlightIsResolved
    <3>2. inFlight[b] \in Client /\ pc[inFlight[b]] \in Resolving /\ asset[inFlight[b]] = b
      BY <3>1 DEF FlightInv, FlightTypes, FlightIsResolved
    <3>3. inFlight[b] # c
      BY <3>2, <1>1 DEF Resolving
    <3>4. QED
      BY <3>2, <3>3, <2>2
  <2>5. QED
    BY <2>3, <2>4 DEF FlightInv
<1>4. QED
  BY <1>2, <1>3

(* The channel goes, and with it everybody who waited for it. *)
LEMMA ReleaseStep ==
  ASSUME FlightInv, NEW c \in Client, Release(c)
  PROVE  FlightInv'
<1> DEFINE a == asset[c]
<1>1. /\ a \in Asset /\ pc[c] = "release" /\ asset' = asset
      /\ inFlight' = [inFlight EXCEPT ![a] = Nobody]
  BY DEF FlightInv, FlightTypes, Release
<1>2. \A b \in Asset : inFlight'[b] = IF b = a THEN Nobody ELSE inFlight[b]
  BY <1>1 DEF FlightInv, FlightTypes
<1>3. /\ pc' \in [Client -> Places]
      /\ \A w \in Client : pc'[w] = IF w = c THEN "idle"
                                    ELSE IF w \in Waiters(a) THEN "woken" ELSE pc[w]
  BY DEF Release, FlightInv, FlightTypes, Places
<1>4. inFlight[a] = c
  BY <1>1 DEF FlightInv, OneResolver, Resolving
<1>5. FlightTypes'
  BY <1>1, <1>3 DEF FlightInv, FlightTypes
<1>6. ASSUME NEW d \in Client, d # c, pc[d] \in Resolving
      PROVE  pc'[d] = pc[d] /\ asset[d] # a
  BY <1>3, <1>4, <1>6 DEF FlightInv, OneResolver, Waiters, Resolving
<1>7. OneResolver'
  <2>1. SUFFICES ASSUME NEW d \in Client, pc'[d] \in Resolving
                 PROVE  inFlight'[asset[d]] = d
    BY <1>1 DEF OneResolver
  <2>2. d # c /\ pc[d] \in Resolving
    BY <2>1, <1>3 DEF Resolving
  <2>3. QED
    BY <2>2, <1>2, <1>6 DEF FlightInv, FlightTypes, OneResolver
<1>8. FlightIsResolved'
  <2>1. SUFFICES ASSUME NEW b \in Asset, inFlight'[b] # Nobody
                 PROVE  pc'[inFlight'[b]] \in Resolving /\ asset[inFlight'[b]] = b
    BY <1>1 DEF FlightIsResolved
  <2>2. b # a /\ inFlight'[b] = inFlight[b] /\ inFlight[b] \in Client
    BY <2>1, <1>2 DEF FlightInv, FlightTypes
  <2>3. pc[inFlight[b]] \in Resolving /\ asset[inFlight[b]] = b
    BY <2>1, <2>2 DEF FlightInv, FlightIsResolved
  <2>4. QED
    BY <2>2, <2>3, <1>6
<1>9. WaitHasChannel'
  BY <1>1, <1>2, <1>3 DEF FlightInv, FlightTypes, WaitHasChannel, Waiters
<1>10. QED
  BY <1>5, <1>7, <1>8, <1>9 DEF FlightInv

-----------------------------------------------------------------------------
(* Every step keeps the invariant. *)
LEMMA FlightInvStep == FlightInv /\ [Next]_vars => FlightInv'
<1>1. SUFFICES ASSUME FlightInv, [Next]_vars PROVE FlightInv'
  OBVIOUS
<1>2. CASE UNCHANGED <<inFlight, pc, asset>>
  BY <1>1, <1>2
  DEF FlightInv, FlightTypes, OneResolver, FlightIsResolved, WaitHasChannel
<1>3. CASE Tick
  BY <1>2, <1>3 DEF Tick, serviceVars, requestVars
<1>4. ASSUME NEW c \in Client, HangUp(c) PROVE FlightInv'
  BY <1>2, <1>4 DEF HangUp, serviceVars
<1>5. ASSUME NEW c \in Client, Step(c) PROVE FlightInv'
  BY <1>1, <1>5, ResolvingStep, OutsideStep, ClaimStep, ReleaseStep DEF Step
<1>6. CASE UNCHANGED vars
  BY <1>2, <1>6 DEF vars, serviceVars, requestVars
<1>7. QED
  BY <1>1, <1>3, <1>4, <1>5, <1>6, AskStep DEF Next

(* "Somebody else is already resolving this asset; share their work"       *)
(* (icons.go:163): for any assets and requests, at most one request        *)
(* resolves an asset.                                                      *)
THEOREM OneResolverCorrect == Spec => []OneResolver
<1>1. FlightInv => OneResolver
  BY DEF FlightInv
<1>2. QED
  BY <1>1, FlightInvInit, FlightInvStep, PTL DEF Spec

(* Nobody waits for a channel that nobody will close (icons.go:163-168,    *)
(* 190-197), whichever call failed or was cancelled.                       *)
THEOREM NobodyWaitsInVain ==
  Spec => [](\A c \in Client : pc[c] = "wait" =>
               \E w \in Client : pc[w] \in Resolving /\ asset[w] = asset[c])
<1>1. FlightInv => \A c \in Client : pc[c] = "wait" =>
                     \E w \in Client : pc[w] \in Resolving /\ asset[w] = asset[c]
  BY DEF FlightInv, FlightTypes, FlightIsResolved, WaitHasChannel
<1>2. QED
  BY <1>1, FlightInvInit, FlightInvStep, PTL DEF Spec

-----------------------------------------------------------------------------
(* The sums                                                                *)

(* A set of naturals that is not empty has a least one. *)
LEMMA LeastNat ==
  ASSUME NEW S, S \subseteq Nat, S # {}
  PROVE  \E n \in S : \A m \in S : n <= m
<1> DEFINE R == {ss \in Nat \X Nat : ss[1] < ss[2]}
<1>1. IsWellFoundedOn(R, Nat)
  BY NatLessThanWellFounded DEF OpToRel
<1> HIDE DEF R
<1>2. PICK n \in S : \A m \in S : ~(<<m, n>> \in R)
  BY <1>1, WFMin
<1>3. \A m \in S : <<m, n>> \in R <=> m < n
  BY DEF R
<1>4. \A m \in S : n <= m
  <2>1. SUFFICES ASSUME NEW m \in S PROVE n <= m
    OBVIOUS
  <2>2. m \in Nat /\ n \in Nat /\ ~(m < n)
    BY <1>2, <1>3
  <2>3. QED
    BY <2>2
<1>5. QED
  BY <1>4

CacheTables == [Asset -> Entry \cup {NoEntry}]

(* The size of an entry, and what is no entry. *)
LEMMA EntrySize ==
  /\ \A e \in Entry : e # NoEntry /\ e.kind \in Published /\ SizeOf[e.kind] \in Nat \ {0}
  /\ NoEntry \notin Entry
<1>1. SizeOf \in [Published -> Nat \ {0}]
  BY IconsAssumption
<1>2. QED
  BY <1>1 DEF Entry, NoEntry, Published

LEMMA TakenElements ==
  ASSUME NEW table \in CacheTables, NEW as \in SUBSET Asset, NEW x
  PROVE  x \in Taken(table, as) <=>
           \E a \in as, i \in Nat :
             x = <<a, i>> /\ table[a] # NoEntry /\ i \in 1..SizeOf[table[a].kind]
<1>1. \A a \in as : table[a] # NoEntry => SizeOf[table[a].kind] \in Nat
  BY EntrySize DEF CacheTables
<1>2. \A a \in as : table[a] # NoEntry => 1..SizeOf[table[a].kind] \subseteq Nat
  BY <1>1
<1>3. x \in Taken(table, as) <=>
        \E a \in as : table[a] # NoEntry /\ x \in {a} \X (1..SizeOf[table[a].kind])
  BY DEF Taken
<1>4. \A a, S : x \in {a} \X S <=> \E i \in S : x = <<a, i>>
  OBVIOUS
<1>5. x \in Taken(table, as) <=>
        \E a \in as : table[a] # NoEntry /\ \E i \in 1..SizeOf[table[a].kind] : x = <<a, i>>
  <2>1. \A a : x \in {a} \X (1..SizeOf[table[a].kind])
                 <=> \E i \in 1..SizeOf[table[a].kind] : x = <<a, i>>
    BY <1>4
  <2>2. ASSUME NEW a \in as, table[a] # NoEntry, x \in {a} \X (1..SizeOf[table[a].kind])
        PROVE  \E i \in 1..SizeOf[table[a].kind] : x = <<a, i>>
    BY <2>1, <2>2
  <2>3. ASSUME NEW a \in as, table[a] # NoEntry,
               NEW i \in 1..SizeOf[table[a].kind], x = <<a, i>>
        PROVE  x \in {a} \X (1..SizeOf[table[a].kind])
    BY <2>3
  <2>4. QED
    BY <1>3, <2>2, <2>3
<1>6. QED
  BY <1>2, <1>5

(* The bytes of any entries are finitely many. *)
LEMMA TakenIsFinite ==
  ASSUME NEW table \in CacheTables, NEW as \in SUBSET Asset
  PROVE  IsFiniteSet(Taken(table, as)) /\ Bytes(table, as) \in Nat
<1> DEFINE most == SizeOf["nothing"] + SizeOf["domain"] + SizeOf["meta"] + SizeOf["icon"]
<1>1. /\ most \in Nat
      /\ \A kind \in Published : SizeOf[kind] \in Nat /\ SizeOf[kind] <= most
  BY IconsAssumption DEF Published
<1>2. IsFiniteSet(1..most)
  BY <1>1, FS_Interval
<1>3. IsFiniteSet(Asset \X (1..most))
  BY <1>2, IconsAssumption, FS_Product
<1> HIDE DEF most
<1>4. \A a \in as : table[a] # NoEntry => 1..SizeOf[table[a].kind] \subseteq 1..most
  <2>1. SUFFICES ASSUME NEW a \in as, table[a] # NoEntry
                 PROVE  1..SizeOf[table[a].kind] \subseteq 1..most
    OBVIOUS
  <2>2. table[a] \in Entry
    BY <2>1 DEF CacheTables
  <2>3. SizeOf[table[a].kind] \in Nat /\ SizeOf[table[a].kind] <= most
    BY <2>2, <1>1, EntrySize
  <2>4. QED
    BY <2>3, <1>1
<1>5. Taken(table, as) \in SUBSET (Asset \X (1..most))
  <2>1. SUFFICES ASSUME NEW x \in Taken(table, as) PROVE x \in Asset \X (1..most)
    OBVIOUS
  <2>2. PICK a \in as, i \in Nat :
          x = <<a, i>> /\ table[a] # NoEntry /\ i \in 1..SizeOf[table[a].kind]
    BY TakenElements
  <2>3. QED
    BY <2>2, <1>4
<1>6. QED
  BY <1>3, <1>5, FS_Subset, FS_CardinalityType DEF Bytes

(* The bytes of one entry are its size. *)
LEMMA BytesOfOne ==
  ASSUME NEW table \in CacheTables, NEW a \in Asset
  PROVE  Bytes(table, {a}) = IF table[a] = NoEntry THEN 0 ELSE SizeOf[table[a].kind]
<1>1. CASE table[a] = NoEntry
  <2>1. Taken(table, {a}) = {}
    BY <1>1, TakenElements
  <2>2. QED
    BY <1>1, <2>1, FS_EmptySet DEF Bytes
<1>2. CASE table[a] # NoEntry
  <2>1. PICK n \in Nat : n = SizeOf[table[a].kind]
    BY <1>2, EntrySize DEF CacheTables
  <2>2. Taken(table, {a}) = {a} \X (1..n)
    BY <1>2, <2>1 DEF Taken
  <2>3. IsFiniteSet(1..n) /\ Cardinality(1..n) = n
    BY FS_Interval
  <2>4. IsFiniteSet({a}) /\ Cardinality({a}) = 1
    BY FS_Singleton
  <2>5. Cardinality({a} \X (1..n)) = 1 * n
    BY <2>3, <2>4, FS_Product, ZenonT(60)
  <2>6. Bytes(table, {a}) = n
    <3>1. 1 * n = n
      OBVIOUS
    <3>2. QED
      BY <2>2, <2>5, <3>1 DEF Bytes
  <2>7. QED
    BY <1>2, <2>1, <2>6
<1>3. QED
  BY <1>1, <1>2

(* The bytes of a set are those of a part of it and of the rest. *)
LEMMA BytesOfParts ==
  ASSUME NEW table \in CacheTables, NEW as \in SUBSET Asset, NEW part \in SUBSET as
  PROVE  Bytes(table, as) = Bytes(table, as \ part) + Bytes(table, part)
<1>1. /\ IsFiniteSet(Taken(table, as)) /\ Bytes(table, as) \in Nat
      /\ Bytes(table, part) \in Nat
  BY TakenIsFinite
<1>2. /\ \A x : x \in Taken(table, as) <=> \E a \in as, i \in Nat :
             x = <<a, i>> /\ table[a] # NoEntry /\ i \in 1..SizeOf[table[a].kind]
      /\ \A x : x \in Taken(table, part) <=> \E a \in part, i \in Nat :
             x = <<a, i>> /\ table[a] # NoEntry /\ i \in 1..SizeOf[table[a].kind]
      /\ \A x : x \in Taken(table, as \ part) <=> \E a \in as \ part, i \in Nat :
             x = <<a, i>> /\ table[a] # NoEntry /\ i \in 1..SizeOf[table[a].kind]
  BY TakenElements
<1>3. Taken(table, as) \ Taken(table, part) = Taken(table, as \ part)
  <2>1. \A a, b, i, j : <<a, i>> = <<b, j>> => a = b
    OBVIOUS
  <2>2. ASSUME NEW x \in Taken(table, as), x \notin Taken(table, part)
        PROVE  x \in Taken(table, as \ part)
    BY <1>2, <2>2
  <2>3. ASSUME NEW x \in Taken(table, as \ part)
        PROVE  x \in Taken(table, as) /\ x \notin Taken(table, part)
    <3>1. PICK a \in as \ part, i \in Nat :
            x = <<a, i>> /\ table[a] # NoEntry /\ i \in 1..SizeOf[table[a].kind]
      BY <1>2, <2>3
    <3>2. x \in Taken(table, as)
      BY <1>2, <3>1
    <3>3. x \notin Taken(table, part)
      BY <1>2, <2>1, <3>1
    <3>4. QED
      BY <3>2, <3>3
  <2>4. QED
    BY <2>2, <2>3
<1>4. Taken(table, as) \cap Taken(table, part) = Taken(table, part)
  BY <1>2
<1>5. Bytes(table, as \ part) = Bytes(table, as) - Bytes(table, part)
  BY <1>1, <1>3, <1>4, FS_Difference, ZenonT(60) DEF Bytes
<1>6. \A all, some \in Nat : all = (all - some) + some
  OBVIOUS
<1>7. QED
  BY <1>1, <1>5, <1>6

(* Only the entries of the set count. *)
LEMMA BytesAgree ==
  ASSUME NEW table \in CacheTables, NEW other \in CacheTables, NEW as \in SUBSET Asset
  PROVE  (\A a \in as : table[a] = other[a]) => Bytes(table, as) = Bytes(other, as)
<1>1. SUFFICES ASSUME \A a \in as : table[a] = other[a]
               PROVE  Taken(table, as) = Taken(other, as)
  BY DEF Bytes
<1>2. \A x : x \in Taken(table, as) <=> \E a \in as, i \in Nat :
        x = <<a, i>> /\ table[a] # NoEntry /\ i \in 1..SizeOf[table[a].kind]
  BY TakenElements
<1>3. \A x : x \in Taken(other, as) <=> \E a \in as, i \in Nat :
        x = <<a, i>> /\ other[a] # NoEntry /\ i \in 1..SizeOf[other[a].kind]
  BY TakenElements
<1>4. ASSUME NEW x \in Taken(table, as) PROVE x \in Taken(other, as)
  <2>1. PICK a \in as, i \in Nat :
          x = <<a, i>> /\ table[a] # NoEntry /\ i \in 1..SizeOf[table[a].kind]
    BY <1>2, <1>4
  <2>2. QED
    BY <1>1, <1>3, <2>1
<1>5. ASSUME NEW x \in Taken(other, as) PROVE x \in Taken(table, as)
  <2>1. PICK a \in as, i \in Nat :
          x = <<a, i>> /\ other[a] # NoEntry /\ i \in 1..SizeOf[other[a].kind]
    BY <1>3, <1>5
  <2>2. table[a] # NoEntry /\ i \in 1..SizeOf[table[a].kind]
    BY <1>1, <2>1
  <2>3. QED
    BY <1>2, <2>1, <2>2
<1>6. QED
  BY <1>4, <1>5

(* Where nothing is kept nothing is taken. *)
LEMMA BytesOfNone ==
  ASSUME NEW table \in CacheTables, NEW as \in SUBSET Asset,
         \A a \in as : table[a] = NoEntry
  PROVE  Bytes(table, as) = 0
<1>1. Taken(table, as) = {}
  BY TakenElements
<1>2. QED
  BY <1>1, FS_EmptySet DEF Bytes

-----------------------------------------------------------------------------
(* The eviction                                                            *)

(* The oldest of a queue that lists every entry go until the budget is     *)
(* kept, and what is left in the account is what the others take.          *)
LEMMA EvictionKeepsBudget ==
  ASSUME NEW table \in CacheTables, NEW queue \in Seq(Asset), NEW bytes \in Nat,
         bytes = Bytes(table, Asset),
         \A a \in Asset : table[a] # NoEntry => \E i \in 1..Len(queue) : queue[i] = a
  PROVE  \E n \in 0..Len(queue) :
           /\ n = Evicted(table, queue, bytes)
           /\ bytes - Bytes(table, Oldest(queue, n)) \in 0..CacheBudget
           /\ bytes - Bytes(table, Oldest(queue, n))
                = Bytes(table, Asset \ Oldest(queue, n))
<1> DEFINE left(n) == bytes - Bytes(table, Oldest(queue, n))
           Enough(n) == left(n) <= CacheBudget \/ n = Len(queue)
           S == {n \in 0..Len(queue) : Enough(n)}
<1>1. Len(queue) \in Nat /\ CacheBudget \in Nat
  BY IconsAssumption
<1>2. \A n \in 0..Len(queue) : Oldest(queue, n) \in SUBSET Asset
  BY <1>1 DEF Oldest
<1>3. \A n \in 0..Len(queue) :
        left(n) = Bytes(table, Asset \ Oldest(queue, n)) /\ left(n) \in Nat
  <2>1. SUFFICES ASSUME NEW n \in 0..Len(queue)
                 PROVE  left(n) = Bytes(table, Asset \ Oldest(queue, n)) /\ left(n) \in Nat
    OBVIOUS
  <2>2. PICK kept \in Nat : kept = Bytes(table, Asset \ Oldest(queue, n))
    BY TakenIsFinite
  <2>3. PICK went \in Nat : went = Bytes(table, Oldest(queue, n))
    BY <1>2, TakenIsFinite
  <2>4. bytes = kept + went
    BY <1>2, <2>2, <2>3, BytesOfParts
  <2>5. QED
    BY <2>2, <2>3, <2>4
<1>4. left(Len(queue)) = 0
  <2>1. Len(queue) \in 0..Len(queue)
    BY <1>1
  <2>2. \A a \in Asset \ Oldest(queue, Len(queue)) : table[a] = NoEntry
    BY DEF Oldest
  <2>3. Bytes(table, Asset \ Oldest(queue, Len(queue))) = 0
    BY <2>2, BytesOfNone
  <2>4. QED
    BY <1>3, <2>1, <2>3
<1>5. \E n \in S : \A m \in S : n <= m
  <2>1. Len(queue) \in S /\ S \subseteq Nat
    BY <1>1
  <2> HIDE DEF S
  <2>2. QED
    BY <2>1, LeastNat
<1>6. \E n \in 0..Len(queue) :
        Enough(n) /\ \A m \in 0..Len(queue) : m < n => ~Enough(m)
  <2>1. PICK n \in S : \A m \in S : n <= m
    BY <1>5
  <2>2. \A m \in 0..Len(queue) : m < n => m \notin S
    BY <1>1, <2>1
  <2>3. QED
    BY <2>1, <2>2
<1>7. PICK n \in 0..Len(queue) : n = Evicted(table, queue, bytes) /\ Enough(n)
  BY <1>6 DEF Evicted
<1>8. left(n) <= CacheBudget
  BY <1>1, <1>4, <1>7
<1>9. QED
  BY <1>1, <1>3, <1>7, <1>8

(* What is left of a queue without repetitions is the rest of its elements. *)
LEMMA RestOfQueue ==
  ASSUME NEW queue \in Seq(Asset), NEW n \in 0..Len(queue),
         \A i, j \in 1..Len(queue) : queue[i] = queue[j] => i = j
  PROVE  \E rest \in Seq(Asset) :
           /\ rest = SubSeq(queue, n + 1, Len(queue))
           /\ Len(rest) <= Cardinality(Asset)
           /\ \A i, j \in 1..Len(rest) : rest[i] = rest[j] => i = j
           /\ \A a : (\E i \in 1..Len(rest) : rest[i] = a) <=>
                       (\E i \in 1..Len(queue) : queue[i] = a) /\ a \notin Oldest(queue, n)
<1>0. PICK rest : rest = SubSeq(queue, n + 1, Len(queue))
  OBVIOUS
<1>1. Len(queue) \in Nat /\ n \in Nat /\ n <= Len(queue)
  OBVIOUS
<1>2. PICK left \in Nat : left = Len(queue) - n
  BY <1>1
<1>3. /\ rest \in Seq(Asset) /\ Len(rest) = left
      /\ \A i \in 1..left : rest[i] = queue[n + i]
  <2>1. CASE left = 0
    <3>1. rest = <<>>
      BY <1>0, <1>1, <1>2, <2>1, SubSeqProperties
    <3>2. QED
      BY <2>1, <3>1
  <2>2. CASE left # 0
    <3>1. n + 1 \in 1..Len(queue) + 1 /\ n + 1 <= Len(queue)
      BY <1>0, <1>1, <1>2, <2>2
    <3>2. QED
      BY <1>0, <1>1, <1>2, <2>2, <3>1, SubSeqProperties
  <2>3. QED
    BY <2>1, <2>2
<1>4. \A i \in 1..left : n + i \in 1..Len(queue)
  BY <1>1, <1>2
<1>5. \A i, j \in 1..left : rest[i] = rest[j] => i = j
  <2>1. SUFFICES ASSUME NEW i \in 1..left, NEW j \in 1..left, rest[i] = rest[j]
                 PROVE  i = j
    OBVIOUS
  <2>2. n + i = n + j
    BY <1>3, <1>4, <2>1
  <2>3. QED
    BY <1>1, <2>2
<1>6. \A a : (\E i \in 1..left : rest[i] = a) <=>
              (\E i \in 1..Len(queue) : queue[i] = a) /\ a \notin Oldest(queue, n)
  <2>1. ASSUME NEW i \in 1..left
        PROVE  /\ \E k \in 1..Len(queue) : queue[k] = rest[i]
               /\ rest[i] \notin Oldest(queue, n)
    <3>1. \A k \in 1..n : k \in 1..Len(queue) /\ k # n + i
      BY <1>1, <2>1
    <3>2. QED
      BY <1>3, <1>4, <2>1, <3>1 DEF Oldest
  <2>2. ASSUME NEW k \in 1..Len(queue), queue[k] \notin Oldest(queue, n)
        PROVE  \E i \in 1..left : rest[i] = queue[k]
    <3>1. k \notin 1..n
      BY <2>2 DEF Oldest
    <3>2. PICK i \in 1..left : n + i = k
      <4>1. k - n \in 1..left /\ n + (k - n) = k
        BY <1>1, <1>2, <3>1
      <4>2. QED
        BY <4>1
    <3>3. QED
      BY <1>3, <3>2
  <2>3. QED
    BY <2>1, <2>2
<1>7. left <= Cardinality(Asset)
  <2>1. rest \in Injection(1..left, Asset)
    <3>1. rest \in [1..left -> Asset]
      <4>1. rest \in [1..Len(rest) -> Asset]
        BY <1>3, LenProperties
      <4>2. QED
        BY <1>3, <4>1
    <3>2. QED
      BY <1>5, <3>1 DEF Injection, IsInjective
  <2>2. Cardinality(1..left) <= Cardinality(Asset)
    BY <2>1, FS_Injection, IconsAssumption
  <2>3. Cardinality(1..left) = left
    BY FS_Interval
  <2>4. QED
    BY <2>2, <2>3
<1>8. /\ rest \in Seq(Asset) /\ rest = SubSeq(queue, n + 1, Len(queue))
      /\ Len(rest) <= Cardinality(Asset)
      /\ \A i, j \in 1..Len(rest) : rest[i] = rest[j] => i = j
  BY <1>0, <1>3, <1>5, <1>7
<1>9. \A a : (\E i \in 1..Len(rest) : rest[i] = a) <=>
              (\E i \in 1..Len(queue) : queue[i] = a) /\ a \notin Oldest(queue, n)
  BY <1>3, <1>6
<1>10. QED
  BY <1>8, <1>9

-----------------------------------------------------------------------------
(* The budget                                                              *)

(* What a request is about to cache, or still to find out, is an entry. *)
DraftIsEntry ==
  \A c \in Client : pc[c] \in {"horizon", "toml", "image", "store"} => draft[c] \in Entry

BudgetInv == TypeOK /\ DraftIsEntry /\ BudgetAccounts

(* Nothing is cached at the start. *)
LEMMA BudgetInvInit == Init => BudgetInv
<1>1. SUFFICES ASSUME Init PROVE BudgetInv
  OBVIOUS
<1>2. TypeOK
  <2>1. Cardinality(Asset) \in Nat
    BY IconsAssumption, FS_CardinalityType
  <2>2. cache \in CacheTables /\ order \in Seq(Asset) /\ Len(order) = 0
    BY <1>1 DEF Init, CacheTables
  <2>3. /\ inFlight \in [Asset -> Client \cup {Nobody}]
        /\ asset \in [Client -> Asset] /\ draft \in [Client -> Entry \cup {NoEntry}]
    BY <1>1 DEF Init
  <2>4. QED
    BY <1>1, <2>1, <2>2, <2>3, IconsAssumption DEF Init, TypeOK, CacheTables
<1>3. DraftIsEntry
  BY <1>1 DEF Init, DraftIsEntry
<1>4. BudgetAccounts
  <2>1. cache \in CacheTables /\ \A a \in Asset : cache[a] = NoEntry
    BY <1>1 DEF Init, CacheTables
  <2>2. Bytes(cache, Asset) = 0
    BY <2>1, BytesOfNone
  <2>3. QED
    BY <1>1, <2>1, <2>2, IconsAssumption DEF Init, BudgetAccounts
<1>5. QED
  BY <1>2, <1>3, <1>4 DEF BudgetInv

(* The account stands while nothing is stored. *)
LEMMA AccountStands ==
  BudgetInv /\ UNCHANGED <<cache, order, cacheBytes>> => BudgetAccounts'
BY DEF BudgetInv, BudgetAccounts, Bytes, Taken

(* What a step of resolve up to the store does. *)
FindsOut(c) ==
  /\ UNCHANGED <<clock, serviceVars, asset, answer, cancelled, asked>>
  /\ pc[c] \in {"horizon", "toml", "image"}
  /\ faults' \in 0..MaxFaults
  /\ \E to \in {"toml", "image", "store", "release"}, new \in Entry \cup {NoEntry} :
       /\ pc' = [pc EXCEPT ![c] = to] /\ draft' = [draft EXCEPT ![c] = new]
       /\ to # "release" => new \in Entry

(* A request finds out what an issuer publishes, or that it cannot. *)
LEMMA UpstreamStep ==
  ASSUME BudgetInv, NEW c \in Client,
         \/ HomeDomain(c) \/ TomlCurrency(c) \/ FetchImage(c)
         \/ HomeDomainFails(c) \/ TomlCurrencyFails(c) \/ FetchImageFails(c)
  PROVE  FindsOut(c)
<1>1. pc[c] \in {"horizon", "toml", "image"}
  BY DEF HomeDomain, TomlCurrency, FetchImage, HomeDomainFails, TomlCurrencyFails,
     FetchImageFails, Upstream, UpstreamFails, Goto
<1>2. draft[c] \in Entry /\ Publishes[asset[c]] \in Published
  BY <1>1, IconsAssumption DEF BudgetInv, TypeOK, DraftIsEntry
<1>3. \A kind \in Published : [draft[c] EXCEPT !.kind = kind] \in Entry
  BY <1>2 DEF Entry
<1>4. /\ faults \in Nat /\ faults <= MaxFaults /\ MaxFaults \in Nat
      /\ draft \in [Client -> Entry \cup {NoEntry}]
  BY IconsAssumption DEF BudgetInv, TypeOK
<1>5. ASSUME NEW step \in {"horizon", "toml", "image"}, NEW last,
             NEW following \in {"toml", "image", "store"}, Upstream(c, step, last, following)
      PROVE  FindsOut(c)
  <2>1. \E new \in Entry : draft' = [draft EXCEPT ![c] = new]
    <3>1. CASE Publishes[asset[c]] \in last
      <4>1. draft' = [draft EXCEPT ![c] = [draft[c] EXCEPT !.kind = Publishes[asset[c]]]]
        BY <1>5, <3>1, <1>4 DEF Upstream
      <4>2. QED
        BY <4>1, <1>2, <1>3
    <3>2. CASE Publishes[asset[c]] \notin last
      <4>1. draft' = [draft EXCEPT ![c] = [draft[c] EXCEPT !.kind = draft[c].kind]]
        BY <1>5, <3>2, <1>4 DEF Upstream
      <4>2. draft[c].kind \in Published
        BY <1>2 DEF Entry
      <4>3. QED
        BY <4>1, <4>2, <1>3
    <3>3. QED
      BY <3>1, <3>2
  <2>2. \E to \in {"toml", "image", "store"} : pc' = [pc EXCEPT ![c] = to]
    BY <1>5 DEF Upstream, Goto
  <2>3. /\ UNCHANGED <<clock, serviceVars, asset, answer, cancelled, asked>>
        /\ faults' \in 0..MaxFaults
    BY <1>5, <1>4 DEF Upstream
  <2>4. QED
    BY <1>1, <2>1, <2>2, <2>3 DEF FindsOut
<1>6. ASSUME NEW step \in {"horizon", "toml", "image"}, NEW next \in {"store", "release"},
             NEW kind \in Published \cup {"none"}, next = "store" => kind \in Published,
             UpstreamFails(c, step, next, kind)
      PROVE  FindsOut(c)
  <2>1. \E new \in Entry \cup {NoEntry} :
          draft' = [draft EXCEPT ![c] = new] /\ (next = "store" => new \in Entry)
    <3>1. CASE kind = "none"
      <4>1. draft' = [draft EXCEPT ![c] = NoEntry] /\ next # "store"
        BY <1>6, <3>1 DEF UpstreamFails, Published
      <4>2. QED
        BY <4>1
    <3>2. CASE kind # "none"
      <4>1. draft' = [draft EXCEPT ![c] = [draft[c] EXCEPT !.kind = kind]]
        BY <1>6, <3>2, <1>4 DEF UpstreamFails
      <4>2. QED
        BY <1>6, <3>2, <4>1, <1>3
    <3>3. QED
      BY <3>1, <3>2
  <2>2. pc' = [pc EXCEPT ![c] = next]
    BY <1>6 DEF UpstreamFails, Goto
  <2>3. /\ UNCHANGED <<clock, serviceVars, asset, answer, cancelled, asked>>
        /\ faults' \in 0..MaxFaults
    BY <1>6, <1>4 DEF UpstreamFails, Fault
  <2>4. QED
    BY <1>1, <2>1, <2>2, <2>3 DEF FindsOut
<1>7. CASE HomeDomain(c) \/ TomlCurrency(c) \/ FetchImage(c)
  BY <1>5, <1>7 DEF HomeDomain, TomlCurrency, FetchImage
<1>8. CASE HomeDomainFails(c) \/ TomlCurrencyFails(c) \/ FetchImageFails(c)
  BY <1>6, <1>8 DEF HomeDomainFails, TomlCurrencyFails, FetchImageFails, Published
<1>9. QED
  BY <1>7, <1>8

LEMMA FindsOutStep ==
  ASSUME BudgetInv, NEW c \in Client, FindsOut(c)
  PROVE  TypeOK' /\ DraftIsEntry'
<1>1. PICK to \in {"toml", "image", "store", "release"}, new \in Entry \cup {NoEntry} :
        /\ pc' = [pc EXCEPT ![c] = to] /\ draft' = [draft EXCEPT ![c] = new]
        /\ to # "release" => new \in Entry
  BY DEF FindsOut
<1>2. TypeOK'
  BY <1>1 DEF FindsOut, BudgetInv, TypeOK, serviceVars, Resolving
<1>3. DraftIsEntry'
  BY <1>1 DEF BudgetInv, TypeOK, DraftIsEntry
<1>4. QED
  BY <1>2, <1>3

(* What a request does outside resolve. *)
LEMMA OtherTypes ==
  ASSUME BudgetInv, NEW c \in Client,
         \/ HangUp(c) \/ (\E a \in Asset : Ask(c, a))
         \/ Lookup(c) \/ Claim(c) \/ Retry(c) \/ GiveUp(c) \/ Release(c)
  PROVE  TypeOK' /\ DraftIsEntry' /\ UNCHANGED <<cache, order, cacheBytes>>
<1>1. {clock, faults, asked, MaxClock, MaxFaults, MaxAsked} \subseteq Nat
  BY IconsAssumption DEF BudgetInv, TypeOK
<1>3. CASE HangUp(c)
  <2>1. faults' \in 0..MaxFaults
    BY <1>1, <1>3 DEF HangUp, Fault, BudgetInv, TypeOK
  <2>2. QED
    BY <1>3, <2>1 DEF HangUp, BudgetInv, TypeOK, DraftIsEntry, serviceVars
<1>4. CASE \E a \in Asset : Ask(c, a)
  <2>1. asked' \in 0..MaxAsked
    BY <1>1, <1>4 DEF Ask, BudgetInv, TypeOK
  <2>2. QED
    BY <1>4, <2>1 DEF Ask, Goto, BudgetInv, TypeOK, DraftIsEntry, serviceVars
<1>5. CASE Lookup(c)
  <2>1. \A a \in Asset : Fresh(a) => cache[a].kind \in Published
    BY EntrySize DEF Fresh, BudgetInv, TypeOK
  <2>2. QED
    BY <1>5, <2>1 DEF Lookup, Answer, Goto, BudgetInv, TypeOK, DraftIsEntry, serviceVars
<1>6. CASE Claim(c)
  <2>1. [kind |-> "nothing", at |-> clock] \in Entry
    BY DEF BudgetInv, TypeOK, Entry, Published
  <2>2. QED
    BY <1>6, <2>1, SMTT(30) DEF Claim, Goto, BudgetInv, TypeOK, DraftIsEntry, Resolving
<1>7. CASE Retry(c) \/ GiveUp(c)
  BY <1>7 DEF Retry, GiveUp, Answer, Goto, BudgetInv, TypeOK, DraftIsEntry, serviceVars
<1>8. CASE Release(c)
  <2>1. Result(c) \in Published \cup {"error"}
    BY EntrySize DEF Result, BudgetInv, TypeOK
  <2>2. QED
    BY <1>8, <2>1 DEF Release, BudgetInv, TypeOK, DraftIsEntry
<1>9. QED
  BY <1>3, <1>4, <1>5, <1>6, <1>7, <1>8

(* The new entry joins, the account follows, the oldest go. *)
LEMMA StoreStep ==
  ASSUME BudgetInv, NEW c \in Client, StoreEntry(c)
  PROVE  BudgetInv'
<1> DEFINE a     == asset[c]
           table == [cache EXCEPT ![a] = draft[c]]
           queue == IF cache[a] # NoEntry THEN order ELSE Append(order, a)
           bytes == cacheBytes - Bytes(cache, {a}) + SizeOf[draft[c].kind]
           n     == Evicted(table, queue, bytes)
           gone  == Oldest(queue, n)
<1>1. /\ pc[c] = "store" /\ pc' = [pc EXCEPT ![c] = "release"]
      /\ cache' = [b \in Asset |-> IF b \in gone THEN NoEntry ELSE table[b]]
      /\ order' = SubSeq(queue, n + 1, Len(queue))
      /\ cacheBytes' = bytes - Bytes(table, gone)
      /\ UNCHANGED <<clock, inFlight, asset, draft, answer, cancelled, asked, faults>>
  BY DEF StoreEntry, StoreAt, Goto
<1>2. a \in Asset /\ draft[c] \in Entry /\ cache \in CacheTables /\ table \in CacheTables
  BY <1>1 DEF BudgetInv, TypeOK, DraftIsEntry, CacheTables
<1>3. \A b \in Asset : table[b] = IF b = a THEN draft[c] ELSE cache[b]
  BY <1>2 DEF CacheTables
<1>4. queue \in Seq(Asset)
  BY <1>2 DEF BudgetInv, TypeOK
<1>5. /\ {queue[i] : i \in 1..Len(queue)} = {b \in Asset : table[b] # NoEntry}
      /\ \A i, j \in 1..Len(queue) : queue[i] = queue[j] => i = j
  <2>1. /\ order \in Seq(Asset)
        /\ {order[i] : i \in 1..Len(order)} = {b \in Asset : cache[b] # NoEntry}
        /\ \A i, j \in 1..Len(order) : order[i] = order[j] => i = j
    BY DEF BudgetInv, TypeOK, BudgetAccounts
  <2>2. table[a] # NoEntry
    BY <1>2, <1>3, EntrySize
  <2>3. CASE cache[a] # NoEntry
    <3>1. queue = order
      BY <2>3
    <3>2. {b \in Asset : table[b] # NoEntry} = {b \in Asset : cache[b] # NoEntry}
      BY <1>2, <1>3, <2>2, <2>3
    <3> HIDE DEF queue, table, a
    <3>3. QED
      BY <2>1, <3>1, <3>2
  <2>4. CASE cache[a] = NoEntry
    <3>1. queue = Append(order, a)
      BY <2>4
    <3>2. {b \in Asset : table[b] # NoEntry} = {b \in Asset : cache[b] # NoEntry} \cup {a}
      BY <1>2, <1>3, <2>2, <2>4
    <3>3. a \notin {order[i] : i \in 1..Len(order)}
      BY <1>2, <2>1, <2>4
    <3> HIDE DEF queue, table, a
    <3>4. PICK length \in Nat : length = Len(order)
      BY <2>1
    <3>5. /\ Len(queue) = length + 1 /\ queue[length + 1] = a
          /\ \A i \in 1..length : queue[i] = order[i]
      BY <1>2, <2>1, <3>1, <3>4
    <3>6. \A i \in 1..length + 1 : i \in 1..length \/ i = length + 1
      OBVIOUS
    <3>7. {queue[i] : i \in 1..length + 1} = {order[i] : i \in 1..length} \cup {a}
      <4>1. 1..length + 1 = 1..length \cup {length + 1}
        OBVIOUS
      <4>2. QED
        BY <3>5, <4>1
    <3>8. \A i, j \in 1..length + 1 : queue[i] = queue[j] => i = j
      BY <2>1, <3>3, <3>4, <3>5, <3>6
    <3>9. QED
      BY <2>1, <3>2, <3>4, <3>5, <3>7, <3>8
  <2>5. QED
    BY <2>3, <2>4
<1>6. bytes = Bytes(table, Asset) /\ bytes \in Nat
  <2>1. {a} \in SUBSET Asset /\ Asset \ {a} \in SUBSET Asset
    BY <1>2
  <2>2. PICK rest \in Nat : rest = Bytes(cache, Asset \ {a})
    BY <1>2, <2>1, TakenIsFinite
  <2>3. PICK old \in Nat : old = Bytes(cache, {a})
    BY <1>2, <2>1, TakenIsFinite
  <2>4. PICK new \in Nat : new = SizeOf[draft[c].kind]
    BY <1>2, EntrySize
  <2>5. cacheBytes = rest + old
    BY <1>2, <2>1, <2>2, <2>3, BytesOfParts DEF BudgetInv, BudgetAccounts
  <2>6. Bytes(table, Asset \ {a}) = rest
    <3>1. \A b \in Asset \ {a} : table[b] = cache[b]
      BY <1>3
    <3>2. QED
      BY <1>2, <2>1, <2>2, <3>1, BytesAgree
  <2>7. Bytes(table, {a}) = new
    <3>1. table[a] = draft[c] /\ draft[c] # NoEntry
      BY <1>2, <1>3, EntrySize
    <3>2. QED
      BY <1>2, <2>4, <3>1, BytesOfOne
  <2>8. Bytes(table, Asset) = Bytes(table, Asset \ {a}) + Bytes(table, {a})
    BY <1>2, <2>1, BytesOfParts
  <2>9. bytes = rest + old - old + new
    BY <2>3, <2>4, <2>5
  <2>10. QED
    BY <2>2, <2>3, <2>4, <2>6, <2>7, <2>8, <2>9
<1> HIDE DEF bytes, queue, table, a
<1>7. /\ n \in 0..Len(queue)
      /\ bytes - Bytes(table, gone) \in 0..CacheBudget
      /\ bytes - Bytes(table, gone) = Bytes(table, Asset \ gone)
  <2>1. \A b \in Asset : table[b] # NoEntry => \E i \in 1..Len(queue) : queue[i] = b
    BY <1>5
  <2>2. QED
    BY <1>2, <1>4, <1>6, <2>1, EvictionKeepsBudget
<1> HIDE DEF n
<1>8. /\ order' \in Seq(Asset) /\ Len(order') <= Cardinality(Asset)
      /\ \A i, j \in 1..Len(order') : order'[i] = order'[j] => i = j
      /\ {order'[i] : i \in 1..Len(order')} = {b \in Asset : table[b] # NoEntry} \ gone
  <2>1. n \in 0..Len(queue) /\ order' = SubSeq(queue, n + 1, Len(queue))
    BY <1>1, <1>7
  <2>2. \A i, j \in 1..Len(queue) : queue[i] = queue[j] => i = j
    BY <1>5
  <2> HIDE DEF gone
  <2>3. PICK rest \in Seq(Asset) :
          /\ rest = SubSeq(queue, n + 1, Len(queue))
          /\ Len(rest) <= Cardinality(Asset)
          /\ \A i, j \in 1..Len(rest) : rest[i] = rest[j] => i = j
          /\ \A b : (\E i \in 1..Len(rest) : rest[i] = b) <=>
                      (\E i \in 1..Len(queue) : queue[i] = b) /\ b \notin Oldest(queue, n)
    BY <1>4, <2>1, <2>2, RestOfQueue
  <2>4. rest = order'
    BY <2>1, <2>3
  <2>5. ASSUME NEW i \in 1..Len(rest)
        PROVE  rest[i] \in {b \in Asset : table[b] # NoEntry} \ gone
    <3>1. PICK k \in 1..Len(queue) : queue[k] = rest[i] /\ rest[i] \notin gone
      BY <2>3, <2>5 DEF gone
    <3>2. QED
      BY <1>5, <3>1
  <2>6. ASSUME NEW b \in Asset, table[b] # NoEntry, b \notin gone
        PROVE  \E i \in 1..Len(rest) : rest[i] = b
    <3>1. \E k \in 1..Len(queue) : queue[k] = b
      BY <1>5, <2>6
    <3>2. QED
      BY <2>3, <2>6, <3>1 DEF gone
  <2>7. {rest[i] : i \in 1..Len(rest)} = {b \in Asset : table[b] # NoEntry} \ gone
    BY <2>5, <2>6
  <2>8. {order'[i] : i \in 1..Len(order')} = {b \in Asset : table[b] # NoEntry} \ gone
    BY <2>4, <2>7, Zenon
  <2>9. /\ order' \in Seq(Asset) /\ Len(order') <= Cardinality(Asset)
        /\ \A i, j \in 1..Len(order') : order'[i] = order'[j] => i = j
    BY <2>3, <2>4
  <2>10. QED
    BY <2>8, <2>9
<1>9. PICK later \in CacheTables :
        /\ later = cache'
        /\ \A b \in Asset : later[b] = IF b \in gone THEN NoEntry ELSE table[b]
  BY <1>1, <1>2 DEF CacheTables
<1>10. Bytes(later, Asset) = Bytes(table, Asset \ gone)
  <2>1. Asset \ gone \in SUBSET Asset /\ Asset \cap gone \in SUBSET Asset
    OBVIOUS
  <2>2. Bytes(later, Asset) = Bytes(later, Asset \ (Asset \cap gone))
                                + Bytes(later, Asset \cap gone)
    BY <1>9, <2>1, BytesOfParts
  <2>3. Bytes(later, Asset \cap gone) = 0
    BY <1>9, <2>1, BytesOfNone
  <2>4. Asset \ (Asset \cap gone) = Asset \ gone
    OBVIOUS
  <2>5. Bytes(later, Asset \ gone) = Bytes(table, Asset \ gone)
    BY <1>2, <1>9, <2>1, BytesAgree
  <2>6. Bytes(later, Asset \ gone) \in Nat
    BY <1>9, <2>1, TakenIsFinite
  <2>7. QED
    BY <2>2, <2>3, <2>4, <2>5, <2>6
<1>11. BudgetAccounts'
  <2>1. cacheBytes' = Bytes(later, Asset) /\ cacheBytes' <= CacheBudget
    BY <1>1, <1>7, <1>10
  <2>2. {order'[i] : i \in 1..Len(order')} = {b \in Asset : later[b] # NoEntry}
    BY <1>8, <1>9
  <2>3. cacheBytes' = Bytes(cache, Asset)'
    BY <1>9, <2>1 DEF Bytes, Taken
  <2>4. QED
    BY <1>8, <1>9, <2>1, <2>2, <2>3 DEF BudgetAccounts
<1>12. TypeOK'
  BY <1>1, <1>7, <1>8, <1>9 DEF BudgetInv, TypeOK, CacheTables, Resolving
<1>13. DraftIsEntry'
  BY <1>1 DEF BudgetInv, TypeOK, DraftIsEntry
<1>14. QED
  BY <1>11, <1>12, <1>13 DEF BudgetInv

LEMMA BudgetInvStep == BudgetInv /\ [Next]_vars => BudgetInv'
<1>1. SUFFICES ASSUME BudgetInv, [Next]_vars PROVE BudgetInv'
  OBVIOUS
<1>2. ASSUME UNCHANGED <<cache, order, cacheBytes>>, TypeOK', DraftIsEntry'
      PROVE  BudgetInv'
  BY <1>1, <1>2, AccountStands DEF BudgetInv
<1>3. ASSUME NEW c \in Client, HangUp(c) \/ (\E a \in Asset : Ask(c, a))
      PROVE  BudgetInv'
  BY <1>1, <1>2, <1>3, OtherTypes
<1>4. ASSUME NEW c \in Client, FindsOut(c) PROVE BudgetInv'
  BY <1>1, <1>2, <1>4, FindsOutStep DEF FindsOut, serviceVars
<1>5. ASSUME NEW c \in Client, Step(c) PROVE BudgetInv'
  <2>1. CASE Lookup(c) \/ Claim(c) \/ Retry(c) \/ GiveUp(c) \/ Release(c)
    BY <1>1, <1>2, <2>1, OtherTypes
  <2>2. CASE \/ HomeDomain(c) \/ TomlCurrency(c) \/ FetchImage(c)
             \/ HomeDomainFails(c) \/ TomlCurrencyFails(c) \/ FetchImageFails(c)
    BY <1>1, <1>4, <2>2, UpstreamStep
  <2>3. CASE StoreEntry(c)
    BY <1>1, <2>3, StoreStep
  <2>4. QED
    BY <1>5, <2>1, <2>2, <2>3 DEF Step
<1>6. CASE Tick
  <2>1. clock' \in 0..MaxClock
    BY <1>1, <1>6, IconsAssumption DEF Tick, BudgetInv, TypeOK
  <2>2. TypeOK' /\ DraftIsEntry'
    BY <1>1, <1>6, <2>1 DEF Tick, BudgetInv, TypeOK, DraftIsEntry, serviceVars, requestVars
  <2>3. QED
    BY <1>2, <1>6, <2>2 DEF Tick, serviceVars
<1>7. CASE UNCHANGED vars
  BY <1>1, <1>2, <1>7 DEF BudgetInv, TypeOK, DraftIsEntry, vars, serviceVars, requestVars
<1>8. QED
  BY <1>1, <1>3, <1>5, <1>6, <1>7 DEF Next

(* The types of everything the service keeps: the eviction order never      *)
(* outgrows the assets, and the account stays between nothing and the       *)
(* budget.                                                                  *)
THEOREM TypeCorrect == Spec => []TypeOK
<1>1. BudgetInv => TypeOK
  BY DEF BudgetInv
<1>2. QED
  BY <1>1, BudgetInvInit, BudgetInvStep, PTL DEF Spec

(* The byte budget (icons.go:402-420): for any assets, sizes and budget,    *)
(* the account is the sum of the cached entries and within the budget, and  *)
(* the eviction order lists exactly the cached assets, each once.           *)
THEOREM BudgetAccountsCorrect == Spec => []BudgetAccounts
<1>1. BudgetInv => BudgetAccounts
  BY DEF BudgetInv
<1>2. QED
  BY <1>1, BudgetInvInit, BudgetInvStep, PTL DEF Spec

=============================================================================
