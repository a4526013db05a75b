----------------------------- MODULE TraceMeta -----------------------------
(* What a trace takes from a transaction's meta and envelope besides the    *)
(* diagnostic stream (src/frontend/src/lib/tx-trace.ts): the storage it     *)
(* touched, the lifetimes it extended, and the calls its signers            *)
(* authorized.                                                              *)
(*                                                                          *)
(* A change is [kind, type, key, until]: what happened, to which type of    *)
(* entry ("data", "code", "ttl" or "other"), under which key, and for a ttl *)
(* until when.  A ttl names its owner by the hash of the owner's key; the   *)
(* hash is taken to tell keys apart, and is written as the key.             *)
EXTENDS TraceWalk, SequencesExt, FiniteSets

CONSTANT
    MAX_AUTH_DEPTH      \* tx-trace.ts:467

ASSUME DepthAssumption == MAX_AUTH_DEPTH \in Nat \ {0}

Unnamed == "unnamed"

\* What the meta of a transaction can hold of changes.
Changed(changes) ==
    /\ changes \in Seq(ToSet(changes))
    /\ \A c \in ToSet(changes) :
         /\ DOMAIN c = {"kind", "type", "key", "until"}
         /\ c.kind \in {"created", "updated", "restored", "removed", "state"}
         /\ c.key # Unnamed

NoChanges == [state |-> <<>>, ttls |-> <<>>, candidates |-> <<>>]

IndexOf(ttls, key) ==
    LET at == {i \in DOMAIN ttls : ttls[i].key = key}
    IN  IF at = {} THEN 0 ELSE CHOOSE i \in at : TRUE

\* Mutant: whatever comes last for a ttl is shown.
PushTtlLast(walk, change) ==
    LET i == IndexOf(walk.ttls, change.key)
        ttl == [key |-> change.key, until |-> change.until,
                written |-> change.kind # "state", owner |-> Unnamed]
    IN  IF change.kind = "removed" \/ Len(walk.ttls) >= MAX_ITEMS
        THEN walk
        ELSE IF i = 0 THEN [walk EXCEPT !.ttls = Append(@, ttl)]
             ELSE [walk EXCEPT !.ttls[i] = ttl]

(* A ttl entry: the value that was written wins over the pre-image.         *)
PushTtl(walk, change) ==
    LET i == IndexOf(walk.ttls, change.key)
        ttl == [key |-> change.key, until |-> change.until,
                written |-> change.kind # "state", owner |-> Unnamed]
    IN  IF \/ change.kind = "removed"
           \/ i # 0 /\ walk.ttls[i].written
           \/ Len(walk.ttls) >= MAX_ITEMS
        THEN walk
        ELSE IF i = 0 THEN [walk EXCEPT !.ttls = Append(@, ttl)]
             ELSE [walk EXCEPT !.ttls[i] = ttl]

AppendCapped(list, e) == IF Len(list) < MAX_ITEMS THEN Append(list, e) ELSE list

(* One change of the meta: a ttl; an entry of a contract, whose key may own *)
(* a ttl and which is listed unless it is a pre-image; or a contract's      *)
(* code, whose key may own one.                                             *)
Push(walk, change) ==
    CASE change.type = "ttl" -> PushTtl(walk, change)
      [] change.type = "data" ->
           [walk EXCEPT
              !.candidates = AppendCapped(@, change.key),
              !.state = IF change.kind = "state" THEN @
                        ELSE AppendCapped(@, [kind |-> change.kind,
                                              key |-> change.key])]
      [] change.type = "code" ->
           [walk EXCEPT !.candidates = AppendCapped(@, change.key)]
      [] OTHER -> walk

WalkChanges(changes) == FoldLeft(Push, NoChanges, changes)

(* The owners of the ttls, among the keys seen; without a digest (an        *)
(* insecure context has none) every row stays unnamed.                      *)
ResolveTtlOwners(walk, digest) ==
    IF ~digest THEN walk
    ELSE [walk EXCEPT !.ttls =
            [i \in DOMAIN @ |->
                [@[i] EXCEPT !.owner =
                    IF Contains(walk.candidates, walk.ttls[i].key)
                    THEN walk.ttls[i].key ELSE Unnamed]]]

-----------------------------------------------------------------------------
(* The calls the signers authorized.  An invocation is [fn, subs] and is    *)
(* known by its address in the envelope: the number of its entry, then that *)
(* of each sub-invocation on the way down to it.  The call of the operation *)
(* itself has the empty address.  A call is written as in module CallTree;  *)
(* nothing is known of events and values.                                   *)
Invocation(envelope, at) ==
    FoldLeft(LAMBDA invocation, i : invocation.subs[i],
             envelope.auth[Head(at)], Tail(at))

Addresses(envelope) ==
    {at \in Seq(Nat) :
        at # <<>> =>
            /\ Head(at) \in DOMAIN envelope.auth
            /\ \A i \in 2 .. Len(at) :
                 at[i] \in DOMAIN Invocation(envelope, SubSeq(at, 1, i - 1)).subs}

CallOf(fn, place) == [id |-> fn, seq |-> place, events |-> <<>>, calls |-> <<>>]

\* An entry that repeats the call of the operation itself.
Repeats(envelope, k) == envelope.auth[k].fn = envelope.root

(* A call is placed among its siblings as it is listed, or, where an entry  *)
(* begins to be read, by the depth it has in the entry.                     *)
PlaceOf(envelope, at) ==
    IF Len(at) = (IF Repeats(envelope, Head(at)) THEN 2 ELSE 1)
    THEN Len(at) - 1
    ELSE Last(at) - 1

FromAuthInvocation(envelope, at) ==
    [CallOf(Invocation(envelope, at).fn, PlaceOf(envelope, at)) EXCEPT !.calls =
        IF Len(at) > MAX_AUTH_DEPTH THEN <<>>
        ELSE [i \in DOMAIN Invocation(envelope, at).subs |-> Append(at, i)]]

(* What one signer's entry adds under the call of the operation: the        *)
(* invocations below it when the entry repeats that call, or its own root.  *)
AuthCalls(envelope, k) ==
    IF Repeats(envelope, k)
    THEN [i \in DOMAIN envelope.auth[k].subs |-> <<k, i>>]
    ELSE << <<k>> >>

(* The call of the operation, with what its auth entries list under it.     *)
AuthTree(envelope) ==
    [at \in Addresses(envelope) |->
        IF at = <<>>
        THEN [CallOf(envelope.root, 0) EXCEPT !.calls =
                FlattenSeq([k \in DOMAIN envelope.auth |-> AuthCalls(envelope, k)])]
        ELSE FromAuthInvocation(envelope, at)]

WalkEnvelope(envelope) == IF envelope.invokes THEN << <<>> >> ELSE <<>>

-----------------------------------------------------------------------------
(* What the lifetimes should say, read off the changes: the first written   *)
(* value of a key, or the last pre-image of a key nothing wrote.            *)
ChangesOf(changes, key, kinds) ==
    {i \in DOMAIN changes : /\ changes[i].type = "ttl" /\ changes[i].key = key
                            /\ changes[i].kind \in kinds}

LifetimeOf(changes, key) ==
    LET written == ChangesOf(changes, key, {"created", "updated", "restored"})
        before == ChangesOf(changes, key, {"state"})
    IN  changes[IF written # {} THEN Min(written) ELSE Max(before)].until

TouchedTtls(changes) ==
    {changes[i].key : i \in {j \in DOMAIN changes :
        changes[j].type = "ttl" /\ changes[j].kind # "removed"}}

\* The invocations of an entry from one down, in the order listed, as far as
\* the cap on the depth.
Listed(envelope) ==
    LET listed[at \in Addresses(envelope) \ {<<>>}] ==
            <<Invocation(envelope, at).fn>> \o
            IF Len(at) > MAX_AUTH_DEPTH THEN <<>>
            ELSE FlattenSeq([i \in DOMAIN Invocation(envelope, at).subs |->
                                listed[Append(at, i)]])
    IN  listed

ListedUnder(envelope) ==
    FlattenSeq([k \in DOMAIN envelope.auth |->
        IF Repeats(envelope, k) THEN Tail(Listed(envelope)[<<k>>])
        ELSE Listed(envelope)[<<k>>]])
=============================================================================
