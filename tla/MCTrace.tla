------------------------------ MODULE MCTrace ------------------------------
EXTENDS TxRecord

Text(t) == [kind |-> "text", text |-> t]
Address(a) == [kind |-> "address", text |-> a]

\* A transfer, an event of the token interface without an amount, a burn.
MCShapes ==
    << [name |-> "transfer", type |-> "i128",
        parties |-> <<Address("alice"), Address("bob"), Text("native")>>],
       [name |-> "mint", type |-> "map", parties |-> <<Address("bob")>>],
       [name |-> "burn", type |-> "i128",
        parties |-> <<Address("bob"), Text("USD")>>] >>

Leaf(f) == [fn |-> f, subs |-> <<>>]
Inv(f, subs) == [fn |-> f, subs |-> subs]

NoEnvelope == [invokes |-> FALSE, root |-> "r", auth |-> <<>>]
Envelope(auth) == [invokes |-> TRUE, root |-> "r", auth |-> auth]

\* Depth 3 is past the cap of the configuration.
Entries ==
    { Leaf("r"), Leaf("a"), Inv("r", <<Leaf("b"), Leaf("c")>>),
      Inv("a", <<Inv("b", <<Inv("c", <<Leaf("d")>>)>>), Leaf("e")>>),
      Inv("r", <<Inv("b", <<Inv("c", <<Leaf("d")>>)>>)>>) }

Envelopes ==
    {NoEnvelope, Envelope(<<>>)}
    \cup {Envelope(<<e>>) : e \in Entries}
    \cup {Envelope(<<e, f>>) : e \in Entries, f \in Entries}

Change(kind, type, key, until) ==
    [kind |-> kind, type |-> type, key |-> key, until |-> until]

Changes ==
    {Change(k, "ttl", "x", u) : k \in {"state", "updated", "removed"}, u \in {1, 2}}
    \cup {Change("restored", "ttl", "y", 3), Change("state", "data", "x", 0),
          Change("created", "data", "y", 0), Change("removed", "code", "y", 0),
          Change("updated", "other", "z", 0)}

ChangeLists == UNION {[1 .. n -> Changes] : n \in 0 .. 3}

Plain == [meta |-> "soroban", diagnostics |-> TRUE, flat |-> 0, changes |-> <<>>,
          fees |-> FALSE, digest |-> TRUE, envelope |-> NoEnvelope]

\* A trace that says nothing: a record and a trace meet only in the value a
\* call returned.
Bare == [Plain EXCEPT !.meta = "absent"]

\* Nothing, a stream with nothing else, meta without a stream, and no meta.
MCTransactions ==
    {Bare, Plain, [Plain EXCEPT !.envelope = Envelope(<<Leaf("a")>>)]}
    \cup {[Plain EXCEPT !.diagnostics = FALSE, !.changes = c, !.digest = d] :
             c \in ChangeLists, d \in BOOLEAN}
    \cup {[Plain EXCEPT !.diagnostics = FALSE, !.flat = n, !.fees = f,
                        !.envelope = e] :
             n \in {0, 2, 4}, f \in BOOLEAN, e \in {NoEnvelope, Envelope(<<>>)}}
    \cup {[Plain EXCEPT !.meta = m, !.envelope = e] :
             m \in {"absent", "unreadable", "classic"}, e \in Envelopes}

-----------------------------------------------------------------------------
Key(name, hint) == [name |-> name, hint |-> hint]

Blank ==
    [meta |-> Bare, ops |-> <<>>, effects |-> <<>>, envelope |-> U32(0),
     decorated |-> <<>>, signatures |-> <<>>, source |-> Key("GA", <<1, 0, 0, 2>>),
     fee |-> Key("GA", <<1, 0, 0, 2>>), memo |-> "none", returned |-> Absent]

Native == [kind |-> "native"]
Issued(code, issuer) == [kind |-> "issued", code |-> code, issuer |-> issuer]
PoolShare == [kind |-> "pool"]
Assets == {Native, Issued("USD", "GI"), Issued("USD", "GJ"), PoolShare}
Amounts == {"5", Malformed}
Limits == {"0", "9"}

Op(type) == [id |-> 1, type |-> type, source_account |-> "GA"]

Payments ==
    {Op("payment") @@ [from |-> "GA", to |-> "GB", amount |-> a, asset |-> s] :
        a \in Amounts, s \in Assets \ {PoolShare}}

PathPayments ==
    {Op(t) @@ [from |-> "GA", to |-> to, amount |-> a, asset |-> s,
               source_amount |-> b, source_asset |-> r] :
        t \in {"path_payment_strict_send", "path_payment_strict_receive"},
        to \in {"GA", "GB"}, a \in Amounts, b \in {"7", Malformed},
        s \in Assets \ {PoolShare}, r \in Assets \ {PoolShare}}

Offers ==
    {Op(t) @@ [amount |-> a, selling |-> s, buying |-> b] :
        t \in {"manage_sell_offer", "create_passive_sell_offer", "manage_buy_offer"},
        a \in Amounts, s \in Assets \ {PoolShare}, b \in Assets \ {PoolShare}}

Trustlines ==
    {Op("change_trust") @@ [trustor |-> "GA", asset |-> s, limit |-> l] :
        s \in Assets \ {Native}, l \in Limits}
    \cup {Op("change_trust") @@ [trustee |-> "GI", asset |-> s, limit |-> l] :
            s \in {Issued("USD", "GI")}, l \in Limits}

\* One that moved nothing it reports, and one that minted after a burn.
Calls ==
    {Op("invoke_host_function") @@
       [invokes |-> i, contract |-> "CX", function |-> f, args |-> <<>>,
        changes |-> c] :
        i \in BOOLEAN, f \in {"swap", Absent},
        c \in {<<>>, << [type |-> "burn", amount |-> "7", asset |-> Native],
                       [type |-> "mint", amount |-> "5", asset |-> Native] >>}}
    \cup {Op("invoke_host_function") @@
            [invokes |-> FALSE, contract |-> "CX", function |-> Absent,
             args |-> <<>>, changes |-> <<>>, address |-> "GA"]}

Others ==
    {Op("create_account") @@ [funder |-> "GA", account |-> "GB", starting_balance |-> a] :
        a \in Amounts}
    \cup {Op("account_merge") @@ [account |-> "GA", into |-> "GB"],
          Op("account_merge") @@ [into |-> "GB"]}
    \cup {Op(t) @@ [from |-> "GB", to |-> "GA", amount |-> a, asset |-> s] :
            t \in {"clawback", "create_claimable_balance"}, a \in Amounts,
            s \in Assets \ {Native, PoolShare}}
    \cup {Op(t) @@ [trustor |-> "GB"] : t \in {"allow_trust", "set_trust_line_flags"}}
    \cup {Op(t) : t \in {"liquidity_pool_deposit", "claim_claimable_balance",
                         "extend_footprint_ttl", "set_options", "inflation"}}

Ops == Payments \cup PathPayments \cup Offers \cup Trustlines \cup Calls \cup Others

\* A unit is 100 here, and a cell shows one digit of the two.
Decimal(whole, fraction) == [whole |-> whole, fraction |-> fraction]
Decimals ==
    {Decimal(1, <<>>), Decimal(0, <<0, 5>>), Decimal(0, <<5>>), Decimal(0, <<0, 0, 5>>),
     Malformed}

Effect(type, credited, holder, amount, asset, operation) ==
    [type |-> type, credited |-> credited, account |-> "GA",
     contract |-> IF type = "contract" THEN holder ELSE Absent,
     amount |-> amount, asset |-> asset, operation |-> operation]

AnyEffect ==
    {Effect(t, c, "CX", a, s, 1) :
        t \in {"account", "contract"}, c \in BOOLEAN,
        a \in {Decimal(1, <<>>), Decimal(0, <<0, 5>>)},
        s \in {Issued("USD", "GI"), Issued("USD", "GJ")}}
    \cup {Effect("account", c, "CX", a, Native, Absent) : c \in BOOLEAN, a \in Decimals}
    \cup {Effect("other", FALSE, "CX", Malformed, PoolShare, 2),
          Effect("contract", TRUE, "CY", Decimal(1, <<>>), PoolShare, 2)}

\* Lists up to a page, and of one more than a page.
WithEffects(lists) ==
    [meta : {Bare}, ops : {<<>>}, effects : lists, envelope : {U32(0)},
     decorated : {<<>>}, signatures : {<<>>}, source : {Blank.source},
     fee : {Blank.fee}, memo : {"none"}, returned : {Absent}]

\* One key signs with nothing or with a byte, the other with a byte or with four.
KeysOwn ==
    [hint : {<<1, 0, 0, 2>>}, signature : {<<>>, <<1>>}]
    \cup [hint : {<<2, 0, 0, 1>>}, signature : {<<2>>, <<1, 2, 3, 4>>}]
DecoratedLists == UNION {[1 .. n -> KeysOwn] : n \in 0 .. 2}

\* A transaction, and a fee bump around it under its own and its inner hash.
Signed ==
    {[Blank EXCEPT !.envelope = EnvelopeOf(<<9, 9, 9, 9>>, d), !.decorated = d,
                   !.signatures = SignaturesOf(d)] : d \in DecoratedLists}

Bumped ==
    {[Blank EXCEPT !.envelope = EnvelopeOf(EnvelopeOf(<<9, 9, 9, 9>>, i) \o U32(0), o),
                        !.decorated = o,
                        !.signatures = SignaturesOf(IF inner THEN i ELSE o),
                        !.fee = Key("GF", h)] :
            i \in DecoratedLists, o \in DecoratedLists, inner \in BOOLEAN,
            h \in {Unhinted, <<2, 0, 0, 1>>}}

MCRecords ==
    << {[Blank EXCEPT !.meta = t] : t \in MCTransactions},
       {[Blank EXCEPT !.ops = <<op>>, !.memo = m, !.returned = r] :
          op \in Ops, m \in {"none", "text"}, r \in {Absent, "void", "7"}},
       {[Blank EXCEPT !.ops = <<op, [p EXCEPT !.id = 2]>>, !.effects = e] :
          op \in Payments \cup Calls, p \in Payments,
          e \in {<<Effect("account", TRUE, "CX", Decimal(1, <<>>), Native, i)>> :
                   i \in {1, 2, 3}}},
       WithEffects([1 .. 1 -> AnyEffect]),
       WithEffects([1 .. 2 -> AnyEffect]),
       WithEffects([1 .. 3 -> AnyEffect]),
       WithEffects({<<e, e, e, e>> : e \in AnyEffect}),
       Signed, Bumped >>
=============================================================================
