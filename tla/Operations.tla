----------------------------- MODULE Operations -----------------------------
(* How the explorer tells what an operation did: presentOperation of        *)
(* src/frontend/src/lib/activity.ts, the sentence of                        *)
(* components/action-summary.tsx, and the cells of the tables that show the *)
(* same facts (features/tx/page.tsx).                                       *)
(*                                                                          *)
(* An operation is a record with the fields Horizon gives it; those it does *)
(* not carry are absent.  An asset, three fields of Horizon's, is one here: *)
(* [kind, code, issuer], kind "native", "issued" or "pool", or a code no    *)
(* asset can have.  An amount is a plain decimal or Malformed.              *)
EXTENDS Naturals, SequencesExt

CONSTANTS
    Absent,     \* a field that is not there
    Malformed   \* an amount that is no plain decimal

XLM == "XLM"

Field(record, name) == IF name \in DOMAIN record THEN record[name] ELSE Absent

FirstOf(a, b) == IF a # Absent THEN a ELSE b

NoAsset == [code |-> Absent, issuer |-> Absent]

(* An asset as it is shown: XLM, a code of a length the protocol allows, or *)
(* no code; the issuer goes along.                                          *)
Named(asset) ==
    IF asset = Absent THEN NoAsset
    ELSE [code |-> CASE asset.kind = "native" -> XLM
                     [] asset.kind = "issued" -> asset.code
                     [] OTHER -> Absent,
          issuer |-> IF asset.kind = "issued" THEN asset.issuer ELSE Absent]

AmountOf(amount) == IF amount = Malformed THEN Absent ELSE amount

-----------------------------------------------------------------------------
Given(op) == [type |-> op.type, from |-> Field(op, "source_account"),
              to |-> Absent, toHint |-> Absent, detail |-> Absent,
              amount |-> Absent, asset |-> NoAsset,
              sourceAmount |-> Absent, sourceAsset |-> NoAsset,
              buying |-> NoAsset, limit |-> Absent, label |-> op.type]

\* An amount of one asset, from the operation's own two fields.
Moved(op, amount, asset) ==
    [Given(op) EXCEPT !.amount = AmountOf(Field(op, amount)),
                      !.asset = Named(Field(op, asset))]

Between(shown, from, to) == [shown EXCEPT !.from = from, !.to = to]

(* A call: the contract and the function are its first two parameters, and  *)
(* the amount is that of the first transfer or mint it made.                *)
PresentInvoke(op) ==
    LET at == SelectInSeq(op.changes, LAMBDA c : c.type \in {"transfer", "mint"})
        moved == IF at = 0 THEN [amount |-> Absent, asset |-> Absent]
                 ELSE op.changes[at]
        to == FirstOf(Field(op, "address"),
                      IF op.invokes THEN op.contract ELSE Absent)
    IN  [Given(op) EXCEPT
            !.detail = IF op.invokes THEN op.function ELSE Absent,
            !.to = to,
            !.toHint = IF to = Absent THEN "contract" ELSE Absent,
            !.amount = AmountOf(moved.amount),
            !.asset = Named(moved.asset)]

PathPayment(op) ==
    LET received == Named(op.asset)  sent == Named(op.source_asset)
        swapped == /\ received.code # Absent /\ sent.code # Absent
                   /\ received.code # sent.code
    IN  [Between(Moved(op, "amount", "asset"), op.from, op.to) EXCEPT
            !.sourceAmount = AmountOf(op.source_amount),
            !.sourceAsset = sent,
            !.label = IF swapped THEN "swap" ELSE op.type]

\* Mutant: a buy offer is read like a sell offer.
OfferAlwaysSells(op) ==
    [Moved(op, "amount", "selling") EXCEPT !.buying = Named(op.buying),
                                           !.toHint = "order book"]

(* An offer's amount is in the asset it is named after; the other side is   *)
(* what it is to be paid in.                                                *)
Offer(op) ==
    IF op.type = "manage_buy_offer"
    THEN [Moved(op, "amount", "buying") EXCEPT !.buying = Named(op.selling),
                                               !.toHint = "order book"]
    ELSE [Moved(op, "amount", "selling") EXCEPT !.buying = Named(op.buying),
                                                !.toHint = "order book"]

ChangeTrust(op) ==
    LET to == FirstOf(Field(op, "trustee"), Named(op.asset).issuer)
    IN  [Given(op) EXCEPT
            !.from = FirstOf(Field(op, "trustor"), @),
            !.to = to,
            !.toHint = IF to = Absent THEN "liquidity pool" ELSE Absent,
            !.asset = Named(op.asset),
            !.limit = AmountOf(op.limit)]

\* Where an operation without a recipient goes.
Hint(type) ==
    CASE type \in {"liquidity_pool_deposit", "liquidity_pool_withdraw"} -> "liquidity pool"
      [] type \in {"create_claimable_balance", "claim_claimable_balance"} ->
           "claimable balance"
      [] type \in {"extend_footprint_ttl", "restore_footprint"} -> "contract storage"
      [] type \in {"set_options", "manage_data", "bump_sequence"} -> "own account"
      [] OTHER -> Absent

PresentOperation(op) ==
    CASE op.type = "payment" -> Between(Moved(op, "amount", "asset"), op.from, op.to)
      [] op.type \in {"path_payment_strict_send", "path_payment_strict_receive"} ->
           PathPayment(op)
      [] op.type = "create_account" ->
           [Between(Moved(op, "starting_balance", "none"), op.funder, op.account)
              EXCEPT !.asset.code = XLM]
      [] op.type = "account_merge" ->
           Between(Given(op), FirstOf(Field(op, "account"), op.source_account), op.into)
      [] op.type = "invoke_host_function" -> PresentInvoke(op)
      [] op.type \in {"manage_sell_offer", "create_passive_sell_offer",
                      "manage_buy_offer"} -> Offer(op)
      [] op.type = "create_claimable_balance" ->
           [Moved(op, "amount", "asset") EXCEPT !.toHint = Hint(op.type)]
      [] op.type = "clawback" ->
           Between(Moved(op, "amount", "asset"), op.from, op.source_account)
      [] op.type \in {"set_trust_line_flags", "allow_trust"} ->
           [Given(op) EXCEPT !.to = Field(op, "trustor")]
      [] op.type = "change_trust" -> ChangeTrust(op)
      [] OTHER -> [Given(op) EXCEPT !.toHint = Hint(op.type)]

-----------------------------------------------------------------------------
(* The sentence: what it says was done, the assets it names in their order, *)
(* each with the amount beside it, and the address it ends on.              *)
Says(verb, assets, to) == [verb |-> verb, assets |-> assets, to |-> to]

Mention(amount, asset) == [amount |-> amount, asset |-> asset]

AssetMention(shown) == Mention(shown.amount, shown.asset)

Paid(shown) ==
    IF Absent \in {shown.amount, shown.asset.code, shown.to}
    THEN Says("sent a payment", <<>>, Absent)
    ELSE Says("sent", <<AssetMention(shown)>>, shown.to)

PaidByPath(shown) ==
    IF \/ Absent \in {shown.amount, shown.asset.code,
                      shown.sourceAmount, shown.sourceAsset.code}
       \/ shown.sourceAsset.code = shown.asset.code
    THEN Paid(shown)
    ELSE Says("swapped",
              <<Mention(shown.sourceAmount, shown.sourceAsset), AssetMention(shown)>>,
              IF shown.to = shown.from THEN Absent ELSE shown.to)

\* A pool share has no code of its own; a limit of zero retires the line.
Trusted(shown) ==
    IF shown.asset.code = Absent /\ shown.toHint = Absent
    THEN Says("changed a trustline", <<>>, Absent)
    ELSE Says(IF shown.limit = "0" THEN "removed" ELSE "trusted",
              IF shown.asset.code = Absent THEN <<>>
              ELSE <<Mention(IF shown.limit = "0" THEN Absent ELSE shown.limit,
                             shown.asset)>>,
              shown.to)

Offered(shown) ==
    IF Absent \in {shown.amount, shown.asset.code, shown.buying.code}
    THEN Says("placed an offer", <<>>, Absent)
    ELSE Says(IF shown.type = "manage_buy_offer" THEN "offered to buy" ELSE "offered",
              <<AssetMention(shown), Mention(Absent, shown.buying)>>, Absent)

Created(shown) ==
    IF Absent \in {shown.to, shown.amount}
    THEN Says("created an account", <<>>, Absent)
    ELSE Says("created account",
              <<Mention(shown.amount, [code |-> XLM, issuer |-> Absent])>>, shown.to)

ActionSummary(shown) ==
    CASE shown.type = "payment" -> Paid(shown)
      [] shown.type \in {"path_payment_strict_send", "path_payment_strict_receive"} ->
           PaidByPath(shown)
      [] shown.type = "change_trust" -> Trusted(shown)
      [] shown.type \in {"manage_sell_offer", "create_passive_sell_offer",
                         "manage_buy_offer"} -> Offered(shown)
      [] shown.type = "invoke_host_function" -> Says("called", <<>>, shown.to)
      [] shown.type = "create_account" -> Created(shown)
      [] OTHER -> Says("performed", <<>>, Absent)

(* The value of a table's row or of the overview: an amount and its asset.  *)
Value(shown) ==
    IF shown.amount = Absent THEN <<>> ELSE <<AssetMention(shown)>>

(* The addresses an arrow of a table's row joins, or a word for the second. *)
FromTo(shown) ==
    IF shown.from = Absent THEN <<>>
    ELSE <<shown.from>> \o IF shown.to # Absent THEN <<shown.to>>
                           ELSE IF shown.toHint # Absent THEN <<shown.toHint>>
                           ELSE <<>>

-----------------------------------------------------------------------------
(* The fields of Horizon's record of an operation, by its type, as far as   *)
(* the page reads them; there are no others here.  Who is named in them is  *)
(* an account, except that a contract may be called by any address.         *)
FieldsOf(type) ==
    {"id", "type", "source_account"} \cup
    CASE type = "payment" -> {"from", "to", "amount", "asset"}
      [] type \in {"path_payment_strict_send", "path_payment_strict_receive"} ->
           {"from", "to", "amount", "asset", "source_amount", "source_asset"}
      [] type = "create_account" -> {"funder", "account", "starting_balance"}
      [] type = "account_merge" -> {"into"}
      [] type = "invoke_host_function" ->
           {"invokes", "contract", "function", "args", "changes"}
      [] type \in {"manage_sell_offer", "create_passive_sell_offer",
                   "manage_buy_offer"} -> {"amount", "selling", "buying"}
      [] type = "clawback" -> {"from", "amount", "asset"}
      [] type = "change_trust" -> {"asset", "limit"}
      [] OTHER -> {}

AccountFields ==
    {"source_account", "from", "to", "funder", "account", "into", "trustor", "trustee"}

AssetFields == {"asset", "source_asset", "selling", "buying"}

OtherFields ==
    {"id", "type", "amount", "source_amount", "starting_balance", "limit",
     "invokes", "contract", "function", "args", "changes", "address"}

HorizonOperation(op, accounts) ==
    /\ FieldsOf(op.type) \subseteq DOMAIN op
    /\ DOMAIN op \subseteq AccountFields \cup AssetFields \cup OtherFields
    /\ \A f \in AccountFields \cap DOMAIN op : op[f] \in accounts
    /\ \A f \in AssetFields \cap DOMAIN op :
         op[f].kind = "issued" => op[f].issuer \in accounts
    /\ op.type = "invoke_host_function" =>
         op.invokes \in BOOLEAN /\ op.changes \in Seq(ToSet(op.changes))

-----------------------------------------------------------------------------
(* What Horizon's fields mean: the amounts of an operation with the assets  *)
(* they count, what it takes in and gives out, and who receives it.         *)
Counts(op, amount, asset) ==
    {Mention(Field(op, amount), Named(Field(op, asset)))}

TrueAmounts(op) ==
    CASE op.type = "create_account" ->
           {Mention(op.starting_balance, [code |-> XLM, issuer |-> Absent])}
      [] op.type \in {"path_payment_strict_send", "path_payment_strict_receive"} ->
           Counts(op, "amount", "asset") \cup Counts(op, "source_amount", "source_asset")
      [] op.type \in {"manage_sell_offer", "create_passive_sell_offer"} ->
           Counts(op, "amount", "selling")
      [] op.type = "manage_buy_offer" -> Counts(op, "amount", "buying")
      [] op.type = "change_trust" -> Counts(op, "limit", "asset")
      [] op.type = "invoke_host_function" ->
           {Mention(op.changes[i].amount, Named(op.changes[i].asset)) :
              i \in DOMAIN op.changes}
      [] OTHER -> Counts(op, "amount", "asset")

TrueReceivers(op) ==
    CASE op.type = "create_account" -> {op.account}
      [] op.type = "account_merge" -> {op.into}
      [] op.type = "clawback" -> {op.source_account}
      [] op.type = "change_trust" -> {Field(op, "trustee"), Named(op.asset).issuer}
      [] op.type = "invoke_host_function" -> {op.contract, Field(op, "address")}
      [] op.type \in {"set_trust_line_flags", "allow_trust"} -> {Field(op, "trustor")}
      [] OTHER -> {Field(op, "to")}

(* Every amount stands beside the asset it counts, whoever is named as the  *)
(* other party is it, and only a trade of two assets names two of them: the *)
(* one given first.                                                         *)
ToldRight(op) ==
    LET shown == PresentOperation(op)
        said == ActionSummary(shown)
        mentions == {said.assets[i] : i \in DOMAIN said.assets}
                    \cup {Value(shown)[i] : i \in DOMAIN Value(shown)}
    IN  /\ \A m \in mentions : m.amount # Absent => m \in TrueAmounts(op)
        /\ {said.to, shown.to} \subseteq TrueReceivers(op) \cup {Absent}
        /\ said.verb = "swapped" =>
              /\ said.assets[1] \in Counts(op, "source_amount", "source_asset")
              /\ said.assets[2] \in Counts(op, "amount", "asset")
        /\ said.verb \in {"offered", "offered to buy"} =>
              {said.assets[1].asset, said.assets[2].asset}
                = {Named(op.selling), Named(op.buying)}
=============================================================================
