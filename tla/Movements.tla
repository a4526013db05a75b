----------------------------- MODULE Movements -----------------------------
(* What a transaction moved, from the effects Horizon lists for it:         *)
(* src/frontend/src/lib/balance-changes.ts and the exact decimals of        *)
(* lib/format.ts under it, the balance changes tab of features/tx/page.tsx  *)
(* and the totals of components/net-changes.tsx.                            *)
(*                                                                          *)
(* An effect is [type, credited, account, contract, amount, asset,          *)
(* operation]: the type is "account" or "contract" for a movement of a      *)
(* balance, and Absent stands for a field it does not carry.  An amount is  *)
(* a decimal, [whole, fraction] with the fraction its digits, or Malformed. *)
EXTENDS Operations, Selection, Integers, FiniteSetsExt

CONSTANTS
    PRECISION,      \* digits of an amount, 7 in the code (bound)
    DISPLAYED       \* digits a cell shows of them, 5 in the code (bound)

ASSUME DisplayAssumption == PRECISION \in Nat \ {0} /\ DISPLAYED \in 0 .. PRECISION

ASSUME AbsentAssumption == Absent \notin Int /\ Absent # XLM

-----------------------------------------------------------------------------
(* Decimals.  Digits beyond the precision are refused, never rounded.       *)
Digit(digits, i) == IF i \in DOMAIN digits THEN digits[i] ELSE 0

\* The number that the digits of a decimal read as, from the left.
ReadOff(amount) ==
    LET read[n \in 0 .. PRECISION] ==
            IF n = 0 THEN amount.whole
            ELSE 10 * read[n - 1] + Digit(amount.fraction, n)
    IN  read

DecimalToStroops(amount) ==
    IF amount = Malformed \/ amount = Absent \/ Len(amount.fraction) > PRECISION
    THEN Absent
    ELSE ReadOff(amount)[PRECISION]

Trimmed(digits) ==
    LET kept == {i \in DOMAIN digits : digits[i] # 0}
    IN  IF kept = {} THEN <<>> ELSE SubSeq(digits, 1, Max(kept))

\* What is left of a number when its last digits are cut off, one by one.
CutFrom(size) ==
    LET left[n \in 0 .. PRECISION] == IF n = 0 THEN size ELSE left[n - 1] \div 10
    IN  left

FormatAmount(raw) ==
    LET left == CutFrom(IF raw < 0 THEN 0 - raw ELSE raw)
    IN  [negative |-> raw < 0, whole |-> left[PRECISION],
         fraction |-> Trimmed([i \in 1 .. PRECISION |-> left[PRECISION - i] % 10])]

\* What a cell shows; the rest of the digits are cut off.
FormatDecimalDisplay(amount) ==
    IF amount = Malformed THEN Malformed
    ELSE [whole |-> amount.whole,
          fraction |-> Trimmed(SubSeq(amount.fraction, 1,
                                      Min({DISPLAYED, Len(amount.fraction)})))]

-----------------------------------------------------------------------------
Moves(effect) == effect.type \in {"account", "contract"}

\* Mutant: the account that made the call holds what moved.
HolderIsTheCaller(effect) == effect.account

\* An effect of a contract repeats the account that made the call.
BalanceHolderOf(effect) == FirstOf(effect.contract, effect.account)

OperationIdOf(effect) == effect.operation

KeyOf(holder, asset) == <<holder, asset.code, asset.issuer>>

Counted(effect) ==
    /\ Moves(effect)
    /\ Absent \notin {BalanceHolderOf(effect), Named(effect.asset).code,
                      DecimalToStroops(effect.amount)}

CountedUnder(effect) == KeyOf(BalanceHolderOf(effect), Named(effect.asset))

SignedMove(effect) ==
    IF effect.credited THEN DecimalToStroops(effect.amount)
    ELSE 0 - DecimalToStroops(effect.amount)

AddTo(totals, effect) ==
    LET key == CountedUnder(effect)
        at == {i \in DOMAIN totals : totals[i].key = key}
    IN  IF ~Counted(effect) THEN totals
        ELSE IF at = {}
        THEN Append(totals, [key |-> key, stroops |-> SignedMove(effect)])
        ELSE [totals EXCEPT ![CHOOSE i \in at : TRUE].stroops =
                                @ + SignedMove(effect)]

\* The totals after each of the effects.
TotalsOf(effects) ==
    LET totals[n \in 0 .. Len(effects)] ==
            IF n = 0 THEN <<>> ELSE AddTo(totals[n - 1], effects[n])
    IN  totals

(* One total for each holder and asset, in the order they were first met,   *)
(* and those that cancel out dropped.                                       *)
NetBalanceChanges(effects) ==
    LET settled == TotalsOf(effects)[Len(effects)]
        left == Picked(settled, {i \in DOMAIN settled : settled[i].stroops # 0})
    IN  [i \in DOMAIN left |->
            [holder |-> left[i].key[1], assetCode |-> left[i].key[2],
             assetIssuer |-> left[i].key[3],
             amount |-> FormatAmount(left[i].stroops)]]

(* The rows under the totals: each movement by itself, and the operation it *)
(* came out of when that is among those at hand.                            *)
SourceOperation(effect, operations) ==
    LET at == {i \in DOMAIN operations : operations[i].id = OperationIdOf(effect)}
    IN  IF at = {} THEN Absent ELSE PresentOperation(operations[Min(at)])

BalanceDelta(effect) ==
    [credited |-> effect.credited,
     amount |-> FormatDecimalDisplay(effect.amount),
     asset |-> Named(effect.asset)]

MovesAmong(effects) ==
    Picked(effects, {i \in DOMAIN effects : Moves(effects[i])})

BalanceChanges(effects, operations) ==
    LET rows == MovesAmong(effects)
    IN  [net |-> NetBalanceChanges(rows),
         rows |-> [i \in DOMAIN rows |->
                     [holder |-> BalanceHolderOf(rows[i]),
                      delta |-> BalanceDelta(rows[i]),
                      from |-> SourceOperation(rows[i], operations)]]]

-----------------------------------------------------------------------------
(* What Horizon lists of a movement: an amount, an asset, and whose balance, *)
(* of a contract beside the account that made the call.                     *)
HorizonAsset(asset) ==
    /\ asset # Absent
    /\ \/ asset \in {[kind |-> "native"], [kind |-> "pool"]}
       \/ /\ asset = [kind |-> "issued", code |-> asset.code, issuer |-> asset.issuer]
          /\ Absent \notin {asset.code, asset.issuer}

HorizonEffect(effect) ==
    Moves(effect) =>
        /\ effect.credited \in BOOLEAN
        /\ effect.type = "contract" => effect.contract # Absent
        /\ effect.type = "account" => effect.contract = Absent /\ effect.account # Absent
        /\ effect.amount # Absent
        /\ \/ effect.amount = Malformed
           \/ effect.amount \in [whole : Nat, fraction : Seq(0 .. 9)]
        /\ HorizonAsset(effect.asset)

(* What Horizon means: a contract effect is about the contract, and assets  *)
(* are the same when their kind, code and issuer are.  An amount that is    *)
(* not a decimal of the network's precision says nothing.                   *)
TrueHolder(effect) ==
    IF effect.type = "contract" THEN effect.contract ELSE effect.account

Sayable(effects) ==
    {i \in DOMAIN effects :
        /\ Moves(effects[i])
        /\ effects[i].amount # Malformed
        /\ Len(effects[i].amount.fraction) <= PRECISION
        /\ effects[i].asset.kind \in {"native", "issued"}}

\* A decimal in the smallest unit, digit by digit.
TenTo ==
    LET power[n \in 0 .. PRECISION] == IF n = 0 THEN 1 ELSE 10 * power[n - 1]
    IN  power

WorthOf(decimal) ==
    LET worth[n \in 0 .. Len(decimal.fraction)] ==
            IF n = 0 THEN decimal.whole * TenTo[PRECISION]
            ELSE worth[n - 1] + decimal.fraction[n] * TenTo[PRECISION - n]
    IN  worth

InStroops(decimal) == WorthOf(decimal)[Len(decimal.fraction)]

\* What one movement of a list did to a balance.
MovedBy(effects, n, holder, asset) ==
    IF \/ n \notin Sayable(effects)
       \/ TrueHolder(effects[n]) # holder
       \/ effects[n].asset # asset
    THEN 0
    ELSE IF effects[n].credited THEN InStroops(effects[n].amount)
    ELSE 0 - InStroops(effects[n].amount)

ChangeOf(effects, holder, asset) ==
    LET change[n \in 0 .. Len(effects)] ==
            IF n = 0 THEN 0 ELSE change[n - 1] + MovedBy(effects, n, holder, asset)
    IN  change

TrueChange(effects, holder, asset) ==
    ChangeOf(effects, holder, asset)[Len(effects)]

(* Exactly the balances that changed have a line, one each, with the exact  *)
(* sum of what the rows below it say.                                       *)
AddsUp(effects) ==
    LET net == NetBalanceChanges(effects)
        balances == {<<TrueHolder(effects[i]), effects[i].asset>> :
                        i \in Sayable(effects)}
        changed == {b \in balances : TrueChange(effects, b[1], b[2]) # 0}
        LineOf(b) == {i \in DOMAIN net :
                         /\ net[i].holder = b[1]
                         /\ [code |-> net[i].assetCode, issuer |-> net[i].assetIssuer]
                              = Named(b[2])}
    IN  /\ Len(net) = Cardinality(changed)
        /\ \A b \in changed : \E i \in LineOf(b) :
              (IF net[i].amount.negative THEN -1 ELSE 1) * InStroops(net[i].amount)
                = TrueChange(effects, b[1], b[2])
=============================================================================
