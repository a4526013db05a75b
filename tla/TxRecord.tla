------------------------------ MODULE TxRecord ------------------------------
(* The page of one transaction, all its tabs: what Horizon's record of it,  *)
(* its operations and its effects say (Operations, Movements, Signatures),  *)
(* beside the trace its meta or its envelope yields (Trace):                *)
(* src/frontend/src/features/tx/page.tsx, and its row in a history,         *)
(* features/history-table.tsx.  The record is at hand from the start; the   *)
(* trace, and with it the value a call returned, follows when it is decoded.*)
EXTENDS Trace, Movements, Signatures

CONSTANTS
    EFFECTS_LIMIT,  \* effects asked for, 200 in the code (bound)
    Accounts,       \* the addresses that start with a G
    Records         \* the transactions that are read, a sequence of sets of
                    \* them; see RecordFields

VARIABLE record     \* the transaction's record, operations and effects

recordVars == <<traceVars, record>>

(* What Horizon holds of a transaction; "decorated" is the signatures its   *)
(* envelope ends on with their hints, "returned" the value in its meta.     *)
RecordFields ==
    {"meta", "ops", "effects", "envelope", "decorated", "signatures", "source",
     "fee", "memo", "returned"}

ASSUME RecordsAssumption ==
    \A i \in DOMAIN Records : \A r \in Records[i] :
        /\ DOMAIN r = RecordFields
        /\ r.ops \in Seq(ToSet(r.ops))
        /\ r.effects \in Seq(ToSet(r.effects))
        /\ Changed(r.meta.changes)

ASSUME EnvelopesAssumption ==
    \A i \in DOMAIN Records : \A r \in Records[i] :
        /\ Decorated(r.decorated) /\ EndsOn(r.envelope, r.decorated)
        /\ r.signatures \in Seq(Seq(0 .. 255))

ASSUME OperationsAssumption ==
    \A i \in DOMAIN Records : \A r \in Records[i] :
        /\ \A n \in DOMAIN r.ops : HorizonOperation(r.ops[n], Accounts)
        /\ \A m, n \in DOMAIN r.ops : r.ops[m].id = r.ops[n].id => m = n

ASSUME EffectsAssumption ==
    /\ EFFECTS_LIMIT \in Nat
    /\ \A i \in DOMAIN Records : \A r \in Records[i] :
         \A n \in DOMAIN r.effects : HorizonEffect(r.effects[n])

-----------------------------------------------------------------------------
Primary == PresentOperation(Head(record.ops))

IsContractInvocation(op) == op.type = "invoke_host_function" /\ op.invokes

\* The call with its arguments, and what it returned once that is known.
FunctionCall(op) ==
    IF ~IsContractInvocation(op) \/ op.function = Absent THEN Absent
    ELSE [name |-> op.function, args |-> op.args,
          result |-> IF decoded /\ record.returned # "void"
                     THEN record.returned ELSE Absent]

\* The same call as the line of a row, which waits for no value.
CallLine(op) ==
    IF op.function = Absent THEN ActionSummary(PresentOperation(op))
    ELSE [caller |-> op.source_account, to |-> PresentOperation(op).to,
          name |-> op.function, args |-> op.args]

Overview ==
    [from |-> record.source.name,
     interactedWith |-> IF record.ops # <<>> /\ Primary.to \notin Accounts
                        THEN Primary.to ELSE Absent,
     feePaidBy |-> IF record.fee.name \in {Absent, record.source.name}
                   THEN Absent ELSE record.fee.name,
     memo |-> IF record.memo = "none" THEN Absent ELSE record.memo,
     call |-> IF record.ops = <<>> THEN Absent ELSE FunctionCall(Head(record.ops)),
     value |-> IF Len(record.ops) = 1 THEN Value(Primary) ELSE <<>>,
     signatures |-> SignatureRows(record)]

OperationsTable ==
    [i \in DOMAIN record.ops |->
        LET op == PresentOperation(record.ops[i])
        IN  [label |-> op.label, detail |-> op.detail, fromTo |-> FromTo(op),
             value |-> Value(op)]]

\* Only one page of the effects is asked for.
Effects ==
    SubSeq(record.effects, 1, Min({EFFECTS_LIMIT, Len(record.effects)}))

(* A row of a history: the call or the sentence, then, opened, its trace or *)
(* the sentence of each operation, and the net changes.                     *)
HistoryRow ==
    LET op == Head(record.ops)
    IN  [line |-> IF IsContractInvocation(op) THEN CallLine(op)
                  ELSE ActionSummary(PresentOperation(op)),
         steps |-> IF IsContractInvocation(op) THEN RowSays
                   ELSE [i \in DOMAIN record.ops |->
                            ActionSummary(PresentOperation(record.ops[i]))],
         moves |-> NetBalanceChanges(Effects)]

BalanceTab == BalanceChanges(Effects, record.ops)

-----------------------------------------------------------------------------
RecordInit ==
    /\ \E i \in DOMAIN Records : record \in Records[i]
    /\ TraceInit(record.meta)

RecordNext == TraceNext /\ UNCHANGED record

RecordSpec == RecordInit /\ [][RecordNext]_recordVars

-----------------------------------------------------------------------------
(* Nothing the page says of an operation is about another amount, asset or  *)
(* party: in the sentence, in the tables and in the overview, whose call,   *)
(* contract and value are those of the first operation; the returned value  *)
(* is shown of a contract's call only.  (A swap is told by codes, so one    *)
(* between two issuers' assets of one code reads as a payment.)             *)
SaysWhatHappened ==
    /\ \A i \in DOMAIN record.ops : ToldRight(record.ops[i])
    /\ record.ops # <<>> =>
        LET first == Head(record.ops)
        IN  /\ Overview.interactedWith # Absent =>
                 /\ first.type = "invoke_host_function"
                 /\ Overview.interactedWith \in {first.contract, Field(first, "address")}
            /\ Overview.call # Absent =>
                 /\ first.invokes
                 /\ Overview.call.result \in {Absent, record.returned}
                 /\ HistoryRow.line.to \in {first.contract, Field(first, "address")}
            /\ Len(record.ops) > 1 => Overview.value = <<>>
            /\ \A i \in DOMAIN Overview.value :
                 Overview.value[i].amount # Absent =>
                    Overview.value[i] \in TrueAmounts(first)

(* The net changes are the exact sums of the movements, per holder and      *)
(* asset, none missing and none that cancels out                            *)
(* (lib/balance-changes.ts:30-72), as long as one page holds the effects;   *)
(* the row of a history shows the same, and each movement stands beside the *)
(* operation it came out of.                                                *)
NetChangesAddUp ==
    Len(record.effects) <= EFFECTS_LIMIT =>
        /\ AddsUp(record.effects)
        /\ record.ops # <<>> => HistoryRow.moves = BalanceTab.net
        /\ \A i \in DOMAIN BalanceTab.rows :
             LET effect == MovesAmong(record.effects)[i]
             IN  /\ BalanceTab.rows[i].holder = TrueHolder(effect)
                 /\ \A j \in DOMAIN record.ops :
                      record.ops[j].id = effect.operation =>
                        BalanceTab.rows[i].from = PresentOperation(record.ops[j])

(* The hint beside a signature is the one it carries in the envelope, also  *)
(* when Horizon reports the inner signatures of a fee bump beside the whole *)
(* envelope, and no signer is named whose key does not end on it            *)
(* (lib/signatures.ts:50-100, tx/page.tsx:306-361).                         *)
HintsAreTheirOwn == HintsBelong(record, record.decorated)
=============================================================================
