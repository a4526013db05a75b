----------------------------- MODULE Signatures -----------------------------
(* Who signed a transaction: src/frontend/src/lib/signatures.ts, which      *)
(* reads the hints of the signatures off the end of the envelope without    *)
(* decoding it, and the rows of features/tx/page.tsx.                       *)
(*                                                                          *)
(* An envelope is a sequence of bytes; a signature is the sequence of its   *)
(* own.  An account is [name, hint], the hint Absent when its name is not a *)
(* key the page can decode.                                                 *)
EXTENDS Integers, SequencesExt

CONSTANT Unhinted   \* no hint, no signer or no parse

ASSUME UnhintedAssumption == Unhinted \notin Seq(Seq(0 .. 255))

U32At(bytes, at) ==
    ((bytes[at] * 256 + bytes[at + 1]) * 256 + bytes[at + 2]) * 256 + bytes[at + 3]

Padded(length) == length + ((4 - (length % 4)) % 4)

\* The bytes that the first signatures of a list take, with their hints.
OffsetOf(signatures) ==
    LET offset[n \in 0 .. Len(signatures)] ==
            IF n = 0 THEN 0 ELSE offset[n - 1] + 8 + Padded(Len(signatures[n]))
    IN  offset

\* Mutant: the bytes of a signature are not compared.
ParsedAtTrusting(envelope, at, signature) ==
    U32At(envelope, at + 4) = Len(signature)

\* One entry is as expected: its length and every byte of its body.
ParsedAt(envelope, at, signature) ==
    /\ U32At(envelope, at + 4) = Len(signature)
    /\ SubSeq(envelope, at + 8, at + 7 + Len(signature)) = signature

(* The vector of signatures ends every envelope, and its size follows from  *)
(* the signatures Horizon reports.  Any mismatch discards all of it.        *)
ExtractSignatureHints(envelope, signatures) ==
    LET tail == 4 + OffsetOf(signatures)[Len(signatures)]
        start == Len(envelope) - tail + 1
        entry(i) == start + 4 + OffsetOf(signatures)[i - 1]
    IN  IF \/ signatures = <<>>
           \/ Len(envelope) < tail
           \/ U32At(envelope, start) # Len(signatures)
           \/ \E i \in DOMAIN signatures :
                 ~ParsedAt(envelope, entry(i), signatures[i])
        THEN Unhinted
        ELSE [i \in DOMAIN signatures |->
                SubSeq(envelope, entry(i), entry(i) + 3)]

(* The rows: a signature, its hint when the envelope could be read, and the *)
(* account of the transaction whose key ends on it; the one that pays the   *)
(* fee is looked at last and wins.                                          *)
SignatureRows(record) ==
    LET hints == ExtractSignatureHints(record.envelope, record.signatures)
        known == {a \in {record.source, record.fee} : a.hint # Unhinted}
        signer(hint) ==
            IF record.fee \in known /\ record.fee.hint = hint THEN record.fee.name
            ELSE IF record.source \in known /\ record.source.hint = hint
            THEN record.source.name
            ELSE Unhinted
    IN  [i \in DOMAIN record.signatures |->
            [signature |-> record.signatures[i],
             hint |-> IF hints = Unhinted THEN Unhinted ELSE hints[i],
             signer |-> IF hints = Unhinted THEN Unhinted ELSE signer(hints[i])]]

-----------------------------------------------------------------------------
(* An envelope: what it wraps and the signatures over it, each [hint,       *)
(* signature].  A fee bump wraps a whole envelope.                          *)
U32(n) == <<0, 0, 0, n>>

Entry(decorated) ==
    decorated.hint \o U32(Len(decorated.signature)) \o decorated.signature
    \o [i \in 1 .. Padded(Len(decorated.signature)) - Len(decorated.signature) |-> 0]

EntriesOf(decorated) ==
    LET entries[n \in 0 .. Len(decorated)] ==
            IF n = 0 THEN <<>> ELSE entries[n - 1] \o Entry(decorated[n])
    IN  entries[Len(decorated)]

EnvelopeOf(body, decorated) == body \o U32(Len(decorated)) \o EntriesOf(decorated)

\* What can end an envelope: 20 signatures at most, of 64 bytes at most.
Decorated(list) ==
    /\ list \in Seq(ToSet(list)) /\ Len(list) <= 20
    /\ \A d \in ToSet(list) :
         /\ d = [hint |-> d.hint, signature |-> d.signature]
         /\ d.hint \in Seq(0 .. 255) /\ Len(d.hint) = 4
         /\ d.signature \in Seq(0 .. 255) /\ Len(d.signature) <= 64

EndsOn(envelope, decorated) ==
    /\ envelope \in Seq(0 .. 255)
    /\ \E n \in 0 .. Len(envelope) :
         envelope = EnvelopeOf(SubSeq(envelope, 1, n), decorated)

SignaturesOf(decorated) == [i \in DOMAIN decorated |-> decorated[i].signature]

(* What Horizon reports beside an envelope: its own signatures, or, of a fee *)
(* bump asked for by its inner hash, the inner transaction's, the last of   *)
(* which is over another hash than the one that ends the envelope.          *)
Reported(signatures, decorated) ==
    \/ signatures = SignaturesOf(decorated)
    \/ /\ signatures # <<>> /\ decorated # <<>>
       /\ Len(Last(signatures)) = Len(Last(decorated).signature)
       /\ Last(signatures) # Last(decorated).signature

(* The hint beside a signature is the one it carries in the envelope, every *)
(* hint is found when Horizon reports the envelope's own signatures, and a  *)
(* named signer has that hint.                                              *)
HintsBelong(record, decorated) ==
    LET rows == SignatureRows(record)
    IN  /\ \A i \in DOMAIN rows : rows[i].hint # Unhinted =>
             /\ i \in DOMAIN decorated
             /\ decorated[i] = [hint |-> rows[i].hint, signature |-> rows[i].signature]
        /\ record.signatures = SignaturesOf(decorated) =>
             \A i \in DOMAIN rows : rows[i].hint = decorated[i].hint
        /\ \A i \in DOMAIN rows : rows[i].signer # Unhinted =>
             \E a \in {record.source, record.fee} :
                a.name = rows[i].signer /\ a.hint = rows[i].hint
=============================================================================
