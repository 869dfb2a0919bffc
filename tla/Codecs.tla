------------------------------- MODULE Codecs -------------------------------
(***************************************************************************)
(* The byte formats of the repository: prekey bundles (crypto and DHT),    *)
(* PQXDH bundles, backup records and the backup container (Rust and        *)
(* TypeScript, and the desktop's restore), proof-of-work challenges and    *)
(* their solutions (relay and its two clients), base64, the linking QR     *)
(* payload, sealed-sender envelopes, blobs sealed to an identity key and   *)
(* padding.  A value is encoded by one side, the bytes may be damaged on   *)
(* the way, and every decoder of the format reads them.                    *)
(*                                                                         *)
(* The widths are scaled: a byte is 0..15, a length or a u32 is one byte,  *)
(* keys, salts, nonces and tags are one or two bytes.  The base64 digits   *)
(* have three bits for a byte of four, as they have six for one of eight.  *)
(* An AEAD (external) returns its plaintext if nothing that it covers was  *)
(* changed and the key is the right one, and fails otherwise.  The fields  *)
(* of a bundle are parsed by libsignal (external).                         *)
(***************************************************************************)
EXTENDS Integers, SequencesExt

CONSTANTS Sample        \* [format -> values to be encoded]

Codec == DOMAIN Sample

VARIABLES codec,        \* format in use
          side,         \* which of its encoders
          value,        \* what is encoded
          secret,       \* the reader has the right passphrase or key
          sent,         \* bytes as encoded
          bytes,        \* bytes as they arrive
          out,          \* what each decoder returned
          stage

vars == <<codec, side, value, secret, sent, bytes, out, stage>>

Ok(v) == [ok |-> TRUE, value |-> v]
Fail == [ok |-> FALSE, value |-> <<>>]
Panic == [ok |-> FALSE, value |-> <<"panic">>]

From(b, i) == SubSeq(b, i, Len(b))

-----------------------------------------------------------------------------
(* Length-prefixed readers: a cursor that is still good, its offset, and what it read *)
Start == [ok |-> TRUE, at |-> 0, out |-> <<>>]
Stop == [ok |-> FALSE, at |-> 0, out |-> <<>>]

WritePrefixed(segment) == <<Len(segment)>> \o segment

ReadU32(b, c) ==
    IF ~c.ok \/ Len(b) - c.at < 1 THEN Stop
    ELSE [ok |-> TRUE, at |-> c.at + 1, out |-> Append(c.out, b[c.at + 1])]

(* Mutant: the declared length is not compared with what is left. *)
ReadPrefixedUnchecked(b, c) ==
    IF ~c.ok \/ Len(b) - c.at < 1 THEN Stop
    ELSE LET end == IF c.at + 1 + b[c.at + 1] > Len(b) THEN Len(b) ELSE c.at + 1 + b[c.at + 1]
         IN  [ok |-> TRUE, at |-> end, out |-> Append(c.out, SubSeq(b, c.at + 2, end))]

ReadPrefixed(b, c) ==
    IF ~c.ok \/ Len(b) - c.at < 1 THEN Stop
    ELSE LET len == b[c.at + 1]
             start == c.at + 1
         IN  IF len > Len(b) - start THEN Stop
             ELSE [ok |-> TRUE, at |-> start + len, out |-> Append(c.out, SubSeq(b, start + 1, start + len))]

(* The fields of a layout, one after the other *)
ReadAll(b, layout) ==
    FoldLeft(LAMBDA c, kind : IF kind = "u32" THEN ReadU32(b, c) ELSE ReadPrefixed(b, c), Start, layout)

WriteAll(fields, layout) ==
    FoldLeft(LAMBDA acc, i : acc \o (IF layout[i] = "u32" THEN <<fields[i]>> ELSE WritePrefixed(fields[i])),
             <<>>, [i \in DOMAIN layout |-> i])

(* A part behind a presence flag, then the end of the bytes: nothing may follow *)
Optional(b, c, layout) ==
    IF ~c.ok \/ Len(b) < c.at + 1 THEN Fail
    ELSE LET rest == From(b, c.at + 2)
             o == ReadAll(rest, layout)
         IN  CASE b[c.at + 1] = 0 -> IF rest = <<>> THEN Ok([fields |-> c.out, option |-> <<>>]) ELSE Fail
               [] b[c.at + 1] = 1 -> IF o.ok /\ o.at = Len(rest)
                                     THEN Ok([fields |-> c.out, option |-> o.out]) ELSE Fail
               [] OTHER -> Fail

(* What libsignal (external) makes of a segment.  A public key is its first byte,      *)
(* whatever follows; a KEM key has its exact length.  A record is a list of fields, a  *)
(* tag and a value each: the last value of a tag counts, unknown tags are skipped, and *)
(* a missing field is 0.  A record is written without the fields that are 0.           *)
IsKey(segment) == Len(segment) >= 1
KeyOf(segment) == SubSeq(segment, 1, 1)
IsKemKey(segment) == Len(segment) = 2
IsRecord(segment) == Len(segment) % 2 = 0

FieldOf(segment, tag) ==
    LET at == {i \in 1..(Len(segment) \div 2) : segment[2 * i - 1] = tag}
    IN  IF at = {} THEN 0 ELSE segment[2 * Max(at)]

RecordOf(segment) == <<FieldOf(segment, 1), FieldOf(segment, 2)>>
SerializeRecord(r) == FlattenSeq([tag \in 1..2 |-> IF r[tag] = 0 THEN <<>> ELSE <<tag, r[tag]>>])

(* A bundle as the segments that are written, and the bundle that segments are parsed  *)
(* into, which keeps them for the properties.                                          *)
Segments(v) ==
    [fields |-> <<v.fields[1], SerializeRecord(v.fields[2])>>,
     option |-> [i \in DOMAIN v.option |-> SerializeRecord(v.option[i])]]

Parsed(s) ==
    [fields |-> <<KeyOf(s.fields[1]), RecordOf(s.fields[2])>>,
     option |-> [i \in DOMAIN s.option |-> RecordOf(s.option[i])], segments |-> s]

(* PreKeyBundle::to_bytes and from_bytes *)
Framed(s) ==
    WriteAll(s.fields, <<"segment", "segment">>)
        \o (IF s.option = <<>> THEN <<0>> ELSE <<1>> \o WriteAll(s.option, <<"segment">>))

ToBytes(v) == Framed(Segments(v))

FromBytes(b) ==
    LET r == Optional(b, ReadAll(b, <<"segment", "segment">>), <<"segment">>)
    IN  IF r.ok /\ IsKey(r.value.fields[1]) /\ IsRecord(r.value.fields[2])
           /\ \A i \in DOMAIN r.value.option : IsRecord(r.value.option[i])
        THEN Ok(Parsed(r.value)) ELSE Fail

(* The DHT's own encoder and decoder of the same bundle: put_field and a cursor that   *)
(* is cut field by field                                                               *)
EncodeBundle(v) ==
    LET s == Segments(v)
    IN  WritePrefixed(s.fields[1]) \o WritePrefixed(s.fields[2])
            \o (IF s.option = <<>> THEN <<0>> ELSE <<1>> \o WritePrefixed(s.option[1]))

TakeField(cursor) ==
    IF Len(cursor) < 1 \/ Len(cursor) - 1 < cursor[1] THEN [ok |-> FALSE, field |-> <<>>, rest |-> <<>>]
    ELSE [ok |-> TRUE, field |-> SubSeq(cursor, 2, cursor[1] + 1), rest |-> From(cursor, cursor[1] + 2)]

(* Mutant: what follows the bundle is ignored. *)
DecodeBundlePrefix(b) ==
    LET i == TakeField(b)
        s == TakeField(i.rest)
        o == TakeField(From(s.rest, 2))
    IN  IF ~i.ok \/ ~IsKey(i.field) \/ ~s.ok \/ ~IsRecord(s.field) \/ s.rest = <<>> THEN Fail
        ELSE IF s.rest[1] = 0 THEN Ok(Parsed([fields |-> <<i.field, s.field>>, option |-> <<>>]))
        ELSE IF s.rest[1] = 1 /\ o.ok /\ IsRecord(o.field)
        THEN Ok(Parsed([fields |-> <<i.field, s.field>>, option |-> <<o.field>>]))
        ELSE Fail

DecodeBundle(b) ==
    LET i == TakeField(b)
        s == TakeField(i.rest)
        o == TakeField(From(s.rest, 2))
    IN  IF ~i.ok \/ ~IsKey(i.field) \/ ~s.ok \/ ~IsRecord(s.field) \/ s.rest = <<>> THEN Fail
        ELSE IF s.rest = <<0>> THEN Ok(Parsed([fields |-> <<i.field, s.field>>, option |-> <<>>]))
        ELSE IF s.rest[1] = 1 /\ o.ok /\ IsRecord(o.field) /\ o.rest = <<>>
        THEN Ok(Parsed([fields |-> <<i.field, s.field>>, option |-> <<o.field>>]))
        ELSE Fail

(* session.rs: registration id, device id, identity, signed prekey id, key, signature, *)
(* Kyber prekey id, key, signature                                                     *)
Pqxdh == <<"u32", "u32", "segment", "u32", "segment", "segment", "u32", "segment", "segment">>

BundleToBytes(v) ==
    WriteAll(v.fields, Pqxdh)
        \o (IF v.option = <<>> THEN <<0>> ELSE <<1>> \o WriteAll(v.option, <<"u32", "segment">>))

(* libsignal's device ids (external): half of what a byte holds, and not 0 *)
DeviceId == 1..7

BundleFromBytes(b) ==
    LET r == Optional(b, ReadAll(b, Pqxdh), <<"u32", "segment">>)
    IN  IF /\ r.ok /\ r.value.fields[2] \in DeviceId
           /\ IsKey(r.value.fields[3]) /\ IsKey(r.value.fields[5]) /\ IsKemKey(r.value.fields[8])
           /\ r.value.option # <<>> => IsKey(r.value.option[2])
        THEN Ok([fields |-> [r.value.fields EXCEPT ![3] = KeyOf(@), ![5] = KeyOf(@)],
                 option |-> IF r.value.option = <<>> THEN <<>> ELSE [r.value.option EXCEPT ![2] = KeyOf(@)],
                 segments |-> r.value])
        ELSE Fail

-----------------------------------------------------------------------------
(* Backup records, Rust *)
SerializeRecords(records) ==
    <<Len(records)>> \o FoldLeft(LAMBDA acc, r : acc \o WritePrefixed(r), <<>>, records)

DeserializeRecords(b) ==
    IF Len(b) < 1 \/ (Len(b) > 0 /\ b[1] = 0) THEN Fail
    ELSE LET c == FoldLeft(LAMBDA acc, i : ReadPrefixed(b, acc), [Start EXCEPT !.at = 1], [i \in 1..b[1] |-> i])
         IN  IF c.ok /\ c.at = Len(b) THEN Ok(c.out) ELSE Fail

(* Backup records, TypeScript *)
SerializeRecordsTS(records) == FlattenSeq(<<<<Len(records)>>>> \o FlattenSeq([i \in DOMAIN records |-> <<<<Len(records[i])>>, records[i]>>]))

RECURSIVE ReadRecords(_, _, _, _)
ReadRecords(b, left, off, acc) ==
    IF left = 0 THEN IF off = Len(b) THEN Ok(acc) ELSE Fail
    ELSE IF off + 1 > Len(b) THEN Fail
    ELSE IF off + 1 + b[off + 1] > Len(b) THEN Fail
    ELSE ReadRecords(b, left - 1, off + 1 + b[off + 1], Append(acc, SubSeq(b, off + 2, off + 1 + b[off + 1])))

DeserializeRecordsTS(b) ==
    IF Len(b) < 1 THEN Fail ELSE IF b[1] = 0 THEN Fail ELSE ReadRecords(b, b[1], 1, <<>>)

(* The AEAD returns the plaintext of an untouched ciphertext under an untouched header *)
(* to a reader with the secret; `covered` is the first byte that it authenticates.     *)
AeadOpens(b, covered) == secret /\ From(b, covered) = From(sent, covered)

(* The container: magic, version, salt, nonce, ciphertext, tag.  No records are not    *)
(* exported, and no bytes are made.                                                    *)
Magic == 14
Version == 1
Tag == 9

Export(records) ==
    IF records = <<>> THEN <<>>
    ELSE <<Magic, Version, 3, 4>> \o SerializeRecords(records) \o <<Tag>>

Import(b) ==
    IF Len(b) < 6 THEN Fail ELSE IF b[1] # Magic \/ b[2] # Version THEN Fail
    ELSE IF ~AeadOpens(b, 3) THEN Fail ELSE DeserializeRecords(SubSeq(b, 5, Len(b) - 1))

ExportBackup(records) ==
    IF records = <<>> THEN <<>>
    ELSE FlattenSeq(<<<<Magic>>, <<Version>>, <<3>>, <<4>>, SerializeRecordsTS(records), <<Tag>>>>)

ImportBackup(b) ==
    IF Len(b) < 6 THEN Fail ELSE IF b[1] # Magic THEN Fail ELSE IF b[2] # Version THEN Fail
    ELSE IF ~AeadOpens(b, 3) THEN Fail ELSE DeserializeRecordsTS(SubSeq(b, 5, Len(b) - 1))

(* Sealed sender: ephemeral key, nonce, ciphertext of sender identity and payload, tag *)
Seal(payload) == <<5, 4>> \o <<7>> \o payload \o <<Tag>>

Open(b) ==
    IF Len(b) < 4 THEN Fail ELSE IF ~AeadOpens(b, 1) THEN Fail ELSE Ok(SubSeq(b, 4, Len(b) - 1))

(* restore_backup of the desktop, whose minimum is that of import *)
RestoreBackup(b) == IF Len(b) < 6 THEN Fail ELSE Import(b)

(* PublicIdentityKey::seal: ephemeral key, nonce, ciphertext, tag.  A key that does    *)
(* not decode is refused, and no bytes are made.                                       *)
SealTo(key, plaintext) == IF IsKey(key) THEN <<5, 4>> \o plaintext \o <<Tag>> ELSE <<>>

(* encrypt_message of the UniFFI binding *)
EncryptMessage(v) == SealTo(v.key, v.plaintext)

(* IdentityKeyPair::open_sealed *)
OpenSealed(b) ==
    IF Len(b) < 3 THEN Fail ELSE IF ~AeadOpens(b, 1) THEN Fail ELSE Ok(SubSeq(b, 3, Len(b) - 1))

(* PaddedSizes: the least bucket that holds the message; a longer one stays as it is *)
Buckets == {2, 4, 8}
BucketOf(len) ==
    LET fits == {n \in Buckets : len <= n}
    IN  IF fits = {} THEN len ELSE CHOOSE n \in fits : \A m \in fits : n <= m

PadMessage(msg) == msg \o [i \in 1..(BucketOf(Len(msg)) - Len(msg)) |-> 0]

(* A receiver, who knows the length from the plaintext *)
Unpad(b) == Ok(SubSeq(b, 1, Len(value)))

-----------------------------------------------------------------------------
(* Challenge::to_wire with preimage_prefix: what a solver must get out of it *)
ToWire(v) == WritePrefixed(v.context) \o v.nonce \o <<v.difficulty>>

(* parseChallengeWire; the nonce has two bytes *)
ParseChallengeWire(b) ==
    IF Len(b) < 4 THEN Fail
    ELSE IF Len(b) < 1 + b[1] + 3 THEN Fail
    ELSE Ok([context |-> SubSeq(b, 2, b[1] + 1), nonce |-> SubSeq(b, b[1] + 2, b[1] + 3), difficulty |-> b[b[1] + 4]])

(* The same in WsRelayClient::solve_challenge, which indexes without a check: a wire   *)
(* that is too short panics.                                                           *)
ParseInSolveChallenge(b) ==
    IF Len(b) < 1 THEN Panic ELSE IF Len(b) < b[1] + 4 THEN Panic
    ELSE Ok([context |-> SubSeq(b, 2, b[1] + 1), nonce |-> SubSeq(b, b[1] + 2, b[1] + 3), difficulty |-> b[b[1] + 4]])

(* Mutant: the partial byte is compared with the mask the wrong way round. *)
MeetsDifficultyLow(digest, difficulty) ==
    LET full == difficulty \div 4
        extra == difficulty % 4
    IN  /\ Len(digest) >= full /\ \A i \in 1..full : digest[i] = 0
        /\ extra = 0 \/ digest[full + 1] % 2^extra = 0

(* meets_difficulty: whole zero bytes, then the masked bits of the next one *)
MeetsDifficulty(digest, difficulty) ==
    LET full == difficulty \div 4
        extra == difficulty % 4
    IN  /\ Len(digest) >= full /\ \A i \in 1..full : digest[i] = 0
        /\ extra = 0 \/ digest[full + 1] \div 2^(4 - extra) = 0

(* pow::verify at the relay *)
PowVerify(digest, difficulty) == difficulty \in 1..(4 * Len(digest)) /\ MeetsDifficulty(digest, difficulty)

(* check_pow_difficulty of the Rust client *)
CheckPowDifficulty(digest, difficulty) ==
    LET full == difficulty \div 4
    IN  IF Len(digest) < full THEN FALSE
        ELSE IF \E i \in 1..full : digest[i] # 0 THEN FALSE
        ELSE difficulty % 4 = 0 \/ digest[full + 1] \div 2^(4 - (difficulty % 4)) = 0

(* meetsDifficulty of the web client *)
MeetsDifficultyTS(digest, difficulty) ==
    LET full == difficulty \div 4
        extra == difficulty % 4
    IN  CASE Len(digest) < full -> FALSE
          [] Len(digest) >= full /\ (\E i \in 1..full : digest[i] # 0) -> FALSE
          [] OTHER -> extra = 0 \/ digest[full + 1] \div 2^(4 - extra) = 0

(* The search for the least counter that passes; none up to the cap on the search *)
LeastCounter(good) ==
    IF good = {} THEN Fail ELSE Ok(CHOOSE c \in good : \A d \in good : c <= d)

(* pow::solve; `hash` gives the digest for each counter. *)
Solve(v) ==
    IF v.difficulty \notin 1..8 THEN Fail
    ELSE LeastCounter({c \in DOMAIN v.hash : MeetsDifficulty(v.hash[c], v.difficulty)})

(* The loop of WsRelayClient::solve_challenge *)
SolveChallenge(v) == LeastCounter({c \in DOMAIN v.hash : CheckPowDifficulty(v.hash[c], v.difficulty)})

(* solvePow of the web client, which refuses what would take too long *)
MaxDifficultyTS == 6
SolvePow(v) ==
    IF v.difficulty > MaxDifficultyTS THEN Fail
    ELSE LeastCounter({c \in DOMAIN v.hash : MeetsDifficultyTS(v.hash[c], v.difficulty)})

-----------------------------------------------------------------------------
(* base64 over digits 0..7 with Pad and Space; a group is four digits and three bytes *)
Pad == 8
Space == 9

B64Encode(data) ==
    FlattenSeq([g \in 1..((Len(data) + 2) \div 3) |->
        LET at(i) == IF 3 * (g - 1) + i <= Len(data) THEN data[3 * (g - 1) + i] ELSE 0
            has(i) == 3 * (g - 1) + i <= Len(data)
        IN  << at(1) \div 2, ((at(1) % 2) * 4) + (at(2) \div 4),
               IF has(2) THEN ((at(2) % 4) * 2) + (at(3) \div 8) ELSE Pad,
               IF has(3) THEN at(3) % 8 ELSE Pad >>])

(* One group of b64_decode *)
B64Group(v) ==
    LET d(i) == IF v[i] = Pad THEN 0 ELSE v[i]
    IN  IF \A i \in 1..4 : v[i] = Pad THEN <<>>
        ELSE <<((d(1) * 2) + (d(2) \div 4)) % 16>>
               \o (IF v[3] # Pad THEN <<((d(2) * 4) % 16) + (d(3) \div 2)>> ELSE <<>>)
               \o (IF v[4] # Pad THEN <<((d(3) * 8) % 16) + d(4)>> ELSE <<>>)

(* Whitespace is dropped.  Padding is counted from the first Pad on, whatever follows  *)
(* it; a group with a Pad ends the loop.                                               *)
B64Decode(text) ==
    LET s == SelectSeq(text, LAMBDA c : c # Space)
        pads == {i \in DOMAIN s : s[i] = Pad}
        first == IF pads = {} THEN Len(s) + 1 ELSE CHOOSE i \in pads : \A j \in pads : i <= j
        groups == [g \in 1..(Len(s) \div 4) |-> SubSeq(s, 4 * g - 3, 4 * g)]
    IN  IF \E i \in DOMAIN s : s[i] > Pad THEN Fail
        ELSE IF Len(s) + 1 - first > 2 \/ Len(s) % 4 # 0 THEN Fail
        ELSE Ok(FlattenSeq([g \in DOMAIN groups |-> B64Group(groups[g])]))

(* The QR payload: two hex digits per byte; an identity key has exactly three bytes.   *)
(* The digits 2 and 3 are letters, written in lower case; 4 and 5 are their upper case *)
EncodeDeviceQr(key) == FlattenSeq([i \in DOMAIN key |-> <<key[i] \div 4, key[i] % 4>>])

Digit(x) == IF x \in {4, 5} THEN x - 2 ELSE x

DecodeDeviceQr(s) ==
    IF \E i \in DOMAIN s : s[i] > 5 THEN Fail
    ELSE IF Len(s) % 2 # 0 THEN Fail
    ELSE IF Len(s) \div 2 # 3 THEN Fail
    ELSE Ok([i \in 1..3 |-> Digit(s[2 * i - 1]) * 4 + Digit(s[2 * i])])

-----------------------------------------------------------------------------
(* The encoders and the decoders of each format *)
Encoded(c, by, v) ==
    CASE c = "bundle" -> IF by = "first" THEN ToBytes(v) ELSE EncodeBundle(v)
      [] c = "pqxdh" -> BundleToBytes(v)
      [] c = "records" -> IF by = "first" THEN SerializeRecords(v) ELSE SerializeRecordsTS(v)
      [] c = "backup" -> IF by = "first" THEN Export(v) ELSE ExportBackup(v)
      [] c = "sealed" -> Seal(v)
      [] c = "challenge" -> ToWire(v)
      [] c = "base64" -> B64Encode(v)
      [] c = "qr" -> EncodeDeviceQr(v)
      [] c = "identity" -> EncryptMessage(v)
      [] c = "padding" -> PadMessage(v)
      [] c = "pow" -> v.digest
      [] c = "solve" -> <<>>

Decoded(c, b) ==
    CASE c = "bundle" -> <<FromBytes(b), DecodeBundle(b)>>
      [] c = "pqxdh" -> <<BundleFromBytes(b)>>
      [] c = "records" -> <<DeserializeRecords(b), DeserializeRecordsTS(b)>>
      [] c = "backup" -> <<Import(b), ImportBackup(b), RestoreBackup(b)>>
      [] c = "sealed" -> <<Open(b)>>
      [] c = "challenge" -> <<ParseChallengeWire(b), ParseInSolveChallenge(b)>>
      [] c = "base64" -> <<B64Decode(b)>>
      [] c = "qr" -> <<DecodeDeviceQr(b)>>
      [] c = "pow" -> <<PowVerify(b, value.difficulty), CheckPowDifficulty(b, value.difficulty),
                        MeetsDifficultyTS(b, value.difficulty)>>
      [] c = "identity" -> <<OpenSealed(b)>>
      [] c = "padding" -> <<Unpad(b)>>
      [] c = "solve" -> <<Solve(value), SolveChallenge(value), SolvePow(value)>>

Init ==
    /\ codec \in Codec /\ side \in {"first", "second"} /\ value \in Sample[codec]
    /\ secret = TRUE /\ sent = <<>> /\ bytes = <<>> /\ out = <<>> /\ stage = "value"

Encode ==
    /\ stage = "value"
    /\ sent' = Encoded(codec, side, value) /\ bytes' = sent'
    /\ stage' = "encoded"
    /\ UNCHANGED <<codec, side, value, secret, out>>

(* Formats that an AEAD protects *)
Authenticated == {"backup", "sealed", "identity"}

(* The bytes are cut, or followed by another one, or one of them is changed. *)
Damage ==
    /\ stage = "encoded" /\ codec \notin {"pow", "solve", "padding"}
    /\ \/ \E i \in 0..(Len(sent) - 1) : bytes' = SubSeq(sent, 1, i)
       \/ \E x \in 0..1 : bytes' = Append(sent, x)
       \/ \E i \in DOMAIN sent, x \in {0, 1, 2, 4, 8, 9} : bytes' = [sent EXCEPT ![i] = x]
    /\ stage' = "damaged"
    /\ UNCHANGED <<codec, side, value, secret, sent, out>>

(* The reader has another passphrase, or is not the recipient. *)
WrongSecret ==
    /\ stage = "encoded" /\ codec \in Authenticated
    /\ secret' = FALSE /\ stage' = "damaged"
    /\ UNCHANGED <<codec, side, value, sent, bytes, out>>

Decode ==
    /\ stage \in {"encoded", "damaged"}
    /\ out' = Decoded(codec, bytes) /\ stage' = "decoded"
    /\ UNCHANGED <<codec, side, value, secret, sent, bytes>>

Next == Encode \/ Damage \/ WrongSecret \/ Decode

Spec == Init /\ [][Next]_vars

-----------------------------------------------------------------------------
(* Every variable has its type. *)
TypeOK ==
    /\ codec \in Codec /\ value \in Sample[codec] /\ secret \in BOOLEAN
    /\ \A i \in DOMAIN bytes : bytes[i] \in 0..15
    /\ stage \in {"value", "encoded", "damaged", "decoded"}

Read == stage = "decoded" /\ codec \notin {"pow", "solve"}

(* All decoders of a format accept the same bytes, damaged or not, and     *)
(* read the same value from them.  How they refuse may differ: the Rust    *)
(* client panics on a challenge that is too short.                         *)
DecodersAgree ==
    Read => \A i, j \in DOMAIN out :
                out[i].ok = out[j].ok /\ (out[i].ok => out[i].value = out[j].value)

(* What a reader of a value should get: nothing, if it was never encoded *)
Expected ==
    CASE codec = "identity" -> IF IsKey(value.key) THEN Ok(value.plaintext) ELSE Fail
      [] codec = "backup" -> IF value = <<>> THEN Fail ELSE Ok(value)
      [] OTHER -> Ok(value)

(* What a decoder returned, without the segments it was parsed from *)
Returned(r) ==
    IF r.ok /\ codec \in {"bundle", "pqxdh"}
      THEN Ok([fields |-> r.value.fields, option |-> r.value.option]) ELSE r

(* The bytes that stand for what a decoder returned, and the bytes it was given: in a  *)
(* bundle the segments it was parsed from, in a QR payload digits of either case.      *)
Written(v) ==
    CASE codec = "bundle" -> Framed(v.segments)
      [] codec = "pqxdh" -> BundleToBytes(v.segments)
      [] OTHER -> Encoded(codec, side, v)

Given == IF codec = "qr" THEN [i \in DOMAIN bytes |-> Digit(bytes[i])] ELSE bytes

(* What either encoder of a format writes, every decoder of it reads back  *)
(* (a bundle published through the DHT or the relay, a backup made in the  *)
(* browser or by the core, a challenge at both clients).  Bytes that were  *)
(* cut, extended or changed are refused, or they are the encoding of what  *)
(* is returned: never a part of a value.  For a bundle that is said of the *)
(* segments, which fill the bytes: what libsignal skips in a segment is    *)
(* lost on it; for a QR payload it is up to the case of the digits.        *)
(* Sealed bytes are refused if anything changed or the secret is wrong.    *)
(* The base64 and challenge decoders do not promise to refuse.  A padded   *)
(* message has the length of a bucket, unless it is longer than all of     *)
(* them.                                                                   *)
ReadsWhatWasWritten ==
    Read =>
        /\ bytes = sent /\ secret => \A i \in DOMAIN out : Returned(out[i]) = Expected
        /\ codec \notin {"base64", "challenge"} =>
             \A i \in DOMAIN out : out[i].ok =>
                 IF codec \in Authenticated THEN bytes = sent /\ secret
                 ELSE Given = Written(out[i].value)
        /\ codec = "padding" => Len(bytes) \in Buckets \/ \A n \in Buckets : Len(bytes) > n

(* The relay and its two clients agree on a proof of work, and it is what  *)
(* the module says it is: the digest, as a number, is below                *)
(* 2^(bits - difficulty).  A solution that a solver returns for a          *)
(* challenge that the relay can have made passes the relay's `verify`, and *)
(* one is found where there is one, by the web client up to the difficulty *)
(* it accepts.                                                             *)
WorkIsLeadingZeros ==
    /\ stage = "decoded" /\ codec = "pow" =>
         LET number == FoldLeft(LAMBDA acc, d : acc * 16 + d, 0, bytes)
         IN  \A i \in DOMAIN out : out[i] = (number < 2^(4 * Len(bytes) - value.difficulty))
    /\ stage = "decoded" /\ codec = "solve" =>
         \A i \in DOMAIN out :
             IF out[i].ok THEN PowVerify(value.hash[out[i].value], value.difficulty)
             ELSE \/ i = 3 /\ value.difficulty > MaxDifficultyTS
                  \/ \A c \in DOMAIN value.hash : ~PowVerify(value.hash[c], value.difficulty)
=============================================================================
