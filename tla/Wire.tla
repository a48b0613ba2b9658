-------------------------------- MODULE Wire --------------------------------
(***************************************************************************)
(* What omemo.c writes and reads: protobuf, the messages with their        *)
(* padding and MAC, the serialized store and session.  A buffer is a       *)
(* sequence of bytes, a pointer a position in it, an end the position      *)
(* after the last byte.  Version 0 is OMEMO 0.3, version 2 the build with  *)
(* OMEMO2.                                                                 *)
(*                                                                         *)
(* The operators are pure; Formats runs them.  A definition Faulty_X is X  *)
(* with a mistake in it; nothing uses it.                                  *)
(***************************************************************************)
EXTENDS Once, FiniteSets, FiniteSetsExt, SequencesExt

CONSTANTS
  KeyLen,       \* sizeof(omemoKey) (32)
  Width,        \* the bits of uint32_t (32)
  Wraps         \* where a shift past the width puts its bits: see Place

ASSUME WireAssumption ==
  /\ KeyLen \in 1..32 /\ Width \in 29..30 /\ Wraps \in BOOLEAN

OMEMO_EPROTOBUF == -1
OMEMO_ECORRUPT  == -3

PB_UINT32 == 0
PB_LEN    == 2

Null == [next |-> 0]

(* Bytes from..to-1 of a buffer; what is read outside of it is undefined,  *)
(* and here nothing.                                                       *)
Slice(s, from, to) ==
  IF from \in DOMAIN s /\ to - 1 <= Len(s) THEN SubSeq(s, from, to - 1) ELSE <<>>

----------------------------------------------------------------------------
(* Varints.  A number is the set of its bits.                              *)

Bits(x) == {t \in 0 .. Width - 1 : (x \div 2^t) % 2 = 1}

Value(bits) == MapThenSumSet(LAMBDA t : 2^t, bits)

(* Where bit t of the k-th byte of a varint goes.  Shifting an int by its  *)
(* width or more is undefined: processors drop the bits or take the shift  *)
(* modulo the width.                                                       *)
Place(k, t) ==
  IF 7 * k < Width THEN {7 * k + t}
  ELSE IF Wraps THEN {((7 * k) % Width) + t}
  ELSE {}

ParseVarInt(s, at, e) ==
  LET stops == {j \in at .. e - 1 : s[j] < 128}
      last == Min(stops)
      bits == UNION {UNION {Place(j - at, t) : t \in Bits(s[j] % 128)} : j \in at..last}
  IN IF stops = {} THEN Null
     ELSE [next |-> last + 1, v |-> Value(bits \cap 0 .. Width - 1)]

GetVarIntSize(v) == 1 + Cardinality({limit \in {127, 16383, 2097151, 268435455} : v > limit})

(* As many groups of seven bits as hold v, at least one.                   *)
VarInt(v) ==
  LET n == IF v = 0 THEN 1 ELSE Max(Bits(v)) \div 7 + 1
  IN [k \in 1..n |-> ((v \div 2^(7 * (k - 1))) % 128) + (IF k < n THEN 128 ELSE 0)]

FormatVarInt(type, id, v) == <<id * 8 + type>> \o VarInt(v)

----------------------------------------------------------------------------
(* Fields.  A specification is the sequence of the fields from number 1:   *)
(* type, "required" and size, 0 for any.  Field 0 is the zeroed memory     *)
(* before them: a varint that may be there.                                *)

Uint == [type |-> PB_UINT32, required |-> TRUE, v |-> 0]
Optional(field) == [field EXCEPT !.required = FALSE]
Blob(n) == [type |-> PB_LEN, required |-> TRUE, v |-> n]

Field(spec, id) == IF id = 0 THEN Optional(Uint) ELSE spec[id]

Faulty_Consistent(expected, v) == TRUE

(* A fixed size, and also the value the same field had before.             *)
Consistent(expected, v) == expected \in {0, v}

ParseField(s, e, spec, st) ==
  LET type == s[st.at] % 8
      id == s[st.at] \div 8
      Take(r) ==
        IF r = Null \/ ~Consistent(st.v[id], r.v) THEN [st EXCEPT !.ok = FALSE]
        ELSE [ok |-> TRUE, found |-> st.found \cup {id}, v |-> [st.v EXCEPT ![id] = r.v],
              at |-> IF type = PB_LEN THEN r.next + r.v ELSE r.next,
              p |-> IF type = PB_LEN THEN [st.p EXCEPT ![id] = r.next] ELSE st.p]
  IN IF id > Len(spec) \/ type # Field(spec, id).type THEN [st EXCEPT !.ok = FALSE]
     ELSE With(ParseVarInt(s, st.at + 1, e), Take)

RECURSIVE ParseFields(_, _, _, _)
ParseFields(s, e, spec, st) ==
  IF ~st.ok \/ st.at >= e THEN st
  ELSE With(ParseField(s, e, spec, st), LAMBDA next : ParseFields(s, e, spec, next))

Faulty_Complete(st, e, spec) == TRUE

(* Nothing reaches past the end, and no required field is missing.         *)
Complete(st, e, spec) ==
  st.at <= e /\ {id \in DOMAIN spec : spec[id].required} \subseteq st.found

(* The values and the positions of the fields between at and e.            *)
ParseProtobuf(s, at, e, spec) ==
  LET ids == 0 .. Len(spec)
      start == [ok |-> TRUE, at |-> at, found |-> {},
                v |-> [id \in ids |-> Field(spec, id).v], p |-> [id \in ids |-> 0]]
  IN With(ParseFields(s, e, spec, start),
          LAMBDA end : [end EXCEPT !.ok = @ /\ Complete(end, e, spec)])

(* The next field with this number, whatever else comes before it.         *)
RECURSIVE ParseRepeatingField(_, _, _, _)
ParseRepeatingField(s, at, e, fieldid) ==
  LET type == s[at] % 8
      id == s[at] \div 8
      Take(r) ==
        LET next == IF r = Null THEN 0 ELSE IF type = PB_LEN THEN r.next + r.v ELSE r.next
        IN IF r = Null THEN [ok |-> FALSE]
           ELSE IF id = fieldid THEN [ok |-> next <= e, p |-> r.next, v |-> r.v]
           ELSE ParseRepeatingField(s, next, e, fieldid)
  IN IF at >= e THEN [ok |-> at = e, p |-> 0]
     ELSE IF id >= 16 \/ (id = fieldid /\ type # PB_LEN) THEN [ok |-> FALSE]
     ELSE With(ParseVarInt(s, at + 1, e), Take)

----------------------------------------------------------------------------
(* Keys.                                                                   *)

omemoSerializeKey(version, k) == IF version = 2 THEN k ELSE <<5>> \o k

SerLen(version) == IF version = 2 THEN KeyLen ELSE KeyLen + 1

Faulty_GetRawKey(version, s, at) == Slice(s, at, at + KeyLen)

GetRawKey(version, s, at) ==
  IF version = 2 THEN Slice(s, at, at + KeyLen) ELSE Slice(s, at + 1, at + 1 + KeyLen)

FormatKey(id, k) == <<id * 8 + PB_LEN, KeyLen>> \o k

FormatSerializedKey(id, k) ==
  <<id * 8 + PB_LEN, KeyLen + 1>> \o omemoSerializeKey(0, k)

----------------------------------------------------------------------------
(* Sizes (omemo.h).                                                        *)

OMEMO_KEYSIZE(version) == IF version = 2 THEN 48 ELSE 32
PAYLOAD_MAXPADDEDSIZE(version) == IF version = 2 THEN 64 ELSE 48
HEADER_MAXSIZE(version) ==
  IF version = 2 THEN 2 * 6 + (KeyLen + 2) + 2 ELSE 1 + (KeyLen + 3) + 2 * 6 + 2
FULLMSG_MAXSIZE(version) == HEADER_MAXSIZE(version) + PAYLOAD_MAXPADDEDSIZE(version)

Faulty_PREKEYHEADER_MAXSIZE(version) ==
  IF version = 2 THEN 6 * 2 + (KeyLen + 2) * 2 + 3 ELSE 1 + 2 * 6 + (KeyLen + 3) * 2 + 2

PREKEYHEADER_MAXSIZE(version) ==
  IF version = 2 THEN 6 * 2 + (KeyLen + 2) * 2 + 3 ELSE 1 + 2 + 2 * 6 + (KeyLen + 3) * 2 + 2
ENCRYPTED_MAXSIZE(version) ==
  IF version = 2 THEN 2 + 16 + 2 + FULLMSG_MAXSIZE(2) ELSE FULLMSG_MAXSIZE(0) + 8

MACSIZE(version) == IF version = 2 THEN 16 ELSE 8

----------------------------------------------------------------------------
(* Messages.  The cipher and the MAC are the drivers': the cipher is any   *)
(* bijection, and a MAC tells messages apart that differ in one byte.      *)

Aes(s) == [i \in DOMAIN s |-> 255 - s[i]]

Hmac(s, size) ==
  LET sum == MapThenSumSet(LAMBDA i : s[i] + i, DOMAIN s) + Len(s)
  IN [i \in 1..size |-> (sum + i) % 251]

Faulty_GetMac(version, msg) ==
  Hmac(SubSeq(msg, HEADER_MAXSIZE(version) - 10, Len(msg)), MACSIZE(version))

GetMac(version, msg) ==
  IF Len(msg) > FULLMSG_MAXSIZE(version) + 4 THEN <<>> ELSE Hmac(msg, MACSIZE(version))

GetPad(n) == 16 - (n % 16)

Padded(key) == key \o [i \in 1..GetPad(Len(key)) |-> GetPad(Len(key))]

Marker == 3 * 16 + 3

FormatMessageHeader(version, n, pn, dhs, keyn) ==
  IF version = 2
  THEN FormatVarInt(PB_UINT32, 1, n) \o FormatVarInt(PB_UINT32, 2, pn)
       \o FormatKey(3, dhs) \o FormatVarInt(PB_LEN, 4, keyn)
  ELSE <<Marker>> \o FormatSerializedKey(1, dhs) \o FormatVarInt(PB_UINT32, 2, n)
       \o FormatVarInt(PB_UINT32, 3, pn) \o FormatVarInt(PB_LEN, 4, keyn)

FormatPreKeyMessage(version, pk_id, spk_id, ik, ek, msgsz) ==
  IF version = 2
  THEN FormatVarInt(PB_UINT32, 1, pk_id) \o FormatVarInt(PB_UINT32, 2, spk_id)
       \o FormatKey(3, ik) \o FormatKey(4, ek) \o FormatVarInt(PB_LEN, 5, msgsz)
  ELSE <<Marker>> \o FormatVarInt(PB_UINT32, 5, 0) \o FormatVarInt(PB_UINT32, 1, pk_id)
       \o FormatVarInt(PB_UINT32, 6, spk_id) \o FormatSerializedKey(3, ik)
       \o FormatSerializedKey(2, ek) \o FormatVarInt(PB_LEN, 4, msgsz)

(* What EncryptKeyImpl writes for a session that is set up.                *)
EncryptKeyImpl(version, n, pn, dhs, key) ==
  LET body == FormatMessageHeader(version, n, pn, dhs, Len(Padded(key))) \o Aes(Padded(key))
  IN IF version = 2
     THEN <<1 * 8 + PB_LEN, 16>> \o GetMac(2, body) \o <<2 * 8 + PB_LEN, Len(body)>> \o body
     ELSE body \o GetMac(0, body)

(* And for one that waits for its first answer.                            *)
EncryptPreKey(version, ids, ik, ek, msg) ==
  FormatPreKeyMessage(version, ids.pk_id, ids.spk_id, ik, ek, Len(msg)) \o msg

Corrupt(code) == [ret |-> code]

(* What is between the header and the key: the MAC and the padding.        *)
Opened(version, s, f, from, to, realmac, max) ==
  LET encn == f.v[4]
      dh == IF version = 2 THEN 3 ELSE 1
      n == IF version = 2 THEN 1 ELSE 2
      Unpad(tmp) ==
        IF tmp[encn] > 16 \/ tmp[encn] > encn \/ encn - tmp[encn] > max
        THEN Corrupt(OMEMO_ECORRUPT)
        ELSE [ret |-> 0, n |-> f.v[n], pn |-> f.v[n + 1], dh |-> GetRawKey(version, s, f.p[dh]),
              key |-> SubSeq(tmp, 1, encn - tmp[encn])]
  IN IF encn < 16 \/ encn % 16 # 0 \/ encn > PAYLOAD_MAXPADDEDSIZE(version)
     THEN Corrupt(OMEMO_ECORRUPT)
     ELSE IF GetMac(version, Slice(s, from, to)) # realmac THEN Corrupt(OMEMO_ECORRUPT)
     ELSE With(Aes(Slice(s, f.p[4], f.p[4] + encn)), Unpad)

WhisperMessage(version) ==
  IF version = 2 THEN <<Uint, Uint, Blob(KeyLen), Blob(0)>>
  ELSE <<Blob(KeyLen + 1), Uint, Uint, Blob(0)>>

MacAndMessage == <<Blob(16), Blob(0)>>

(* Version 2: a MAC and the message it covers.                             *)
OpenFramed(s, outer, max) ==
  LET from == outer.p[2]
      to == outer.p[2] + outer.v[2]
      Inside(f) ==
        IF ~f.ok THEN Corrupt(OMEMO_EPROTOBUF)
        ELSE Opened(2, s, f, from, to, Slice(s, outer.p[1], outer.p[1] + 16), max)
  IN IF ~outer.ok THEN Corrupt(OMEMO_EPROTOBUF)
     ELSE With(ParseProtobuf(s, from, to, WhisperMessage(2)), Inside)

(* Version 0: a marker, the message, its MAC.                              *)
OpenMarked(s, at, e, max) ==
  LET Inside(f) ==
        IF ~f.ok THEN Corrupt(OMEMO_EPROTOBUF)
        ELSE Opened(0, s, f, at, e - 8, Slice(s, e - 8, e), max)
  IN IF e - at < 9 \/ s[at] # Marker THEN Corrupt(OMEMO_ECORRUPT)
     ELSE With(ParseProtobuf(s, at + 1, e - 8, WhisperMessage(0)), Inside)

(* Reads the message between at and e of a buffer; the key it holds may    *)
(* have "max" bytes.                                                       *)
DecryptKeyImpl(version, s, at, e, max) ==
  IF version = 0 THEN OpenMarked(s, at, e, max)
  ELSE With(ParseProtobuf(s, at, e, MacAndMessage), LAMBDA outer : OpenFramed(s, outer, max))

KeyExchange(version) ==
  IF version = 2 THEN <<Uint, Uint, Blob(KeyLen), Blob(KeyLen), Blob(0)>>
  ELSE <<Uint, Blob(KeyLen + 1), Blob(KeyLen + 1), Blob(0), Optional(Uint), Uint>>

(* A prekey message: the ids and keys it names, and what is in it.         *)
DecryptPreKey(version, s, max) ==
  LET spk == IF version = 2 THEN 2 ELSE 6
      ek == IF version = 2 THEN 4 ELSE 2
      msg == IF version = 2 THEN 5 ELSE 4
      Inside(f) ==
        IF ~f.ok THEN Corrupt(OMEMO_EPROTOBUF)
        ELSE [ret |-> 0, ids |-> [pk_id |-> f.v[1], spk_id |-> f.v[spk]],
              ik |-> GetRawKey(version, s, f.p[3]), ek |-> GetRawKey(version, s, f.p[ek]),
              inner |-> DecryptKeyImpl(version, s, f.p[msg], f.p[msg] + f.v[msg], max)]
  IN IF version = 0 /\ (s = <<>> \/ s[1] # Marker) THEN Corrupt(OMEMO_ECORRUPT)
     ELSE With(ParseProtobuf(s, IF version = 2 THEN 1 ELSE 2, Len(s) + 1, KeyExchange(version)),
               Inside)

----------------------------------------------------------------------------
(* The payload of a message.                                               *)

(* The first half of the key encrypts a version 0 payload, and its         *)
(* authentication tag travels behind it in the key message.                *)
omemoEncryptMessage(version, k, payload) ==
  IF version = 2
  THEN LET d == Aes(Padded(payload)) IN [key |-> k \o Hmac(d, 16), payload |-> d]
  ELSE [key |-> k \o Hmac(payload, 16), payload |-> Aes(payload)]

omemoDecryptMessage(version, key, s) ==
  LET n == Len(s)
      d == Aes(s)
  IN IF version = 2
     THEN IF Len(key) # 48 \/ n < 16 \/ n % 16 # 0 THEN Corrupt(OMEMO_ECORRUPT)
          ELSE IF Hmac(s, 16) # SubSeq(key, 33, 48) \/ d[n] > n THEN Corrupt(OMEMO_ECORRUPT)
          ELSE [ret |-> 0, payload |-> SubSeq(d, 1, n - d[n])]
     ELSE IF Len(key) < 32 \/ Hmac(d, Len(key) - 16) # SubSeq(key, 17, Len(key))
          THEN Corrupt(OMEMO_ECORRUPT)
          ELSE [ret |-> 0, payload |-> d]

----------------------------------------------------------------------------
(* The store and the session as they are saved.  Signatures are twice as   *)
(* long as keys.                                                           *)

FormatSignature(id, sig) == FormatVarInt(PB_LEN, id, 2 * KeyLen) \o sig

SerializePreKey(pk) ==
  FormatVarInt(PB_LEN, 13, 1 + GetVarIntSize(pk.id) + 2 * (KeyLen + 2))
  \o FormatVarInt(PB_UINT32, 1, pk.id) \o FormatKey(2, pk.prv) \o FormatKey(3, pk.pub)

SerializeSignedPreKey(id, spk) ==
  FormatVarInt(PB_UINT32, id, spk.id) \o FormatKey(id + 1, spk.prv)
  \o FormatKey(id + 2, spk.pub) \o FormatSignature(id + 3, spk.sig)

(* What comes before the prekeys.                                          *)
SerializeBase(store) ==
  FormatVarInt(PB_UINT32, 1, store.init)
  \o FormatKey(2, store.identity.prv) \o FormatKey(3, store.identity.pub)
  \o SerializeSignedPreKey(4, store.cursignedprekey)
  \o SerializeSignedPreKey(8, store.prevsignedprekey)
  \o FormatVarInt(PB_UINT32, 12, store.pkcounter)

omemoSerializeStore(store) ==
  SerializeBase(store)
  \o FlattenSeq([i \in DOMAIN store.prekeys |-> SerializePreKey(store.prekeys[i])])

omemoGetSerializedStoreSize(store) ==
  (KeyLen + 2) * 6 + (2 + 2 * KeyLen) * 2 + 1 * 4 + GetVarIntSize(store.init)
  + GetVarIntSize(store.cursignedprekey.id) + GetVarIntSize(store.prevsignedprekey.id)
  + GetVarIntSize(store.pkcounter)
  + MapThenSumSet(LAMBDA i : 2 + 1 + GetVarIntSize(store.prekeys[i].id) + 2 * (KeyLen + 2),
                  DOMAIN store.prekeys)

Key == Blob(KeyLen)

StoreFields ==
  <<Uint, Key, Key, Uint, Key, Key, Blob(2 * KeyLen), Uint, Key, Key, Blob(2 * KeyLen), Uint,
    Optional(Blob(0))>>

(* The bytes of field id that was found in s.                              *)
Bytes(s, f, id) == Slice(s, f.p[id], f.p[id] + f.v[id])

SignedPreKeyAt(s, f, id) ==
  [id |-> f.v[id], prv |-> Bytes(s, f, id + 1), pub |-> Bytes(s, f, id + 2),
   sig |-> Bytes(s, f, id + 3)]

(* The prekeys from "at" on, "max" of them at most; one that is malformed  *)
(* is the end of them unless it is malformed inside.                       *)
RECURSIVE PreKeysAt(_, _, _, _)
PreKeysAt(s, at, max, prekeys) ==
  LET Take(r, f) ==
        IF ~f.ok THEN Corrupt(OMEMO_EPROTOBUF)
        ELSE PreKeysAt(s, r.p + r.v, max,
                       Append(prekeys, [id |-> f.v[1], prv |-> Bytes(s, f, 2), pub |-> Bytes(s, f, 3)]))
      Inside(r) ==
        IF ~r.ok \/ r.p = 0 THEN [ret |-> 0, prekeys |-> prekeys]
        ELSE With(ParseProtobuf(s, r.p, r.p + r.v, <<Uint, Key, Key>>), LAMBDA f : Take(r, f))
  IN IF Len(prekeys) = max THEN [ret |-> 0, prekeys |-> prekeys]
     ELSE With(ParseRepeatingField(s, at, Len(s) + 1, 13), Inside)

StoreAt(s, f, keys) ==
  IF keys.ret # 0 THEN Corrupt(keys.ret)
  ELSE [ret |-> 0,
        store |-> [init |-> f.v[1], identity |-> [prv |-> Bytes(s, f, 2), pub |-> Bytes(s, f, 3)],
                   cursignedprekey |-> SignedPreKeyAt(s, f, 4),
                   prevsignedprekey |-> SignedPreKeyAt(s, f, 8),
                   pkcounter |-> f.v[12], prekeys |-> keys.prekeys]]

omemoDeserializeStore(s, max) ==
  With(ParseProtobuf(s, 1, Len(s) + 1, StoreFields),
       LAMBDA f : IF ~f.ok THEN Corrupt(OMEMO_EPROTOBUF)
                  ELSE With(PreKeysAt(s, 1, max, <<>>), LAMBDA keys : StoreAt(s, f, keys)))

omemoSerializeSession(session) ==
  FlattenSeq(<<
    FormatKey(1, session.remoteidentity), FormatKey(2, session.dhs.prv),
    FormatKey(3, session.dhs.pub), FormatKey(4, session.dhr), FormatKey(5, session.rk),
    FormatKey(6, session.cks), FormatKey(7, session.ckr),
    FormatVarInt(PB_UINT32, 8, session.ns), FormatVarInt(PB_UINT32, 9, session.nr),
    FormatVarInt(PB_UINT32, 10, session.pn), FormatKey(11, session.usedek),
    FormatVarInt(PB_UINT32, 12, session.usedpk_id),
    FormatVarInt(PB_UINT32, 13, session.usedspk_id),
    FormatVarInt(PB_UINT32, 14, session.init), FormatKey(15, session.identity)>>)

omemoGetSerializedSessionSize(session) ==
  (KeyLen + 2) * 9 + 1 * 6 + GetVarIntSize(session.ns) + GetVarIntSize(session.nr)
  + GetVarIntSize(session.pn) + GetVarIntSize(session.usedpk_id)
  + GetVarIntSize(session.usedspk_id) + GetVarIntSize(session.init)

SessionFields ==
  <<Key, Key, Key, Key, Key, Key, Key, Uint, Uint, Uint, Key, Uint, Uint, Uint, Key>>

SessionAt(s, f) ==
  IF ~f.ok THEN Corrupt(OMEMO_EPROTOBUF)
  ELSE [ret |-> 0,
        session |-> [
          remoteidentity |-> Bytes(s, f, 1),
          dhs |-> [prv |-> Bytes(s, f, 2), pub |-> Bytes(s, f, 3)],
          dhr |-> Bytes(s, f, 4), rk |-> Bytes(s, f, 5), cks |-> Bytes(s, f, 6),
          ckr |-> Bytes(s, f, 7), ns |-> f.v[8], nr |-> f.v[9], pn |-> f.v[10],
          usedek |-> Bytes(s, f, 11), usedpk_id |-> f.v[12], usedspk_id |-> f.v[13],
          init |-> f.v[14], identity |-> Bytes(s, f, 15)]]

omemoDeserializeSession(s) ==
  With(ParseProtobuf(s, 1, Len(s) + 1, SessionFields), LAMBDA f : SessionAt(s, f))
=============================================================================
