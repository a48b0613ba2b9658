------------------------------- MODULE Formats -------------------------------
(***************************************************************************)
(* Wire at work: a buffer is written from some values, perhaps cut or      *)
(* damaged on its way, and read again.                                     *)
(***************************************************************************)
EXTENDS Wire

CONSTANTS
  Numbers,      \* counters and ids: around the sizes of a varint
  KeySizes,     \* sizes of an encrypted key
  PayloadSizes  \* sizes of a message's content

ASSUME FormatsAssumption ==
  /\ Numbers \subseteq 0 .. 2^Width - 1
  /\ KeySizes \subseteq 0..48 /\ PayloadSizes \subseteq Nat

VARIABLES
  given,        \* the values, and what happens to the buffer
  got           \* what was read from it

vars == <<given, got>>

Nothing == [ret |-> 1]

(* Keys, all different from each other.                                    *)
SomeBytes(c, n) == [i \in 1..n |-> (37 * c + 11 * i) % 256]
SomeKey(c) == SomeBytes(c, KeyLen)
SomePair(c) == [prv |-> SomeKey(c), pub |-> SomeKey(c + 1)]

SomeSession(numbers) ==
  [remoteidentity |-> SomeKey(1), dhs |-> SomePair(2), dhr |-> SomeKey(4), rk |-> SomeKey(5),
   cks |-> SomeKey(6), ckr |-> SomeKey(7), usedek |-> SomeKey(8), identity |-> SomeKey(9),
   ns |-> numbers[1], nr |-> numbers[2], pn |-> numbers[3],
   usedpk_id |-> numbers[4], usedspk_id |-> numbers[5], init |-> 2]

SomeSignedPreKey(id) ==
  [id |-> id, prv |-> SomeKey(2), pub |-> SomeKey(3), sig |-> SomeBytes(1, 2 * KeyLen)]

(* Prekeys with these ids; an emptied slot is all zeros.                   *)
SomeStore(ids, counter) ==
  [init |-> 1, identity |-> SomePair(1), cursignedprekey |-> SomeSignedPreKey(counter),
   prevsignedprekey |-> SomeSignedPreKey(1), pkcounter |-> counter,
   prekeys |-> [i \in DOMAIN ids |->
                  IF ids[i] = 0
                  THEN [id |-> 0, prv |-> [j \in 1..KeyLen |-> 0], pub |-> [j \in 1..KeyLen |-> 0]]
                  ELSE [id |-> ids[i], prv |-> SomeKey(i), pub |-> SomeKey(i + 9)]]]

Stored(ids) == omemoSerializeStore(SomeStore(ids, Max(Numbers)))

(* What may happen to a buffer: byte "at" is increased by "by", or only    *)
(* the first "cut" bytes arrive.                                           *)
Whole == [at |-> 0, by |-> 0, cut |-> -1]
Damage(n) == {[at |-> at, by |-> by, cut |-> -1] : at \in 1..n, by \in {1, 128}}
Cuts(n) == {[at |-> 0, by |-> 0, cut |-> cut] : cut \in 0 .. n - 1}

Arrived(s, change) ==
  IF change.at # 0 THEN [s EXCEPT ![change.at] = (@ + change.by) % 256]
  ELSE IF change.cut >= 0 THEN SubSeq(s, 1, change.cut)
  ELSE s

Ids == [pk_id : Numbers, spk_id : {1, Max(Numbers)}]

Sent(g) ==
  EncryptKeyImpl(g.version, g.n, g.pn, SomeKey(3), SomeBytes(g.keyn, g.keyn))

SentPreKey(g) == EncryptPreKey(g.version, g.ids, SomeKey(1), SomeKey(2), Sent(g))

(* "room" is the size of the buffer the reader has for the key.            *)
Message(version, n, pn, keyn, change) ==
  [kind |-> "message", version |-> version, n |-> n, pn |-> pn, keyn |-> keyn,
   room |-> OMEMO_KEYSIZE(version), change |-> change]

Messages ==
  UNION {{Message(version, n, pn, keyn, Whole) :
            n \in Numbers, pn \in {0, Max(Numbers)},
            keyn \in KeySizes \cap 0 .. OMEMO_KEYSIZE(version)} : version \in {0, 2}}
  \cup {[Message(2, 0, 0, keyn, Whole) EXCEPT !.room = 32] : keyn \in KeySizes}
  \cup UNION {{Message(version, 0, 200, 32, change) :
                 change \in Damage(Len(Sent(Message(version, 0, 200, 32, Whole))))
                            \cup Cuts(Len(Sent(Message(version, 0, 200, 32, Whole))))} :
              version \in {0, 2}}

PreKey(version, ids, keyn, change) ==
  [Message(version, 0, Max(Numbers), keyn, change) EXCEPT !.kind = "prekey"]
  @@ [ids |-> ids]

SomeIds == [pk_id |-> 300, spk_id |-> 1]

PreKeyMessages ==
  {PreKey(version, ids, 32, Whole) : version \in {0, 2}, ids \in Ids}
  \cup {PreKey(2, ids, 48, Whole) : ids \in Ids}
  \cup UNION {{PreKey(version, SomeIds, 32, change) :
                 change \in Cuts(Len(SentPreKey(PreKey(version, SomeIds, 32, Whole))))} :
              version \in {0, 2}}

Payloads == [kind : {"payload"}, version : {0, 2}, n : PayloadSizes]

Session(numbers, change) == [kind |-> "session", numbers |-> numbers, change |-> change]

Few == {0, 128, Max(Numbers)}

Sessions ==
  {Session(numbers, Whole) : numbers \in [1..5 -> Few]}
  \cup {Session(<<1, 2, 3, 4, 5>>, change) :
          change \in Cuts(Len(omemoSerializeSession(SomeSession(<<1, 2, 3, 4, 5>>))))}

Store(ids, change) == [kind |-> "store", ids |-> ids, change |-> change]

Stores ==
  {Store(ids, Whole) : ids \in [1..2 -> Numbers] \cup [1..3 -> Few]}
  \cup {Store(<<0, 5>>, change) : change \in Cuts(Len(Stored(<<0, 5>>)))}

Init ==
  /\ given \in Messages \cup PreKeyMessages \cup Payloads \cup Sessions \cup Stores
  /\ got = Nothing

Read(kind, result) ==
  given.kind = kind /\ got = Nothing /\ got' = result /\ UNCHANGED given

ReadMessage ==
  /\ given.kind = "message"
  /\ \E s \in {Arrived(Sent(given), given.change)} :
       Read("message", DecryptKeyImpl(given.version, s, 1, Len(s) + 1, given.room))

ReadPreKey ==
  /\ given.kind = "prekey"
  /\ \E s \in {Arrived(SentPreKey(given), given.change)} :
       Read("prekey", DecryptPreKey(given.version, s, given.room))

ReadPayload ==
  Read("payload",
       LET r == omemoEncryptMessage(given.version, SomeBytes(1, IF given.version = 2 THEN 32 ELSE 16),
                                    SomeBytes(5, given.n))
       IN omemoDecryptMessage(given.version, r.key, r.payload))

LoadSession ==
  Read("session",
       omemoDeserializeSession(Arrived(omemoSerializeSession(SomeSession(given.numbers)),
                                       given.change)))

LoadStore ==
  Read("store", omemoDeserializeStore(Arrived(Stored(given.ids), given.change), Len(given.ids)))

Next == ReadMessage \/ ReadPreKey \/ ReadPayload \/ LoadSession \/ LoadStore

Spec == Init /\ [][Next]_vars

----------------------------------------------------------------------------
Done(kind) == given.kind = kind /\ got # Nothing

Intact == given.change = Whole

(* A key message that arrives whole gives back its header and its key, for *)
(* every size of the key and every number of bytes the counters take, and  *)
(* a payload, also one that fills its last block, its content.  A key that *)
(* does not fit the reader's buffer is refused, and so is a message cut    *)
(* anywhere or with any byte changed: header, padding, MAC and what frames *)
(* them.                                                                   *)
MessageRoundTrip ==
  /\ Done("message") =>
       IF ~Intact \/ given.keyn > given.room THEN got.ret # 0
       ELSE got = [ret |-> 0, n |-> given.n, pn |-> given.pn, dh |-> SomeKey(3),
                   key |-> SomeBytes(given.keyn, given.keyn)]
  /\ Done("payload") => got = [ret |-> 0, payload |-> SomeBytes(5, given.n)]

(* A prekey message gives back what it names, and cut anywhere is refused, *)
(* by its own frame or by the message's inside.                            *)
PreKeyRoundTrip ==
  Done("prekey") =>
    IF Intact
    THEN /\ [got EXCEPT !.inner = @.ret] =
              [ret |-> 0, ids |-> given.ids, ik |-> SomeKey(1), ek |-> SomeKey(2), inner |-> 0]
         /\ got.inner.key = SomeBytes(given.keyn, given.keyn)
    ELSE got.ret # 0 \/ got.inner.ret # 0

(* Nothing a session can make overruns the buffers omemo.h sizes; in       *)
(* version 0, and in version 2 without the prekey frame, the size of what  *)
(* is framed takes one byte, as the code assumes.                          *)
BuffersHold ==
  given.kind \in {"message", "prekey"} =>
    LET v == given.version
    IN /\ Len(Sent(given)) <= ENCRYPTED_MAXSIZE(v)
       /\ Len(Sent(given)) - (IF v = 2 THEN 20 ELSE 0) <= 127
       /\ Len(Padded(SomeBytes(1, given.keyn))) <= PAYLOAD_MAXPADDEDSIZE(v)
       /\ given.kind = "prekey" =>
            Len(SentPreKey(given)) <= PREKEYHEADER_MAXSIZE(v) + Len(Sent(given))

(* A saved session fills exactly the buffer it was given and comes back    *)
(* whole; a part of one is refused.                                        *)
SessionRoundTrip ==
  Done("session") =>
    LET session == SomeSession(given.numbers)
    IN /\ Len(omemoSerializeSession(session)) = omemoGetSerializedSessionSize(session)
       /\ IF Intact THEN got = [ret |-> 0, session |-> session] ELSE got.ret # 0

(* A saved store comes back if and only if the ids of its prekeys take     *)
(* equally many bytes: the repeated field must keep the size it had first. *)
(* One that lost its end is refused, unless it lost whole prekeys: then    *)
(* the rest comes back and nothing tells.                                  *)
StoreRoundTrip ==
  Done("store") =>
    LET store == SomeStore(given.ids, Max(Numbers))
        sizes == {GetVarIntSize(given.ids[i]) : i \in DOMAIN given.ids}
        Shorter(n) == [store EXCEPT !.prekeys = SubSeq(@, 1, n)]
        kept == {n \in 0 .. Len(given.ids) - 1 :
                   Len(omemoSerializeStore(Shorter(n))) = given.change.cut}
    IN IF Intact
       THEN /\ Len(omemoSerializeStore(store)) = omemoGetSerializedStoreSize(store)
            /\ got.ret = 0 <=> Cardinality(sizes) = 1
            /\ got.ret = 0 => got.store = store
       ELSE IF kept = {} THEN got.ret # 0
       ELSE got = [ret |-> 0, store |-> Shorter(CHOOSE n \in kept : TRUE)]
=============================================================================
