# picomemo in TLA+

Models, model-checking runs and machine-checked proofs for picomemo, an OMEMO
library in C (`omemo.c`, `omemo.h`) with two drivers that bring their own
cryptography (`c25519.c`, `hacl.c`) and an example XMPP client (`example/`), also as
a program of the ESP32. Everything here is translated from the C source; file and
line of every definition are in `PROJECT.json` under `map`.

## 1. The system

### Components

| component | state | operations | what makes it correct |
|---|---|---|---|
| Device store (`omemo.c` 435-512, 744-777) | `struct omemoStore`: identity key, current and previous signed prekey, array of one-time prekeys, `pkcounter` | `omemoSetupStore`, `omemoRefillPreKeys`, `omemoRotateSignedPreKey`, look-up by id, removal of a used prekey (by the caller) | an id a peer holds leads to the key it was announced with, or to none; a store is whole or zero |
| Session (`omemo.c` 516-742, 779-1036) | `struct omemoSession`: role (`init`), identities, ratchet state, the prekey header of the first messages | `omemoInitiateSession`, `omemoEncryptKey`, `omemoDecryptKey`, `omemoHeartbeat` | both ends agree on keys; no key is used twice; nothing is accepted twice; nothing is lost; a failed call changes nothing |
| Skipped message keys (callbacks; `README.md` 153-163, `test/omemo.c`, `example/im.c` 829-866) | keys of messages that have not arrived | `omemoLoadMessageKey`, `omemoStoreMessageKey` | holds exactly the keys of messages still to come; its limit refuses no message that fits |
| Serialization (`omemo.c` 155-358, 561-640, 1114-1286) | none | protobuf reader and writer for store, session, messages; padding, MAC | what is written can be read; what is cut or damaged is refused |
| Message content (`omemo.c` 1038-1110) | none | `omemoEncryptMessage`, `omemoDecryptMessage` | decrypts what was encrypted |
| Crypto drivers (`driver.h`, `hacl.c`, `c25519.c`, `openssl.c`, `mbedtls.c`) | none | X25519, EdDSA, the map between the two curves, SHA-512; HKDF, HMAC, AES | devices built with different drivers understand each other |
| XMPP client engine (`example/xmpp.c`, `xmpp.h`) | `struct xmppClient`: state of the negotiation, features, input and output buffer, stanza counters, SASL context | `xmppIterate`, `xmppFormatStanza`, `xmppSupplyPassword`, `xmppResume`, `xmppEndStream`, the calls around a read and a write | stanzas come out whole, in order and once; both ends count the same stanzas; nothing is sent unprotected that the options forbid; negotiation ends |
| Example client (`example/im.c`) | one store, one session, pending requests, sqlite database | stanza handlers, commands | a session survives a stop anywhere; a reply is matched with its request |
| ESP32 port (`example/esp-im`) | retry counter, event bits, queue of events | WiFi event handler, the task that waits, `app_main`, callbacks that do nothing | tries again until it has an address or has given up |
| yxml, generated amalgamations, tests, build | | | vendored, generated, or not part of the program |

### How they interact

The application owns store and session and hands them to every call; the library
keeps nothing between calls but three callback pointers. During `omemoDecryptKey`
the library calls back: once to load a skipped key (which removes it), then once
for each key it skips. The application brackets the call in a transaction and
undoes the callbacks' work when the call fails (`im.c` 415-425), saves store and
session, and publishes the store's bundle. A peer fetches the bundle, possibly
long before it uses it. Messages travel through servers that may delay, repeat,
reorder, lose or damage them. Which driver a device is built with its peer does
not know.

The example client drives the engine in one loop: it calls `xmppIterate` and does
what the result says (write, read, TLS handshake, ask for the password, handle a
stanza), then calls it again (`im.c` 652-713). The engine does no input or output
of its own; the two share the buffers. On the ESP32 `app_main` first waits for the
WiFi station, which two tasks and the driver's event queue share, and then runs
the client whether the station connected or gave up.

### What is hard

- Messages of several chains arrive in any order, more than once, damaged, or
  after their key is gone. Each receipt may step two chains and a ratchet before
  the MAC is known to be right.
- Any step may fail half-way (randomness, driver, callback). The library puts the
  session back; the callbacks' store is not the library's.
- Ids are 32 bits wide, wrap, and skip 0, which marks an empty slot; peers keep
  old ids, and a restart brings an old store back.
- Both devices may set up a session at the same time, and a bundle that was asked
  for may come after the peer has opened the session.
- The client's database takes the skipped keys and the session in two transactions,
  and the message is shown or sent after both.
- A connection cuts elements anywhere and joins them; buffers are of fixed size;
  the server sends stanzas when it likes, also between two answers.
- The sizes of what is framed depend on the numbers inside, and a parser trusts
  nothing of a message before its MAC.
- Two independent implementations of the same mathematics, one with bytes and one
  with unreduced limbs, have to agree on every bit that travels.

The hazards, each at its line, are in `PROJECT.json` under `hazards`, with the
properties that cover them.

## 2. The modules

```
OmemoStore -+- OmemoDevice
            |
            +- OmemoSession -+- OmemoRatchet  (refines SecureChannel)
                             +- ImClient

XmppClient -+- EspIm
WifiStation-+

Once -+- Wire ---- Formats
      +- Field25519 -+- Curve25519 ---- Hacl ---- Drivers
      +- Sha512 -----+                   |          |
      +- ModOrder -----------------------+          |
      +- Limbs -------------------------------------+

OmemoStore_proofs -+- OmemoDevice_proofs                            (OmemoDevice)
                   +- OmemoSession_proofs -+- OmemoRatchet_proofs   (OmemoRatchet)
                                           +- ImClient_proofs       (ImClient)
XmppClient_proofs ---- XmppOrder_proofs                             (XmppClient)
WifiStation_proofs                                                  (EspIm)
```

- **OmemoStore** has no state of its own: the functions on `struct omemoStore` as
  operators on a record. A key pair is a name, `[seq, boot]`: the n-th key of its
  kind, generated in the b-th run of the program. Randomness is the number of
  draws that still succeed, so every operation fails at each of its draws. The
  loop of `omemoRefillPreKeys` is written closed: slot *i* gets the number
  `IncrementBy(pkcounter, Rank(i))`, where `Rank` is its position among the empty
  slots; that `IncrementBy` is the increment of the code, iterated, is a lemma.
  The record has one field the code lacks: `made`, the number of prekeys
  generated so far, history to speak about wrapped counters.
- **OmemoDevice** is one device over its life: `SetupStore`, `RefillPreKeys`,
  `RotateSignedPreKey`, `RemovePreKey`, `SaveStore`, `AnnounceOmemoBundle`,
  `Restart`. `disk` is the store as last serialized; `offeredPk` and `offeredSpk`
  remember everything that was ever announced, since a peer may still hold it, and
  `unsavedPk` and `unsavedSpk` what was announced from a store that was not saved
  since. After a start whose store does not load, only another start is left.
- **OmemoSession** is the session as operators: `EncryptKeyImpl`,
  `SkipMessageKeys`, `DHRatchet`, `DecryptKeyImpl` and the rest keep the names and
  the order of the code, with every early return. Cryptography is symbolic: a
  shared secret is the pair of keys that went in, a root key the sequence of
  secrets it was derived from, a chain key its root and a number of steps. Two
  ends agree exactly if they derived from the same secrets in the same order.
  A MAC verifies if the message key is the one the message was made with and the
  identities match. What a key, a chain, a session and a message are made of
  (`PubKey`, `ChainKey`, `Session`, `Message`) stands here too, over the devices
  there are (`Device`).
- **OmemoRatchet** puts two devices in a network. `sent[d]` is never emptied, so a
  message may arrive at any time, any number of times or never; `Damaged` adds
  messages whose MAC or header number was changed. `Faults` says what may fail.
  `Rollback` says whether the application undoes the callbacks after a failure,
  as `im.c` does.
- **SecureChannel** is what the two devices are promised: only what the peer sent,
  each message at most once, and in the end, if the network keeps offering.
- **ImClient** is `im.c` above the engine, over the operators of OmemoSession: the
  commands `/omemo` and the one that closes a session, sending, the requests with
  their ids (`pending`, of one request of each kind), the handlers of answers and
  of messages, and the database. A handler runs to its end or the program stops
  at one of the points between its effects: after the transaction of the skipped
  keys, after the save of the session, before the message is shown or formatted.
  A decryption that failed is cancelled, except one that failed for want of
  randomness (`NotRefused`): that is committed and saved, as `im.c` 418 has it.
  `RunIm` starts it again. `Builds` says what it then has for a session: "zero" is
  the code as it is, which clears it; "load" is the code with its commented-out
  call of `LoadSession`. `accepts` is whether `xmppFormatStanza` took the stanza.
  The server is external and answers each request once, in any order; the peer is
  a client of the kind that is never stopped. `taken`, `shown`, `shownagain`,
  `forgot` and `trouble` are history: what was decrypted and saved, what was
  printed, whether the user or a set-up gave a session up, and how many stops,
  refusals and failed set-ups there were.
- **XmppClient** is `xmppIterate`, one action for each way it returns, the loop of
  `im.c` as the actions that give each result its due, a connection, and a server.
  `ret` is the last result: "OK" means that `xmppIterate` is called next, any other
  that it is the application's turn. Bytes are abstracted to *parts*: an element
  is a sequence of parts, of which the first opens and the last closes it; reads
  and writes move any number of parts, and the buffers hold a number of them
  (`InCap`, `OutCap`). `rootclosed` says that the XML parser has closed the element
  it was set up for while skipping, after which it takes no other. `got` and the
  `large`, `lost` and `counted` fields of the server are history. The server is
  external: it answers what the client says as the protocol has it (a feature is
  offered, a password checked, a stanza counted once `<enabled/>` is sent), and
  sends stanzas and `<r/>` when it likes.
- **WifiStation** is `wifi.c`: the task that starts the station and waits for the
  event bits, the event handler with its retry counter, and, external, the driver
  that posts events to the queue between them. `refused` is history.
- **EspIm** composes the two: `app_main` runs the client when the wait ends, the
  client finds a network or not, and a failed assertion or a lost network resets
  the chip, which starts everything anew.
- **Wire** is what `omemo.c` writes and reads, byte by byte: varints, `ParseProtobuf`
  with its field descriptors, `ParseRepeatingField`, the key messages of OMEMO 0.3
  and 2 with header, padding and MAC, the prekey messages around them, the payload,
  the serialized session and store. The MAC is a checksum of the bytes, the
  ciphers a bijection: what is asked is what the formats do to what goes through.
- **Formats** runs it: a buffer is written from some values, is perhaps cut or
  has a byte changed, and is read.
- **Field25519**, **Sha512** and **Curve25519** are `c25519.c`: the field and the
  scalars on little-endian bytes with the carries and constants of the code,
  SHA-512 on whole blocks, the ladder, the points, packing, signing and verifying,
  and the map between the curves. **Hacl** and **ModOrder** are the same functions
  as `hacl.c` computes them: other formulas, other chains, Barrett's reduction, a
  hash that buffers its input. **Limbs** are its field elements: five limbs of 51
  bits in words of 64. **Once** makes TLC compute a value once.
- **Drivers** puts `omemo.c`'s calls above the two: `driver.h` with a driver as a
  parameter, key generation, signing, verifying and the exchange, in both versions.
- **OmemoStore_proofs** and **OmemoSession_proofs** hold the lemmas about the
  operators: what each function of the store and of the session may return, from
  any argument. **OmemoDevice_proofs**, **OmemoRatchet_proofs**,
  **ImClient_proofs**, **XmppClient_proofs**, **XmppOrder_proofs** and
  **WifiStation_proofs** hold the theorems.

Definitions called `Faulty_X` (and `Early_X`, `Unasked_X`) are X with a plausible
mistake; the models do not use them. They show that a property tells the mistake
from the code.

### Choices that matter

- A zeroed key (`Zero`) has no shared secret with any key: X25519 of the drivers
  reports it. The announced bundle includes emptied slots, as the code does.
- `omemoDecryptKey` is one action. The library runs in one thread, and the
  callbacks do not call back into it.
- The sum in `nskips` is taken over the integers; the one place where the code's
  unsigned countdown passes below zero (`omemo.c` 892 and 816) is modelled as a
  negative number, which every limit takes for a huge one.
- `usedpk_id`, `usedspk_id`, `usedek` keep the code's double use.
- A store may be announced before it is saved or after: `README.md` 117-119 asks to
  save after any change and publish, its sample publishes (178) and then saves (189).
  Both kinds of offers are followed while the program runs, and beyond a stop those
  whose store was saved before it.
- `omemo.c` 179 shifts an `int` by seven times the number of the byte, which from the
  fifth byte on is undefined. `Place` has the two outcomes a processor makes:
  the bits are dropped (`Wraps = FALSE`), or come back from the bottom (`TRUE`).
- The curve and the hash of Drivers are small: bytes, carries and control are those
  of the code, but an element has 4 bytes in place of 32 (`F25519_SIZE`) and a word of
  the hash 1 in place of 8 (`WordBytes`). The field is the one mod 2^31 - 19, the
  curve over it has A = 1258, cofactor 8 and a base point of prime order 2^28 + 3625.
  The constants that depend on the field were computed for it as the code's were for
  theirs. Scalars (`RealQ`) and limbs are checked at the size they have in the code.
- The tables of multiples of the base point in `hacl.c` are data; Hacl computes what
  they hold, and their lines are not mapped.
- Hacl works on whole residues where the code works on limbs, and Limbs shows
  that the operations on limbs compute the residues. `reduce` and the conversion to
  bytes are right for limbs as a multiplication leaves them, and are checked there;
  of limbs after an addition, that a multiplication comes first is read off the code.

## 3. The runs

All runs take the modules as they are; the `.cfg` files only give constants.
Deadlock is not checked: every bound (`MaxSend`, `MaxKeys`, ...) is a place where
the model stops and the program would not, and the modules of pure functions stop
when the result is there.

| run | what varies | properties |
|---|---|---|
| `device` (MCDevice) | 2 slots, ids wrap at 3, 6 prekeys and signed prekeys, 3 runs of the program, randomness fails at every draw | `TypeOK`, `IdsDistinct`, `OfferNamesItsKey`, `SignedPreKeyRetained`, `WholeOrNothing`, `LivePreKeysKept` |
| `faults` (MCRatchetFaults) | randomness and driver fail, MACs and numbers are damaged, 3 messages each way, room for 1 skipped key; fair delivery | `TypeOK`, `SkippedKeysPending`, `NothingLost`, `WithinLimitNotRefused`, `ImplementsLiveChannel` |
| `long` (MCRatchetLong) | 4 messages each way, room for 2 skipped keys, heartbeat after 2 | `KeysNeverReused`, `ChainAgreement`, `HeartbeatsAnswered`, `ImplementsChannel` |
| `setup` (MCSetup) | both devices may initiate, from any bundle ever announced or a damaged one; prekeys removed, refilled, rotated | `PreKeyMessageOpens`, `UsedIdIsOwn` |
| `im` (MCIm) | one stop or refusal at any point, failures of randomness, driver and loading callback, 1 command, 2 messages each way; the session cleared or loaded at a start | `KeysNeverReused`, `ShownOnce`, `NextOpens`, `CrossedIsDeaf`, `RequestsEnd` |
| `formats` (MCFormats) | both versions, numbers at every size of a varint, keys and payloads around a block, every cut, every byte changed | `MessageRoundTrip`, `PreKeyRoundTrip`, `BuffersHold`, `SessionRoundTrip`, `StoreRoundTrip` |
| `drivers` (MCDrivers) | both drivers on either side, both versions, a part of signature, message or key replaced; lengths, scalars, encodings and limbs | `SecretsAgree`, `KeyVerifies`, `HashesAgree`, `EncodingsAgree`, `NumbersAgree` |
| `xmpp_stream` (MCXmppStream) | elements of 2 and 4 parts, 3 fit; the server refuses, answers with errors, closes; connections are lost and made anew | `TypeOK`, `DeliveredInOrder` |
| `xmpp_session` (MCXmppSession) | 9 sets of options against 5 offers of the server, with refusals, then a session with stanzas both ways | `OptionsHonoured`, `CountsAgree`, `ReadyMeansNegotiated` |
| `xmpp_live` (MCXmppLive, module EspIm) | the WiFi station comes and goes; right and wrong passwords, two stanzas out, everything cut in pieces | `StationPersists`, `NegotiationEnds`, `AckArrives` |
| `reload` (MCReload) | ids on both sides of a varint limit | `SavedStoreLoads` is violated |
| `limit_refuses` (MCLimitRefuses) | the callback of `README.md` | `WithinLimitNotRefused` is violated |

`ImplementsLiveChannel` contains that no message is accepted twice; `CrossedIsDeaf`
that two devices which both set up a session refuse each other for good.

### Bounds

- *Ids wrap at 3* with 2 slots: the counter wraps within the prekeys of a run,
  while an old prekey is still in the other slot; signed prekeys wrap too.
  `OneByteMax` = 2 puts the varint's limit inside that range.
- *Three runs of the program*: one restart is enough to bring back an old store
  after newer keys were announced; the other can come before the store is saved, so
  that one is set up anew, or after the old store was changed again.
- *3 or 4 messages each way*: enough for a chain of two or more with a message
  missing in it, a ratchet step, the return step, and a late or repeated message
  of the first chain after both.
- *`HeartbeatAt` = 2* stands for 53: a chain reaches it, and a second heartbeat
  could follow.
- *One slot* in the ratchet and client runs: which slot a prekey is in is a question
  for OmemoDevice.
- *ImClient*: `MaxTrouble` = 1, one stop, refusal or failed set-up at any point of any
  handler, while a decryption may fail any number of times; the history before it and the recovery after it are free, and what a
  second one could do it would do to a state the first one leaves. `MaxSend` = 2: a
  message before and one after the stop. `MaxCommands` = 1: a session is asked for
  or given up while the peer sets one up too. With 2 the second `/omemo` can replace the
  id of the first, and `RequestsEnd` holds too (with `MaxSend` = 1; with 2 messages each
  way the run takes too long to be kept). `FirstIds` = {0, 1}: the peer has no
  device, or one. `Callbacks` = "refuse" is `StoreMessageKey` of `im.c`.
- *`InCap` = 3, elements of 2 and 4 parts*: an element may arrive cut, one and a half
  may fill the buffer, and one does not fit at all and takes two reads to skip.
  In `xmpp_live` the buffer (12) holds everything that can be under way: with a full
  one the engine refuses to format, and `AckArrives` is not promised.
- *Two stanzas from the server and two to it*: one can be handed over while the
  next is cut in two, and an acknowledgement can be for the first only.
- *`MaxRetry` = 1* (10 in the code, `wifi.c` 29): the counter is reset, reached
  and left at its limit.
- *`Survives`*: `im.c` goes on after `XMPP_EPASS` and stops at every other error; the
  runs also let an application go on after `XMPP_ESKIP`, which reports no fault.
- A connection is lost only while the client waits between two stanzas: what was
  read of a cut stanza is kept by `xmppResume`, and what then comes of it is
  not in the model.
- *Formats*: keys have the 32 bytes of the code; `Width` is 30 in place of 32, since
  TLC's integers have 32 bits with their sign. The varints keep their sizes of one
  to five bytes. One message of each kind and version is also cut at each place,
  and one key message of each version has each byte increased by 1 or by 128.
- *Drivers*: messages of 0 to 20 bytes meet every place of a block of 16 words of one
  byte; among the three samples of keys is one whose Edwards form has its sign
  set. Among the 24 encodings are the values around p and 2^31, those of y = 1 and -1
  with either sign, and points with a small root. The limbs are those of zero, p - 1, p, 2^255 - 1, a random element
  and the largest that an addition or a subtraction makes. The chains are computed on exponents.

### Fairness

`LiveSpec` of OmemoRatchet has weak fairness of `Delivery(d, k)`: the k-th message of
the peer is handed over undamaged, and the call does not fail. The transport
justifies it: an XMPP server stores messages for a device and archives them. No
fairness is assumed of sending, nor of any particular order. `NothingLost` says why
weak fairness is enough: a message not yet accepted stays acceptable, so delivery
stays enabled.

`EspSpec` has weak fairness of `xmppIterate` and `Loop`, which is what `im.c` 652-713
does: it always calls again and acts on each result (a blocking read returns when
there is something to read); of the task that waits and of the event handler, which
the scheduler of the ESP32 runs; and of the WiFi driver, which answers each attempt
one way or another. `Answers` has weak fairness, since a server answers what it has
read. Nobody has to format a stanza, send one unasked, end the stream or keep the
network up; the properties say what happens if the chip is not reset.

`Spec` of ImClient has weak fairness of the first `READY`, of handling an answer and
of starting the program again, which is the same loop, and of the server. Commands
and messages are the user's and the peer's choice.

### What the violated runs show

1. **A saved store may not load.** `ParseProtobuf` walks the buffer with one
   descriptor for the repeated field 13 and holds later entries to the length of
   the first (`omemo.c` 225-228), but an entry grows with its id's varint (1148).
   A store with ids on both sides of 127/128 is rejected; the tests only
   serialize a store whose ids are all small. `StoreRoundTrip` of the run `formats`
   has it byte by byte: a store comes back if and only if its ids are of one size.
2. **The countdown of skipped keys is wrong after a ratchet step.** `nskips -=
   headern` (892) leaves the number of keys of the *old* chain, and the new chain
   counts down from there, through zero, to 2^64-1. The callback of `README.md`
   compares it with a limit and refuses.

### Where the passing runs stand back

The models contain more behaviour that differs from what a comment says, or that
a caller may not expect. The passing runs choose their constants around it, or
their properties say exactly what happens.

In the library:

- A message that does not fit in the remaining space leaves part of its keys
  behind when it is refused, unless the caller has a transaction; the comment at
  `omemo.c` 867-872 speaks of a check before anything is stored, and the code
  stores key by key (812-818).
- Without a transaction around the decryption (`Rollback = FALSE`) more is lost:
  a damaged message, or a failure of randomness, makes `SkippedKeysPending`,
  `NothingLost` and `ImplementsLiveChannel` fail, since the callbacks keep or lose keys
  that the restored session still has or needs. The runs that pass set
  `Rollback = TRUE`, which is what `im.c` does and `README.md` does not mention.
- A serialized store that is cut between two prekeys is accepted without the rest:
  `ParseRepeatingField` answers 0 at the end of the buffer (`omemo.c` 1192).
  `StoreRoundTrip` says that these are the only cuts.
- A varint of more than five bytes is read in one of two ways (`Place`), where the
  comment above says that higher bits are skipped. The run takes the other way.

- What is announced from a store that is not saved before the program stops is lost:
  the next run may give its ids to other keys, and a message for the announced key
  finds those. The sample of `README.md` (178, 189) leaves room for it.

Between the drivers (`EncodingsAgree` says that the first two are all the differences
on the encoding of a point):

- `hacl.c` refuses a point whose y is not below p, and x = 0 with the sign set
  (6311-6320, 6341-6357); `c25519.c` takes both.
- `c25519.c` chooses a square root by the parity of a value it has not normalized
  (701): a root below about 2^18 (on the small field, below about 2^15) can come out of the
  multiplication as itself plus p, and then x has the other sign.
- `c25519.c` does not check that s of a signature is below the order; `hacl.c` does.
- `c25519.c` does not mask the highest bit of a peer's X25519 key, `hacl.c` does; keys
  that a driver made have it clear.
- `c25519.c` hashes the y that `mx2ey` leaves unnormalized.
- The length that `c25519.c` puts at the end of a hashed message is one word; that it
  fits is an assumption of the modules.

In the client:

- `StoreMessageKey` of `im.c` always fails (`im.c` 865), so messages out of order do,
  and no skipped key is ever in the database: with `Callbacks = "im"`,
  `WithinLimitNotRefused` is violated.
- `RunIm` clears the session, since its `LoadSession` is commented out: after a stop
  the client cannot read what the peer goes on sending. `NextOpens` therefore
  speaks of a session that was not given up: with "zero" no longer than to the
  stop, with "load" beyond it.
- A message is decrypted, saved, and then shown: a stop before that loses it.
- `Random` answers 1 when it fails (`im.c` 825), and 418 tests for less than 0. A
  decryption without randomness is therefore committed and saved, with the session as
  it was, and the payload is decrypted with a key that was never written. The
  properties of `im` hold also then; the last is left to the tag of the payload.
- A bundle that arrives late overwrites a session that is open (`im.c` 344), and
  then nothing the peer sends gets through any more, as when both set one up:
  `CrossedIsDeaf`. The device id of the last sender is kept before its message is
  known to be genuine (`remoteid`), and there is one for all contacts.
- A request is pending although its stanza was not taken (`im.c` 574-575, where the
  comment says that it is not), so it is for good; `RequestsEnd` excludes it as trouble.

In the engine:

- Skipping an oversized stanza does not end (`xmpp.c` 948, against `xmpp.h` 289-292):
  the depth comes back to 1, where the code returns `XMPP_ESKIP`, but skipping goes on
  while it is not 0. The XML parser was set up without the enclosing stream, so
  the next stanza is malformed to it. `DeliveredInOrder` therefore speaks of a
  stream until it fails.
- Output that does not fit is cut short and sent (`xmpp.c` 614 and 573, against `xmpp.h`
  375-377): `xmppFlush` looks at the input buffer, not at the one it flushes. `OutCap`
  is large enough in the runs.
- Stanzas sent before `<enabled/>` are counted by the client and not by the server
  (`xmpp.c` 1102), which a comment at 1083 foresees: with "early" in `ServerMay`,
  `CountsAgree` is violated.
- `xmppResume` keeps `isnegotiationdone` (`xmpp.c` 838), so the client reports that it
  is ready before the new stream is: with "resume" in `AppMay`,
  `ReadyMeansNegotiated` is violated (and a stanza formatted then goes out on the
  unnegotiated stream, against `OptionsHonoured`).
- `XMPP_OPT_ALLOWUNENCRYPTED` is "TLS optional, SCRAM forced." in `xmpp.h` 136, and
  `xmpp.c` 1026-1029 asks only for TLS (or an option of the danger zone): over TLS the
  password goes out by PLAIN when the server offers no SCRAM. `OptionsHonoured` names
  the exception. With {"ALLOWUNENCRYPTED"} against {"STARTTLS", "PLAIN"}, which
  `xmpp_session` has, an invariant without it is violated.
- `XMPP_OPT_NOAUTH` ends in an assertion, since a server that has not
  authenticated the client offers no binding (`xmpp.c` 1043): with {"NOAUTH"} in
  `OptSets`, `ret` becomes "ABORT".
- A challenge that cannot be solved is answered with whatever the context holds
  (`xmpp.c` 823), and a later `<success/>` ends in an assertion.
- The end of a stream may be sent in part, since UNINIT is tested before the
  output (`xmpp.c` 972): "STREAMEND" is returned with `c.out` not empty.
- A refused answer to `<r/>` is not retried (`xmpp.c` 1137), unlike every other
  answer: "EMEM" is returned with `c.i` past the request.

## 4. The proofs

Every theorem holds for all values of the constants: any number of slots and width
of an id, any bounds on messages, keys and restarts, any heartbeat threshold, every
way of handling skipped keys, and every subset of the failures. What is assumed
besides stands in the theorem's `ASSUME`.

### The store (`OmemoDevice_proofs`)

- `TypeCorrect`: `Spec => []TypeOK`
- `PreKeysNumbered`: `Spec => []IdsNumbered`
- `LiveIdsDistinct`: `Spec => []IdsDistinct`
- `StoresWhole`: `Spec => []WholeOrNothing`
- `LivePreKeysSafe`: `Spec => LivePreKeysKept`
- `AnnouncedPreKeysSafe`: `Spec => []OfferNamesItsKey`
- `SignedPreKeysRetained`: `Spec => []SignedPreKeyRetained`

The only assumption is `StoreAssumption`: there is at least one slot, ids have at
least the values 1 and 2, and there are no more slots than ids.

`IdsDistinct` is not inductive: that ids differ now says nothing about the next
one given out. The inductive form is `IdsNumbered`: the id of a live prekey is the
value the counter had `Age` increments ago, and no two live prekeys were generated
as the same one. A refill adds *n* to the counter and to every age; the lemmas
`OldIdAges` and `NewIdAges` say that old and new numbers then still match their
ages, with and without a wrap, `FilledPlaces` that the new ones are numbered 1..n
without gaps or repetition, and `AgesTellIds` that within one turn of the counter
different ages have different ids. `Inv` is `TypeOK /\ IdsNumbered /\
WholeOrNothing`, of the store in memory and of the one on disk, since a restart
exchanges them. `WholeOrNothing` is needed for `LivePreKeysKept`: set-up runs only
on a store that is zero.

About what was announced `OffersInv` adds that each of the two stores *answers*
for every offer of its identity: the offered prekey is numbered in the same way,
whether or not it is still there, and the offered signed prekey's id lies as many
rotations back as its number. An identity is dated by the run of the program that
made it, so that a store set up after a restart answers for no earlier offer.

The proofs are about the closed form of the loop (`Rank`, `IncrementBy`).

### The conversation (`OmemoRatchet_proofs`)

All assume `Rollback`: the program undoes what its callbacks did when a decryption
fails (`im.c` does; without it most of them are false, see section 3).

- `TypeCorrectRatchet`: `Spec => []TypeOK`
- `KeysUsedOnce`: `Spec => []KeysNeverReused`
- `ChainsAgree`: `Spec => []ChainAgreement`
- `KeptKeysPending`: `Spec => []SkippedKeysPending`
- `HeartbeatsBounded`: `Spec => []HeartbeatsAnswered`
- `UsedIdsAreOwn`: `Spec => []UsedIdIsOwn`
- `ChannelImplemented`: `Spec => ImplementsChannel`, the refinement of SecureChannel:
  only what the peer sent is handed over, each message at most once
- `RoomIsEnough`: `Spec => []WithinLimitNotRefused`, with `Callbacks` "array" (the
  store counts what it holds, as in `test/omemo.c`) or "none"
- `NothingIsLost`: `Spec => []NothingLost`, with `Callbacks` other than "none"

None of the properties is inductive. The invariant `Inv` has, besides the types and
well-numbered stores, eight parts for each device (`Talk`), since what one of them
says is kept by the others:

- `Chains`: the sending chain grows from the root key and is as long as `ns` says,
  the receiving chain as long as `nr`, and its root is older, that is shorter,
  than the root key. A root key is a sequence of secrets, so "older" has a length.
- `Sending`: a message's key is of the current chain, below its end, or of a shorter
  root; the key pair in its header tells which; no two messages share a key. The
  parity of the length tells one end's chains from the other's, which is what
  keeps the two from ever using the same key.
- `Receiving`: an established session has heard a genuine message of the chain that
  it receives on. A forged ratchet key therefore never stays in a session.
- `Keeping` and `Accepting`: kept keys and accepted messages lie behind the end of
  the receiving chain and are of different messages. `KeysNeverReused` and "at most
  once" come from this: a key that was used can be neither derived again nor found
  among the kept ones.
- `Unstarted`, `Waiting` and `Roles`: what a session looks like before it has an
  answer, and that of two ends that talk one set the session up. When both did,
  they refuse each other.

`Inv2` adds the counts: `Beating`, that between two heartbeats a message was accepted,
and `Using`, where the prekey id of an established session comes from. `Inv3` adds
`Linked`, that exactly one of two ends that talk is one ratchet step ahead, and
that the other's chain ends where the message of that step says (`pn`), and
`Covered`: the key of each message is used, kept, still to come in the receiving
chain, or in the one chain the peer is ahead. `NothingLost` follows from `Covered`,
and `Linked` is why the keys that a ratchet step skips are all that were missing.

`OmemoSession_proofs` brings every function of the session into the form these
proofs need: for each outcome what it did to the state (`Follows`, `InNewChain`,
`ByKept`), and what was wrong with the message when it failed (`Misses`). The loop
of `SkipMessageKeys` is written closed, as in the model.

`Beating` also shows that `SESSION_HEARTBEAT` implies `nr >= HeartbeatAt`: the branch of
`omemoHeartbeat` that goes back from it without sending is never taken.

### The first message (`OmemoRatchet_proofs`)

- `PreKeyMessagesOpen`: `Spec => []PreKeyMessageOpens`, with `Rollback` and with `MaxMade`
  and `MaxSigned` at most `IdMax`.

This joins the two: `Offers` says that the store answers for every bundle that was
announced, as above, and `Opening` that a session without an answer and its
messages name one bundle, of which the session's root key is made. The two ids
then lead to the bundle's keys (`BundleFound`) and both ends derive one secret
(`FirstKeysAgree`). The hypothesis on the bounds says that the counters of the store
are in their first turn, 2^32 - 1 keys long in the code: after that an id of an old
bundle names another key, and the message is for another key than is found.

### The example client (`ImClient_proofs`)

- `ImStateInv`: `Spec => []Inv`
- `ImKeysNeverReused`: `Spec => []KeysNeverReused`
- `ImShownOnce`: `Spec => []ShownOnce`
- `ImNextOpens`: `Spec => []NextOpens`
- `ImCrossedIsDeaf`: `Spec => []CrossedIsDeaf`

All for any number of messages, commands, stops and failures, both builds, any answer
of the server, and assuming `AsInIm`: the callbacks are those of `im.c`, and the last
derivation of a set-up does not fail ("derive" not in `Faults`, as in the run).
Without the second `NextOpens` and `KeysNeverReused` are false: the failure zeroes a
session that may be in use (`omemo.c` 732), the client saves it, and two such sessions
send on the same chain. Every other failure is allowed, and a stop anywhere.

The actions are first brought into a table (`Effect`): what each of them may do to
the two sessions in memory and on disk, the peer's, the messages and the history. A
session that takes a message takes it as the next of its chain (`Onward`) or the
first of a new one (`Turn`), since the callbacks of `im.c` refuse everything else. None of
the properties is inductive. `Inv` has nine parts:

- `Base`: a session is zero, or sends on the chain of its root key and receives on
  one of a shorter root of the same secret; the database holds no skipped key.
- `OfPeer` and `OfIm`: no root key of the client, in memory, on disk or in a message,
  contains a key pair of its own that is still to be generated, and its sending chain is
  ahead of what it sent on that root. A set-up, a turn or a restart can then not come back
  to an earlier chain. That holds for the session on disk because the client saves it
  before it hands over a message.
- `Numbered` and `Saved`: the bodies of the peer's messages are 1 to n, and the saved
  session is past all that was taken; in memory it is the same while the client runs,
  unless it was given up. `ShownOnce` follows, since a session that is past a
  message refuses it.
- `Rooted`: all that the peer ever sent is of its session's secret, which gives
  `CrossedIsDeaf`.
- `Named` and `Counted`: the identities under each MAC, and that the peer's counter is
  where its chain is.
- `Sync`: the client took the first *T* messages of *K*, and its saved session and the
  peer's are in one of three relations (`Together`). It has none, and the peer
  may have announced one (`Awaits`); it has set one up and heard nothing (`Offers`); or
  both talk (`Talks`), where the client receives on the chain the peer sends on
  (`Level`), or the peer has answered and is one chain further (`Ahead`) and `pn`
  says where the old chain ends. Each says what number every outstanding
  message has in which chain, so that message *T* + 1 is the one that opens.

### The XMPP engine (`XmppClient_proofs`, `XmppOrder_proofs`)

- `XmppTypeCorrect`: `Spec => []TypeOK`
- `OptionsAreHonoured`: `Spec => []OptionsHonoured`
- `ReadyIsNegotiated`: `Spec => []ReadyMeansNegotiated`
- `CountsKept`: `Spec => []CountsAgree`
- `DeliveredInOrderHolds`: `Spec => []DeliveredInOrder`

The first assumes nothing but `XmppAssumption`: sizes are positive, and a server
announces mechanisms and TLS. `Typed` is the types with the sequences spelt out; that
the read position stays inside the input needs where an element ends (`FirstEndIs`),
and that the buffers hold what is put into them what `xmppAppendXml` cuts off.

The next two assume that no session is resumed ("resume" not in `AppMay`): with the
`isnegotiationdone` that `xmppResume` leaves behind both are false (section 3). Neither
property is inductive, since what is sent was decided several calls earlier.
`Negotiation` has three parts: what is on its way to the server was allowed when it was
written and still is (`MayGo`), what is on its way to the client was sent in a state of
the server that lasts (`MayCome`), and `InOrder` what each state of the negotiation
has behind it: a state past TLS that TLS is up or not asked for, a state of SCRAM that
it is not ruled out, `isnegotiationdone` that the server has bound the client. The lemmas
called `...Rows` bring each action of `xmppIterate` into a table: which fields it may
change, and to what.

`CountsKept` assumes no resumption either, and excludes the two flaws of section 3 that
upset the counts: every element fits the output buffer (`OutSize <= OutCap`; the room
that earlier output takes needs no assumption, since the buffer is empty whenever the
application may write), and no message is sent before `<enabled/>` ("early" not in
`ServerMay`). `xmpp_session` runs under just these assumptions. What the client has
counted and what the server has handled differ by what is under way in four places, so
that `Kept` follows whole elements, the ones whose end is still there (`Ends`, `Count`),
through both buffers and both directions, however they are cut. It strengthens
`CountsAgree` by

- `Turns`: until the resource is bound the two sides take turns, with one element under
  way at most. Without it an answer of the server could find a client that has
  moved on.
- `Offered`: a client that asks to be bound by a server without acknowledgements knows
  that none were offered, and never asks for any.
- `Tally`: the counts themselves. `<enable/>` is in front of the first stanza
  (`EnableFirst`), so that the server starts to count where the client does, and what the
  client has counted with what is still to arrive is not ahead of the server's count.

`DeliveredInOrderHolds` is proved with resumption and for every server; it assumes that
the application stops after `XMPP_EXML` ("EXML" not in `Survives`), as `im.c` does with
every such error (704-708): after it the parser is somewhere inside an element.
The property speaks of what the parser has not taken, but whether it is at the
beginning of an element depends on what it took before, and whether a stanza is skipped
on how it was cut and on what the reads bring. The invariant `Ordered` therefore speaks
of all the parts in the input buffer and on the way there (`Whole`), and of `Left`, those
behind the parser's place:

- `Framed`: every element is closed, the next one begins behind it, the parser's place is
  behind an end, and a stanza that is not too large begins within the size of the
  buffer before its end. So a full buffer with no end in it holds a large stanza, and
  none but these are skipped (`Skipping`).
- `Delivered`: `DeliveredInOrder`'s second part, over `Left`. A step takes an end that is
  not numbered, hands over the first numbered one, skips a large one, appends the
  server's next, or loses all that was on the connection; there is a lemma for each
  (`DeliveryDropped`, `DeliveryHanded`, `DeliveryAppended`, `DeliveryLost`).
- `Expects`, `Stepped` and `Arrives`: stanzas come only once the resource is bound, and its
  result comes before the first, so that the negotiation never reads a stanza and
  throws it away.
- `Awake`: a client that skips has input or waits for it, so that a connection is not
  lost, nor a stream opened, in the middle of skipping.

### The WiFi station (`WifiStation_proofs`)

- `StationNeverAlone`: `EspSpec => []StationPersists`, for every `MaxRetry` and every
  client. The invariant relates the retry counter, the refusals since the last
  success and what is in the event queue.

### Only model-checked

- Liveness (`ImplementsLiveChannel`, `NegotiationEnds`, `AckArrives`, `RequestsEnd`), which is
  out of the prover's reach, as everything with `ENABLED`. What keeps a delivery
  enabled is proved: `NothingIsLost`.
- Wire and Formats, the field, the hash and the modules above them: they are
  recursive, so that their results for all inputs need induction over data, or
  are checked on chosen values.

## 5. Not modelled

- *Drivers*: `openssl.c` and `mbedtls.c` (calls of libraries); HMAC, HKDF, AES and GCM,
  which the models take for what they promise; `Hacl_Impl_Ed25519_Ladder_point_mul`,
  `Hacl_Ed25519_sign` and `Hacl_Ed25519_expand_keys`, which no code of picomemo reaches.
- *XmppClient*: the branch that sends `<resume/>`, since `smackidn`, on which it depends,
  is never set; JID parsing, XML slices, base64 and the arithmetic of SCRAM. Whether a
  challenge can be solved is an input.
- *ImClient*: the terminal, sockets and TLS, the reading of XML inside a stanza,
  messages without OMEMO, the log-in commands beyond what EspIm has of them.
- The XML parser (vendored), the generated amalgamations (`omemo.c` through the
  preprocessor, once for each version), tests and build files.
- The sum of two 32-bit counters wrapping (`omemo.c` 888) and a ratchet counter
  reaching 2^32.
- `omemoInitiateSession` failing in its last derivation over an open session
  (`omemo.c` 732): ImClient lets the set-up fail, but not there.
