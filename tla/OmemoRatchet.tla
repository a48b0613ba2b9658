---------------------------- MODULE OmemoRatchet ----------------------------
(***************************************************************************)
(* Two devices that talk through omemo.c over a network that loses,        *)
(* delays, reorders, repeats and damages messages, on a source of          *)
(* randomness and a crypto driver that may fail.  Every action is one call *)
(* of the library by one device, in whatever order the devices make them.  *)
(***************************************************************************)
EXTENDS OmemoSession

CONSTANTS
  Initiators,   \* those that set up a session from the peer's bundle
  Faults,       \* what may fail: "random", "derive", "crypto"
  Noise,        \* what the network damages: "mac", "n", "bundle"
  Rollback,     \* does a failed decryption undo the callbacks' changes?
  MaxSend,      \* bound: messages encrypted by one device
  MaxMade,      \* bound: prekeys generated in one store
  MaxSigned     \* bound: signed prekeys generated in one store

ASSUME RatchetAssumption ==
  /\ IsFiniteSet(Device) /\ Cardinality(Device) = 2
  /\ Initiators \subseteq Device
  /\ Faults \subseteq {"random", "derive", "crypto"}
  /\ Noise \subseteq {"mac", "n", "bundle"}
  /\ Rollback \in BOOLEAN
  /\ MaxSend \in Nat /\ MaxMade \in Nat /\ MaxSigned \in Nat

VARIABLES
  store,        \* store[d]: struct omemoStore of device d
  session,      \* session[d]: its struct omemoSession with the peer
  skipped,      \* skipped[d]: the skipped message keys it keeps
  fresh,        \* fresh[d]: how many ratchet key pairs it generated
  offered,      \* offered[d]: the bundles it announced
  sent,         \* sent[d]: the messages it encrypted, all in the network
  accepted,     \* accepted[d]: bodies of the peer's messages it decrypted
  replayed      \* replayed[d]: those of them it decrypted more than once

vars == <<store, session, skipped, fresh, offered, sent, accepted, replayed>>

Peer(d) == CHOOSE e \in Device : e # d

Fault == Faults \cup {"none"}

(* What a peer that fetches the bundle of store st can be handed.          *)
Bundles(d, st) ==
  {[signed |-> TRUE, ik |-> Pub(d, "ik", st.identity),
    spk |-> Pub(d, "spk", st.cursignedprekey.kp), spk_id |-> st.cursignedprekey.id,
    pk |-> Pub(d, "pk", st.prekeys[i].kp), pk_id |-> st.prekeys[i].id] : i \in Slot}

NewStore == omemoSetupStore(1, NumPreKeys + 3).store

NewKey(d) == <<d, "ek", fresh[d] + 1, 1>>

Init ==
  /\ store = [d \in Device |-> NewStore]
  /\ session = [d \in Device |-> ZeroSession]
  /\ skipped = [d \in Device |-> {}]
  /\ fresh = [d \in Device |-> 0]
  /\ offered = [d \in Device |-> Bundles(d, NewStore)]
  /\ sent = [d \in Device |-> {}]
  /\ accepted = [d \in Device |-> {}]
  /\ replayed = [d \in Device |-> {}]

----------------------------------------------------------------------------
(* Keeping the store: see OmemoDevice.                                     *)

RemovePreKey(d) ==
  \E i \in Slot :
    /\ session[d].init \in {SESSION_READY, SESSION_HEARTBEAT}
    /\ session[d].usedpk_id # 0
    /\ store[d].prekeys[i].id = session[d].usedpk_id
    /\ store' = [store EXCEPT ![d].prekeys[i] = NoPreKey]
    /\ UNCHANGED <<session, skipped, fresh, offered, sent, accepted, replayed>>

RefillPreKeys(d) ==
  /\ store[d].made + Cardinality(EmptySlots(store[d].prekeys)) <= MaxMade
  /\ store' = [store EXCEPT ![d] = omemoRefillPreKeys(@, 1, NumPreKeys).store]
  /\ UNCHANGED <<session, skipped, fresh, offered, sent, accepted, replayed>>

RotateSignedPreKey(d) ==
  /\ store[d].cursignedprekey.kp.seq < MaxSigned
  /\ store' = [store EXCEPT ![d] = omemoRotateSignedPreKey(@, 1, 2).store]
  /\ UNCHANGED <<session, skipped, fresh, offered, sent, accepted, replayed>>

Announce(d) ==
  /\ offered' = [offered EXCEPT ![d] = @ \cup Bundles(d, store[d])]
  /\ UNCHANGED <<store, session, skipped, fresh, sent, accepted, replayed>>

----------------------------------------------------------------------------
(* The session.                                                            *)

(* A bundle that was damaged on the way fails the signature check.         *)
Fetched(d) ==
  offered[d] \cup
  (IF "bundle" \in Noise THEN {[b EXCEPT !.signed = FALSE] : b \in offered[d]} ELSE {})

Initiated(d, r) ==
  /\ session' = [session EXCEPT ![d] = r.session]
  /\ fresh' = [fresh EXCEPT ![d] = IF r.ret = 0 THEN @ + 1 ELSE @]
  /\ UNCHANGED <<store, skipped, offered, sent, accepted, replayed>>

InitiateSession(d) ==
  /\ d \in Initiators
  /\ session[d].init = SESSION_UNINIT
  /\ \E b \in Fetched(Peer(d)), fault \in Fault :
       Initiated(d, omemoInitiateSession(d, session[d], store[d], b, NewKey(d), fault))

Body(d) == Cardinality(sent[d]) + 1

Emit(d, r, hb) ==
  /\ session' = [session EXCEPT ![d] = r.session]
  /\ sent' = IF r.msg = NoMessage THEN sent
             ELSE [sent EXCEPT ![d] = @ \cup {[m |-> r.msg, hb |-> hb]}]
  /\ UNCHANGED <<store, skipped, fresh, offered, accepted, replayed>>

EncryptKey(d) ==
  /\ Body(d) <= MaxSend
  /\ \E fault \in Fault : Emit(d, omemoEncryptKey(session[d], Body(d), fault), FALSE)

Heartbeat(d) ==
  /\ Body(d) <= MaxSend
  /\ \E fault \in Fault : Emit(d, omemoHeartbeat(session[d], Body(d), fault), TRUE)

(* What the network may hand to device d: any message of its peer, at any  *)
(* time and any number of times, or a damaged one, that no key verifies.   *)
Genuine(d) == {e.m : e \in sent[Peer(d)]}

NoChain == [root |-> Zero, i |-> -1]

Damaged(d) ==
  {[m EXCEPT !.mk = NoChain] : m \in IF "mac" \in Noise THEN Genuine(d) ELSE {}}
  \cup {[m EXCEPT !.mk = NoChain, !.n = @ + 1] :
           m \in IF "n" \in Noise THEN Genuine(d) ELSE {}}

Decrypted(d, m, fault) ==
  omemoDecryptKey(d, session[d], store[d], skipped[d], m, NewKey(d), fault)

(* Device d called omemoDecryptKey for message m and got r.                *)
Received(d, m, r) ==
  /\ session' = [session EXCEPT ![d] = r.session]
  /\ skipped' = [skipped EXCEPT ![d] = IF r.ret # 0 /\ Rollback THEN @ ELSE r.skipped]
  /\ fresh' = [fresh EXCEPT ![d] = IF r.session.state.dhs = NewKey(d) THEN @ + 1 ELSE @]
  /\ accepted' = [accepted EXCEPT ![d] = IF r.ret = 0 THEN @ \cup {m.body} ELSE @]
  /\ replayed' = [replayed EXCEPT ![d] =
                    IF r.ret = 0 /\ m.body \in accepted[d] THEN @ \cup {m.body} ELSE @]
  /\ UNCHANGED <<store, offered, sent>>

DecryptMessage(d, m, fault) == \E r \in {Decrypted(d, m, fault)} : Received(d, m, r)

DecryptKey(d) ==
  \E m \in Genuine(d) \cup Damaged(d), fault \in Fault : DecryptMessage(d, m, fault)

Next ==
  \E d \in Device :
    \/ RemovePreKey(d) \/ RefillPreKeys(d) \/ RotateSignedPreKey(d) \/ Announce(d)
    \/ InitiateSession(d) \/ EncryptKey(d) \/ Heartbeat(d) \/ DecryptKey(d)

Spec == Init /\ [][Next]_vars

(* The transport keeps a message until it was handed over undamaged and    *)
(* the call did not fail (XMPP servers and archives do); nothing makes a   *)
(* device send.                                                            *)
Delivery(d, k) == \E m \in Genuine(d) : m.body = k /\ DecryptMessage(d, m, "none")

LiveSpec == Spec /\ \A d \in Device, k \in 1..MaxSend : WF_vars(Delivery(d, k))

----------------------------------------------------------------------------
(* The shape of the state.                                                 *)
TypeOK ==
  \A d \in Device :
    /\ session[d] \in Session
    /\ skipped[d] \subseteq [dh : PubKey, nr : Nat, mk : ChainKey]
    /\ fresh[d] \in Nat
    /\ sent[d] \subseteq [m : Message, hb : BOOLEAN]
    /\ accepted[d] \subseteq Nat /\ replayed[d] \subseteq accepted[d]

Established(d) == session[d].init \in {SESSION_READY, SESSION_HEARTBEAT}

(* No two messages, of either device, are encrypted under one key: key and *)
(* iv of a message are derived from its message key alone.                 *)
KeysNeverReused ==
  LET all == UNION {sent[d] : d \in Device}
  IN \A e1, e2 \in all : e1.m.mk = e2.m.mk => e1 = e2

(* A device that has made the ratchet step to its peer's current key pair  *)
(* receives on the very chain the peer sends on, and is not ahead of it.   *)
ChainAgreement ==
  \A d \in Device :
    LET mine == session[d].state
        peers == session[Peer(d)].state
    IN Established(d) /\ mine.dhr = peers.dhs =>
         /\ mine.ckr.root = peers.cks.root
         /\ mine.nr <= peers.ns
         /\ mine.ckr.i = mine.nr /\ peers.cks.i = peers.ns

(* A skipped key that is kept opens exactly the message it was kept for,   *)
(* and that message was not decrypted yet: no key outlives its message.    *)
SkippedKeysPending ==
  \A d \in Device : \A k \in skipped[d] : \A m \in Genuine(d) :
    m.dh = k.dh /\ m.n = k.nr => m.mk = k.mk /\ m.body \notin accepted[d]

BothInit == \A d \in Device : session[d].init = SESSION_INIT

(* Once a session is set up, any message of the peer that was not yet      *)
(* decrypted can be, whatever was decrypted, damaged or failed before it;  *)
(* only the limit on skipped keys may still refuse it.                     *)
NothingLost ==
  \A d \in Device :
    session[d].init # SESSION_UNINIT /\ ~BothInit =>
      \A m \in Genuine(d) :
        m.body \notin accepted[d] => Decrypted(d, m, "none").ret \in {0, OMEMO_EUSER}

(* How many keys a message makes the receiver skip.                        *)
KeysToSkip(s, m) ==
  IF s.state.dhr = m.dh THEN GetAmountSkipped(s.state.nr, m.n)
  ELSE GetAmountSkipped(s.state.nr, m.pn) + m.n

(* README.md has the store refuse a key only when more than the limit are  *)
(* to be skipped: a message that skips fewer, with room for all of them,   *)
(* is not refused.                                                         *)
WithinLimitNotRefused ==
  \A d \in Device : \A m \in Genuine(d) :
    /\ m.body \notin accepted[d]
    /\ Cardinality(skipped[d]) + KeysToSkip(session[d], m) <= MaxSkip
    => Decrypted(d, m, "none").ret # OMEMO_EUSER

(* The peer's first messages open a session as long as the prekey they     *)
(* name was not removed and the signed prekey was rotated at most once     *)
(* since it was fetched.                                                   *)
PreKeyMessageOpens ==
  \A d \in Device : \A m \in Genuine(d) :
    /\ session[d].init = SESSION_UNINIT
    /\ m.isprekey
    /\ \E i \in Slot : store[d].prekeys[i].id = m.pk_id
    /\ m.spk_id \in {store[d].cursignedprekey.id, store[d].prevsignedprekey.id}
    => Decrypted(d, m, "none").ret \in {0, OMEMO_EUSER}

(* The prekey id a caller is to remove (omemo.h) is one of its own that    *)
(* the peer used, never the peer's id that a session it set up keeps in    *)
(* the same field until the first answer.                                  *)
UsedIdIsOwn ==
  \A d \in Device :
    Established(d) /\ session[d].usedpk_id # 0 =>
      \E m \in Genuine(d) :
        m.isprekey /\ m.pk_id = session[d].usedpk_id /\ m.body \in accepted[d]

(* Every heartbeat answers a message received since the one before it, so  *)
(* two devices never keep sending each other heartbeats for nothing.       *)
HeartbeatsAnswered ==
  \A d \in Device :
    Cardinality({e \in sent[d] : e.hb}) <= Cardinality(accepted[d])

(* The devices see a SecureChannel.                                        *)
Times(d, k) == IF k \in replayed[d] THEN 2 ELSE IF k \in accepted[d] THEN 1 ELSE 0

Channel == INSTANCE SecureChannel WITH
  sent <- [d \in Device |-> Cardinality(sent[d])],
  got <- [d \in Device |-> [k \in 1..MaxSend |-> Times(d, k)]]

(* Only what the peer sent, each message at most once.                     *)
ImplementsChannel == Channel!Spec

(* And every message in the end, when one device sets the session up, even *)
(* with room for a single skipped key.                                     *)
ImplementsLiveChannel == Channel!LiveSpec
=============================================================================
