------------------------- MODULE OmemoSession_proofs -------------------------
(***************************************************************************)
(* What the functions of a session make of a session, in the terms the     *)
(* invariants of OmemoRatchet_proofs are stated in: the three ways in      *)
(* which omemoDecryptKey succeeds, and what encrypting and setting up do,  *)
(* for every message and wherever the driver fails.                        *)
(***************************************************************************)
EXTENDS OmemoSession, OmemoStore_proofs

----------------------------------------------------------------------------
(* Types.  What the network hands over may carry a damaged key, NoChain.   *)

Incoming == [body : Nat, n : Nat, pn : Nat, dh : PubKey, mk : [root : RootKey, i : Int],
             ad : PubKey \X PubKey, isprekey : BOOLEAN,
             pk_id : 0..IdMax, spk_id : 0..IdMax, ik : PubKey, ek : PubKey]

AnyBundle == [signed : BOOLEAN, ik : PubKey, spk : PubKey, spk_id : 0..IdMax,
           pk : PubKey, pk_id : 0..IdMax]

SkippedKeys == [dh : PubKey, nr : Nat, mk : ChainKey]

KeyKind == {"ik", "spk", "pk", "ek"}

(* The public key of a key pair is a public key, with its kind and owner.  *)
LEMMA PubType ==
  ASSUME NEW d \in Device, NEW kind \in KeyKind, NEW kp \in Key
  PROVE  /\ Pub(d, kind, kp) \in PubKey
         /\ Pub(d, kind, kp) # Zero => Pub(d, kind, kp) = <<d, kind, kp.seq, kp.boot>>
  BY DEF Pub, PubKey, KeyKind, Key

LEMMA ZeroTypes == Zero \in PubKey /\ Zero \in RootKey /\ Len(Zero) = 0
<1>1. <<>> \in Seq(SUBSET PubKey) /\ Len(<<>>) = 0
  OBVIOUS
<1> QED BY <1>1 DEF Zero, PubKey, RootKey

(* Both sides compute the same shared secret.                              *)
LEMMA DHSymmetric ==
  ASSUME NEW x, NEW y PROVE DH(x, y) = DH(y, x)
  BY DEF DH

LEMMA DHType ==
  ASSUME NEW x \in PubKey, NEW y \in PubKey PROVE DH(x, y) \in SUBSET PubKey
  BY DEF DH

(* Every derivation makes the root key one output longer.                  *)
LEMMA DeriveType ==
  ASSUME NEW rk \in RootKey, NEW x \in PubKey, NEW y \in PubKey
  PROVE  /\ DeriveRootKey(rk, x, y) \in RootKey
         /\ Len(DeriveRootKey(rk, x, y)) = Len(rk) + 1
<1>1. DH(x, y) \in SUBSET PubKey
  BY DHType
<1>2. \A h \in SUBSET PubKey : Append(rk, h) \in RootKey /\ Len(Append(rk, h)) = Len(rk) + 1
  BY DEF RootKey
<1> QED BY <1>1, <1>2 DEF DeriveRootKey

LEMMA RootLength == ASSUME NEW rk \in RootKey PROVE Len(rk) \in Nat
  BY DEF RootKey

LEMMA SecretType ==
  ASSUME NEW isbob \in BOOLEAN, NEW ika \in PubKey, NEW ska \in PubKey, NEW eka \in PubKey,
         NEW ikb \in PubKey, NEW spkb \in PubKey, NEW opkb \in PubKey
  PROVE  LET sk == GetSharedSecret(isbob, ika, ska, eka, ikb, spkb, opkb)
         IN sk \in RootKey /\ Len(sk) = 4
<1> DEFINE a == DH(IF isbob THEN ska ELSE ika, IF isbob THEN ikb ELSE spkb)
           b == DH(IF isbob THEN ika ELSE ska, IF isbob THEN spkb ELSE ikb)
           c == DH(ska, spkb)
           e == DH(eka, opkb)
<1>1. a \in SUBSET PubKey /\ b \in SUBSET PubKey /\ c \in SUBSET PubKey /\ e \in SUBSET PubKey
  BY DHType
<1>2. GetSharedSecret(isbob, ika, ska, eka, ikb, spkb, opkb) = <<a, b, c, e>>
  BY DEF GetSharedSecret
<1> HIDE DEF a, b, c, e
<1>3. <<a, b, c, e>> \in Seq(SUBSET PubKey) /\ Len(<<a, b, c, e>>) = 4
  BY <1>1
<1> QED BY <1>2, <1>3 DEF RootKey

LEMMA ZeroSessionType == ZeroSession \in Session /\ ZeroState \in State
<1>1. ZeroChain \in ChainKey
  BY ZeroTypes DEF ZeroChain, ChainKey
<1>2. ZeroState \in State
  BY <1>1, ZeroTypes DEF ZeroState, State
<1> QED BY <1>2, ZeroTypes, StoreAssumption
        DEF ZeroSession, Session, SESSION_UNINIT, SESSION_HEARTBEAT

----------------------------------------------------------------------------
(* Setting up and sending.                                                 *)

BundleSecret(ik, b, eka) == GetSharedSecret(FALSE, ik, eka, eka, b.ik, b.spk, b.pk)

(* Either nothing is set up, or a session whose root is the shared secret  *)
(* and the first ratchet step.                                             *)
Initiates(d, s, st, b, eka, r) ==
  LET ik == Pub(d, "ik", st.identity)
      rk == DeriveRootKey(BundleSecret(ik, b, eka), eka, b.spk)
  IN \/ r.ret # 0 /\ r.session \in {s, [s EXCEPT !.state = ZeroState]}
     \/ /\ r.ret = 0
        /\ b.signed /\ Zero \notin {b.ik, b.spk, b.pk}
        /\ r.session =
             [init |-> SESSION_INIT, identity |-> ik, remoteidentity |-> b.ik,
              state |-> [ZeroState EXCEPT !.dhs = eka, !.dhr = b.spk, !.rk = rk,
                                          !.cks = FirstChain(rk)],
              usedek |-> eka, usedpk_id |-> b.pk_id, usedspk_id |-> b.spk_id]

LEMMA InitiateOutcome ==
  ASSUME NEW d \in Device, NEW s \in Session, NEW st \in Store, NEW b \in AnyBundle,
         NEW eka \in PubKey, NEW fault
  PROVE  Initiates(d, s, st, b, eka, omemoInitiateSession(d, s, st, b, eka, fault))
  BY DEF Initiates, omemoInitiateSession, BundleSecret, RatchetInitAlice, OMEMO_ECORRUPT,
         OMEMO_ERANDOM, OMEMO_ECRYPTO

(* The message a session encrypts next.                                    *)
NextMessage(s, body) ==
  LET prekey == s.init = SESSION_INIT
  IN [body |-> body, n |-> s.state.ns, pn |-> s.state.pn,
      dh |-> s.state.dhs, mk |-> s.state.cks,
      ad |-> <<s.identity, s.remoteidentity>>,
      isprekey |-> prekey,
      pk_id |-> IF prekey THEN s.usedpk_id ELSE 0,
      spk_id |-> IF prekey THEN s.usedspk_id ELSE 0,
      ik |-> IF prekey THEN s.identity ELSE Zero,
      ek |-> IF prekey THEN s.usedek ELSE Zero]

StateAfterSend(t) ==
  [dhs |-> t.dhs, dhr |-> t.dhr, rk |-> t.rk,
   cks |-> [root |-> t.cks.root, i |-> t.cks.i + 1], ckr |-> t.ckr,
   ns |-> t.ns + 1, nr |-> t.nr, pn |-> t.pn]

WithState(s, init, t) ==
  [init |-> init, identity |-> s.identity, remoteidentity |-> s.remoteidentity,
   state |-> t, usedek |-> s.usedek, usedpk_id |-> s.usedpk_id,
   usedspk_id |-> s.usedspk_id]

LEMMA EncryptedType ==
  ASSUME NEW s \in Session, NEW body \in Nat \ {0}
  PROVE  NextMessage(s, body) \in Message /\ NextMessage(s, body) # NoMessage
<1>1. NextMessage(s, body).body = body /\ NoMessage.body = 0
  BY DEF NextMessage, NoMessage
<1>2. NextMessage(s, body) \in Message
  BY ZeroTypes, StoreAssumption DEF NextMessage, Session, State, Message
<1> QED BY <1>1, <1>2

LEMMA StateAfterSendType ==
  ASSUME NEW t \in State PROVE StateAfterSend(t) \in State
  BY DEF StateAfterSend, State, ChainKey

LEMMA WithStateType ==
  ASSUME NEW s \in Session, NEW init \in SESSION_UNINIT .. SESSION_HEARTBEAT, NEW t \in State
  PROVE  WithState(s, init, t) \in Session
  BY DEF WithState, Session

LEMMA WithOwnState ==
  ASSUME NEW s \in Session PROVE WithState(s, s.init, s.state) = s
  BY DEF WithState, Session

(* Encrypting changes nothing, or sends one message and steps the chain.   *)
Encrypts(s, body, r) ==
  \/ r.ret # 0 /\ r.session = s /\ r.msg = NoMessage
  \/ /\ r.ret = 0
     /\ s.init # SESSION_UNINIT
     /\ r.msg = NextMessage(s, body)
     /\ r.session = WithState(s, s.init, StateAfterSend(s.state))

LEMMA EncryptOutcome ==
  ASSUME NEW s \in Session, NEW body \in Nat \ {0}, NEW fault
  PROVE  Encrypts(s, body, omemoEncryptKey(s, body, fault))
<1> USE DEF Encrypts
<1> DEFINE r == EncryptKeyImpl(s, body, fault)
           stepped == [s EXCEPT !.state.cks = NextChain(@)]
           sent1 == [stepped EXCEPT !.state.ns = @ + 1]
<1>1. \/ r.ret # 0 /\ r = [ret |-> r.ret, session |-> r.session, msg |-> NoMessage]
      \/ r.ret = 0 /\ s.init # SESSION_UNINIT
           /\ r.msg = NextMessage(s, body) /\ r.session = sent1
  BY DEF EncryptKeyImpl, NextMessage, OMEMO_ESTATE, OMEMO_ECRYPTO
<1>2. sent1 = WithState(s, s.init, StateAfterSend(s.state))
  <2> DEFINE t == s.state
             next == [root |-> t.cks.root, i |-> t.cks.i + 1]
             half == [dhs |-> t.dhs, dhr |-> t.dhr, rk |-> t.rk, cks |-> next,
                      ckr |-> t.ckr, ns |-> t.ns, nr |-> t.nr, pn |-> t.pn]
  <2>1. NextChain(t.cks) = next
    BY DEF Session, State, ChainKey, NextChain
  <2> HIDE DEF next
  <2>2. stepped = WithState(s, s.init, half)
    BY <2>1 DEF Session, State, WithState
  <2> HIDE DEF stepped
  <2>3. sent1 = WithState(s, s.init, [half EXCEPT !.ns = @ + 1])
    BY <2>2 DEF WithState
  <2> QED BY <2>3 DEF StateAfterSend, next
<1> HIDE DEF r, sent1
<1>3. CASE r.ret # 0
  <2>1. [r EXCEPT !.session = s].ret = r.ret /\ [r EXCEPT !.session = s].session = s
        /\ [r EXCEPT !.session = s].msg = NoMessage
    BY <1>1, <1>3
  <2> QED BY <1>3, <2>1 DEF omemoEncryptKey, PutBack, r
<1>4. CASE r.ret = 0
  BY <1>1, <1>2, <1>4 DEF omemoEncryptKey, PutBack, r
<1> QED BY <1>3, <1>4 DEF Encrypts

(* A heartbeat is a message sent by a READY session, which is not READY    *)
(* again until it receives.                                                *)
Beats(s, body, r) ==
  \/ r.session = s /\ r.msg = NoMessage
  \/ /\ s.init = SESSION_HEARTBEAT /\ s.state.nr < HeartbeatAt
     /\ r.session = WithState(s, SESSION_READY, s.state) /\ r.msg = NoMessage
  \/ /\ s.init = SESSION_READY /\ s.state.nr >= HeartbeatAt
     /\ r.msg = NextMessage(s, body)
     /\ r.session = WithState(s, SESSION_HEARTBEAT, StateAfterSend(s.state))

LEMMA HeartbeatOutcome ==
  ASSUME NEW s \in Session, NEW body \in Nat \ {0}, NEW fault
  PROVE  Beats(s, body, omemoHeartbeat(s, body, fault))
<1> USE DEF Beats
<1> DEFINE e == omemoEncryptKey(s, body, fault)
           r == omemoHeartbeat(s, body, fault)
           nothing == [ret |-> 0, session |-> s, msg |-> NoMessage]
<1>1. \/ e.ret # 0 /\ e.session = s /\ e.msg = NoMessage
      \/ /\ e.ret = 0 /\ e.msg = NextMessage(s, body)
         /\ e.session = WithState(s, s.init, StateAfterSend(s.state))
  BY EncryptOutcome DEF Encrypts
<1>2. e = [ret |-> e.ret, session |-> e.session, msg |-> e.msg]
  <2> DEFINE i == EncryptKeyImpl(s, body, fault)
  <2>1. i = [ret |-> i.ret, session |-> i.session, msg |-> i.msg]
    BY DEF EncryptKeyImpl
  <2> HIDE DEF i
  <2>2. [i EXCEPT !.session = s] = [ret |-> i.ret, session |-> s, msg |-> i.msg]
    BY <2>1
  <2>3. e = i \/ e = [i EXCEPT !.session = s]
    BY DEF omemoEncryptKey, PutBack, i
  <2> HIDE DEF e
  <2> QED BY <2>1, <2>2, <2>3
<1>3. r = IF HeartbeatDue(s)
          THEN IF e.ret # 0 THEN e ELSE [e EXCEPT !.session.init = SESSION_HEARTBEAT]
          ELSE IF s.state.nr < HeartbeatAt /\ s.init = SESSION_HEARTBEAT
          THEN [nothing EXCEPT !.session.init = SESSION_READY]
          ELSE nothing
  BY DEF omemoHeartbeat
<1>4. /\ [nothing EXCEPT !.session.init = SESSION_READY].session
           = WithState(s, SESSION_READY, s.state)
      /\ [nothing EXCEPT !.session.init = SESSION_READY].msg = NoMessage
  BY DEF Session, WithState
<1>5. ASSUME e.ret = 0
      PROVE  /\ [e EXCEPT !.session.init = SESSION_HEARTBEAT].session
                  = WithState(s, SESSION_HEARTBEAT, StateAfterSend(s.state))
             /\ [e EXCEPT !.session.init = SESSION_HEARTBEAT].msg = NextMessage(s, body)
  <2> HIDE DEF e
  <2>1. e = [ret |-> 0, msg |-> NextMessage(s, body),
             session |-> WithState(s, s.init, StateAfterSend(s.state))]
    BY <1>1, <1>2, <1>5
  <2> QED BY <2>1 DEF WithState
<1> HIDE DEF e, r
<1>6. \/ r.session = s /\ r.msg = NoMessage
      \/ /\ s.init = SESSION_HEARTBEAT /\ s.state.nr < HeartbeatAt
         /\ r.session = WithState(s, SESSION_READY, s.state) /\ r.msg = NoMessage
      \/ /\ s.init = SESSION_READY /\ s.state.nr >= HeartbeatAt
         /\ r.msg = NextMessage(s, body)
         /\ r.session = WithState(s, SESSION_HEARTBEAT, StateAfterSend(s.state))
  BY <1>1, <1>3, <1>4, <1>5 DEF HeartbeatDue
<1> QED BY <1>6 DEF r, Beats

----------------------------------------------------------------------------
(* Skipping.                                                               *)

(* The key of message j in the chain that state t receives on.             *)
KeyAt(t, j) == [root |-> t.ckr.root, i |-> t.ckr.i + (j - t.nr)]

(* The keys that are kept when the chain is stepped up to message n.       *)
PassedKeys(t, n) ==
  IF Callbacks = "none" THEN {}
  ELSE {[dh |-> t.dhr, nr |-> j, mk |-> KeyAt(t, j)] : j \in t.nr .. n - 1}

(* The state with its receiving chain stepped up to message n.             *)
SteppedTo(t, n) ==
  IF t.nr >= n THEN t
  ELSE [dhs |-> t.dhs, dhr |-> t.dhr, rk |-> t.rk, cks |-> t.cks, ckr |-> KeyAt(t, n),
        ns |-> t.ns, nr |-> n, pn |-> t.pn]

LEMMA KeyAtType ==
  ASSUME NEW t \in State, NEW j \in Nat, t.nr <= j
  PROVE  KeyAt(t, j) \in ChainKey
  BY DEF State, ChainKey, KeyAt

LEMMA PassedKeysType ==
  ASSUME NEW t \in State, NEW n \in Nat
  PROVE  PassedKeys(t, n) \subseteq SkippedKeys
<1>1. \A j \in t.nr .. n - 1 : j \in Nat /\ t.nr <= j /\ t.dhr \in PubKey
  BY DEF State
<1> QED BY <1>1, KeyAtType DEF PassedKeys, SkippedKeys

LEMMA SteppedToType ==
  ASSUME NEW t \in State, NEW n \in Nat
  PROVE  SteppedTo(t, n) \in State
<1>1. CASE t.nr >= n
  BY <1>1 DEF SteppedTo
<1>2. CASE ~ (t.nr >= n)
  <2>1. KeyAt(t, n) \in ChainKey
    BY <1>2, KeyAtType DEF State
  <2> QED BY <1>2, <2>1 DEF SteppedTo, State
<1> QED BY <1>1, <1>2

(* The keys the store would refuse on the way to message n.                *)
Refused(s, skp, n, full) ==
  {j \in s.state.nr .. n - 1 :
     StoreRefuses(Cardinality(skp) + (j - s.state.nr), full - (j - s.state.nr))}

LEMMA SkipEndBounds ==
  ASSUME NEW s \in Session, NEW skp, NEW n \in Nat, NEW full, s.state.nr < n
  PROVE  /\ SkipEnd(s, skp, n, full) \in s.state.nr .. n
         /\ SkipEnd(s, skp, n, full) = n <=> Refused(s, skp, n, full) = {}
<1> DEFINE nr == s.state.nr
           R == Refused(s, skp, n, full)
           S == R \cup {n}
           end == SkipEnd(s, skp, n, full)
<1>1. nr \in Nat /\ nr < n
  BY DEF Session, State
<1>2. \A j \in R : j \in Nat /\ nr <= j /\ j < n
  BY <1>1 DEF Refused
<1>3. end = CHOOSE j \in S : \A k \in S : j <= k
  BY DEF SkipEnd, Refused
<1> HIDE DEF nr, R, end
<1>4. S \in SUBSET Nat /\ n \in S
  BY <1>2
<1> HIDE DEF S
<1>5. \E j \in S : \A k \in S : j <= k
  BY <1>4, LeastExists
<1>6. end \in S /\ \A k \in S : end <= k
  BY <1>3, <1>5
<1>7. end \in nr .. n
  BY <1>1, <1>2, <1>6 DEF S
<1>8. end = n <=> R = {}
  BY <1>1, <1>2, <1>6 DEF S
<1> QED BY <1>7, <1>8 DEF R, end, nr

(* Skipping that is not cut short steps the chain and keeps the keys.      *)
Skips(s, skp, n, full, r) ==
  \/ /\ r.ret = OMEMO_EUSER
     /\ s.state.nr < n /\ Refused(s, skp, n, full) # {}
  \/ /\ r.ret = 0
     /\ r.session = WithState(s, s.init, SteppedTo(s.state, n))
     /\ r.skipped = skp \cup PassedKeys(s.state, n)
     /\ s.state.nr < n => Refused(s, skp, n, full) = {}

LEMMA SkipOutcome ==
  ASSUME NEW s \in Session, NEW skp, NEW n \in Nat, NEW full
  PROVE  Skips(s, skp, n, full, SkipMessageKeys(s, skp, n, full))
<1> USE DEF Skips
<1> DEFINE r == SkipMessageKeys(s, skp, n, full)
           end == SkipEnd(s, skp, n, full)
           nr == s.state.nr
<1>0. nr \in Nat /\ s.state \in State
  BY DEF Session, State
<1>1. CASE nr >= n
  <2>1. r = [ret |-> 0, session |-> s, skipped |-> skp]
    BY <1>1 DEF SkipMessageKeys
  <2>2. nr .. n - 1 = {}
    BY <1>0, <1>1
  <2>3. PassedKeys(s.state, n) = {}
    BY <2>2 DEF PassedKeys
  <2>4. SteppedTo(s.state, n) = s.state
    BY <1>1 DEF SteppedTo
  <2> QED BY <1>0, <1>1, <2>1, <2>3, <2>4, WithOwnState
<1>2. CASE ~ (nr >= n)
  <2>1. end \in nr .. n /\ (end = n <=> Refused(s, skp, n, full) = {})
    BY <1>0, <1>2, SkipEndBounds
  <2>2. r = SkipTo(s, skp, n, end)
    BY <1>2 DEF SkipMessageKeys
  <2>3. CASE end # n
    BY <1>0, <1>2, <2>1, <2>2, <2>3 DEF SkipTo
  <2>4. CASE end = n
    <3> DEFINE next == [s EXCEPT !.state.nr = n, !.state.ckr.i = @ + (n - nr) + 0]
    <3>1. /\ r.ret = 0
          /\ r.session = next
          /\ r.skipped = skp \cup {SkippedKey(s, j) : j \in Stored(nr, n, n)}
      BY <2>2, <2>4 DEF SkipTo
    <3>2. next = WithState(s, s.init, SteppedTo(s.state, n))
      <4> DEFINE t == s.state
                 c == [root |-> t.ckr.root, i |-> t.ckr.i + (n - nr) + 0]
                 half == [dhs |-> t.dhs, dhr |-> t.dhr, rk |-> t.rk, cks |-> t.cks,
                          ckr |-> c, ns |-> t.ns, nr |-> n, pn |-> t.pn]
      <4>1. next = WithState(s, s.init, half)
        <5> DEFINE one == [s EXCEPT !.state.nr = n]
        <5>1. one = WithState(s, s.init, [t EXCEPT !.nr = n])
          BY DEF Session, State, WithState
        <5>2. /\ one.state = [dhs |-> t.dhs, dhr |-> t.dhr, rk |-> t.rk, cks |-> t.cks,
                              ckr |-> t.ckr, ns |-> t.ns, nr |-> n, pn |-> t.pn]
              /\ t.ckr = [root |-> t.ckr.root, i |-> t.ckr.i]
          BY <1>0, <5>1 DEF State, ChainKey, WithState
        <5>3. next = [one EXCEPT !.state.ckr.i = t.ckr.i + (n - nr) + 0]
          OBVIOUS
        <5> HIDE DEF one, t, nr
        <5>4. [one.state EXCEPT !.ckr.i = t.ckr.i + (n - nr) + 0] = half
          BY <5>2
        <5> HIDE DEF next, half
        <5> QED BY <5>1, <5>3, <5>4 DEF WithState
      <4>2. half = SteppedTo(t, n)
        <5>1. t.ckr.i \in Nat
          BY <1>0 DEF State, ChainKey
        <5>2. c = KeyAt(t, n)
          BY <1>0, <5>1 DEF KeyAt
        <5> HIDE DEF c
        <5> QED BY <1>2, <5>2 DEF SteppedTo
      <4> HIDE DEF next, half
      <4> QED BY <4>1, <4>2
    <3>3. {SkippedKey(s, j) : j \in Stored(nr, n, n)} = PassedKeys(s.state, n)
      <4>1. CASE Callbacks = "none"
        BY <4>1 DEF Stored, PassedKeys
      <4>2. CASE Callbacks # "none"
        <5>1. Stored(nr, n, n) = nr .. n - 1
          <6>1. CASE Callbacks = "refuse"
            BY <1>0, <6>1 DEF Stored
          <6>2. CASE Callbacks # "refuse"
            BY <1>0, <4>2, <6>2 DEF Stored
          <6> QED BY <6>1, <6>2
        <5>2. \A j : SkippedKey(s, j) = [dh |-> s.state.dhr, nr |-> j, mk |-> KeyAt(s.state, j)]
          BY <1>0 DEF SkippedKey, KeyAt, State, ChainKey
        <5> QED BY <4>2, <5>1, <5>2 DEF PassedKeys
      <4> QED BY <4>1, <4>2
    <3> HIDE DEF r, next
    <3> QED BY <2>1, <2>4, <3>1, <3>2, <3>3 DEF r
  <2> QED BY <2>3, <2>4
<1> QED BY <1>1, <1>2 DEF Skips

----------------------------------------------------------------------------
(* Receiving.                                                              *)

(* The next key of the chain of state t that is not skipped is that of m,  *)
(* and what is left of the state and of the store of keys after it.        *)
Follows(t, skp, m, t1, skp1) ==
  /\ t.nr <= m.n
  /\ m.mk = KeyAt(t, m.n)
  /\ t1 = SteppedTo(t, m.n + 1)
  /\ skp1 = skp \cup PassedKeys(t, m.n)

(* The state after the two halves of a ratchet step, before any message.   *)
Ratcheted(t, dh, new) ==
  LET rk1 == DeriveRootKey(t.rk, t.dhs, dh)
      rk2 == DeriveRootKey(rk1, new, dh)
  IN [dhs |-> new, dhr |-> dh, rk |-> rk2, cks |-> FirstChain(rk2),
      ckr |-> FirstChain(rk1), ns |-> 0, nr |-> 0, pn |-> t.ns]

LEMMA RatchetedType ==
  ASSUME NEW t \in State, NEW dh \in PubKey, NEW new \in PubKey
  PROVE  /\ Ratcheted(t, dh, new) \in State
         /\ Ratcheted(t, dh, new).ckr.root = DeriveRootKey(t.rk, t.dhs, dh)
         /\ Len(Ratcheted(t, dh, new).ckr.root) = Len(t.rk) + 1
         /\ Len(Ratcheted(t, dh, new).rk) = Len(t.rk) + 2
<1> DEFINE rk1 == DeriveRootKey(t.rk, t.dhs, dh)
           rk2 == DeriveRootKey(rk1, new, dh)
<1>1. t.rk \in RootKey /\ t.dhs \in PubKey /\ t.ns \in Nat
  BY DEF State
<1>2. rk1 \in RootKey /\ Len(rk1) = Len(t.rk) + 1
  BY <1>1, DeriveType
<1> HIDE DEF rk1
<1>3. rk2 \in RootKey /\ Len(rk2) = Len(rk1) + 1
  BY <1>2, DeriveType
<1> HIDE DEF rk2
<1>4. Ratcheted(t, dh, new) =
        [dhs |-> new, dhr |-> dh, rk |-> rk2, cks |-> [root |-> rk2, i |-> 0],
         ckr |-> [root |-> rk1, i |-> 0], ns |-> 0, nr |-> 0, pn |-> t.ns]
  BY DEF Ratcheted, FirstChain, rk1, rk2
<1>5. Len(t.rk) \in Nat
  BY <1>1, RootLength
<1>6. Ratcheted(t, dh, new) \in State
  BY <1>1, <1>2, <1>3, <1>4 DEF State, ChainKey
<1>7. Len(rk2) = Len(t.rk) + 2
  BY <1>2, <1>3, <1>5
<1> QED BY <1>2, <1>4, <1>6, <1>7 DEF rk1

(* A ratchet step that does not fail.                                      *)
Ratchets(t, dh, new, fault, r) ==
  \/ fault = "random" /\ r.ret = OMEMO_ERANDOM
  \/ r.ret = 0 /\ r.state = Ratcheted(t, dh, new)

LEMMA DHRatchetOutcome ==
  ASSUME NEW t \in State, NEW dh \in PubKey, NEW new \in PubKey, NEW fault
  PROVE  Ratchets(t, dh, new, fault, DHRatchet(t, dh, new, fault))
<1> USE DEF Ratchets
<1> DEFINE rk1 == DeriveRootKey(t.rk, t.dhs, dh)
           rk2 == DeriveRootKey(rk1, new, dh)
           half == [t EXCEPT !.pn = PreviousLength(t), !.ns = 0, !.nr = 0,
                             !.dhr = dh, !.rk = rk1, !.ckr = FirstChain(rk1)]
           full == [half EXCEPT !.dhs = new, !.rk = rk2, !.cks = FirstChain(rk2)]
           r == DHRatchet(t, dh, new, fault)
<1>1. \/ fault = "random" /\ r.ret = OMEMO_ERANDOM
      \/ r.ret = 0 /\ r.state = full
  BY DEF DHRatchet
<1>2. full = Ratcheted(t, dh, new)
  <2> HIDE DEF rk1, rk2
  <2> DEFINE e1 == [t EXCEPT !.pn = t.ns]
             e2 == [e1 EXCEPT !.ns = 0]
             e3 == [e2 EXCEPT !.nr = 0]
             e4 == [e3 EXCEPT !.dhr = dh]
             e5 == [e4 EXCEPT !.rk = rk1]
             e6 == [e5 EXCEPT !.ckr = FirstChain(rk1)]
             e7 == [e6 EXCEPT !.dhs = new]
             e8 == [e7 EXCEPT !.rk = rk2]
             e9 == [e8 EXCEPT !.cks = FirstChain(rk2)]
  <2>0. full = e9
    BY DEF PreviousLength
  <2>1. t = [dhs |-> t.dhs, dhr |-> t.dhr, rk |-> t.rk, cks |-> t.cks,
             ckr |-> t.ckr, ns |-> t.ns, nr |-> t.nr, pn |-> t.pn]
    BY DEF State
  <2>2. e1 = [dhs |-> t.dhs, dhr |-> t.dhr, rk |-> t.rk, cks |-> t.cks,
              ckr |-> t.ckr, ns |-> t.ns, nr |-> t.nr, pn |-> t.ns]
    BY <2>1
  <2> HIDE DEF e1
  <2>3. e2 = [dhs |-> t.dhs, dhr |-> t.dhr, rk |-> t.rk, cks |-> t.cks,
              ckr |-> t.ckr, ns |-> 0, nr |-> t.nr, pn |-> t.ns]
    BY <2>2
  <2> HIDE DEF e2
  <2>4. e3 = [dhs |-> t.dhs, dhr |-> t.dhr, rk |-> t.rk, cks |-> t.cks,
              ckr |-> t.ckr, ns |-> 0, nr |-> 0, pn |-> t.ns]
    BY <2>3
  <2> HIDE DEF e3
  <2>5. e4 = [dhs |-> t.dhs, dhr |-> dh, rk |-> t.rk, cks |-> t.cks,
              ckr |-> t.ckr, ns |-> 0, nr |-> 0, pn |-> t.ns]
    BY <2>4
  <2> HIDE DEF e4
  <2>6. e5 = [dhs |-> t.dhs, dhr |-> dh, rk |-> rk1, cks |-> t.cks,
              ckr |-> t.ckr, ns |-> 0, nr |-> 0, pn |-> t.ns]
    BY <2>5
  <2> HIDE DEF e5
  <2>7. e6 = [dhs |-> t.dhs, dhr |-> dh, rk |-> rk1, cks |-> t.cks,
              ckr |-> FirstChain(rk1), ns |-> 0, nr |-> 0, pn |-> t.ns]
    BY <2>6
  <2> HIDE DEF e6
  <2>8. e7 = [dhs |-> new, dhr |-> dh, rk |-> rk1, cks |-> t.cks,
              ckr |-> FirstChain(rk1), ns |-> 0, nr |-> 0, pn |-> t.ns]
    BY <2>7
  <2> HIDE DEF e7
  <2>9. e8 = [dhs |-> new, dhr |-> dh, rk |-> rk2, cks |-> t.cks,
              ckr |-> FirstChain(rk1), ns |-> 0, nr |-> 0, pn |-> t.ns]
    BY <2>8
  <2> HIDE DEF e8
  <2>10. e9 = [dhs |-> new, dhr |-> dh, rk |-> rk2, cks |-> FirstChain(rk2),
              ckr |-> FirstChain(rk1), ns |-> 0, nr |-> 0, pn |-> t.ns]
    BY <2>9
  <2> HIDE DEF e9
  <2> HIDE DEF full
  <2> QED BY <2>0, <2>10 DEF Ratcheted, rk1, rk2
<1> QED BY <1>1, <1>2 DEF Ratchets

(* The MAC and the padding: a session that opens a message is READY.       *)
Unseals(s, skp, m, mk, fault, r) ==
  \/ /\ r.ret = 0 /\ m.mk = mk /\ m.ad = <<s.remoteidentity, s.identity>>
     /\ r.session = WithState(s, SESSION_READY, s.state) /\ r.skipped = skp
  \/ /\ r.ret \notin {0, OMEMO_EUSER}
     /\ \/ fault = "crypto" \/ m.mk # mk
        \/ m.ad # <<s.remoteidentity, s.identity>>

LEMMA UnsealOutcome ==
  ASSUME NEW s \in Session, NEW skp, NEW m, NEW mk, NEW fault
  PROVE  Unseals(s, skp, m, mk, fault, Unseal(s, skp, m, mk, fault))
<1>1. [s EXCEPT !.init = SESSION_READY] = WithState(s, SESSION_READY, s.state)
  BY DEF Session, WithState
<1> QED BY <1>1 DEF Unseals, Unseal, OMEMO_ECRYPTO, OMEMO_ECORRUPT, OMEMO_EUSER

(* The next message of a chain.                                            *)
ReceivesNext(s, skp, m, full, fault, r) ==
  \/ /\ r.ret = 0 /\ m.ad = <<s.remoteidentity, s.identity>>
     /\ Follows(s.state, skp, m, r.session.state, r.skipped)
     /\ r.session = WithState(s, SESSION_READY, r.session.state)
  \/ /\ r.ret = OMEMO_EUSER
     /\ s.state.nr < m.n /\ Refused(s, skp, m.n, full) # {}
  \/ /\ r.ret \notin {0, OMEMO_EUSER}
     /\ \/ fault = "crypto" \/ m.mk # KeyAt(s.state, m.n)
        \/ m.ad # <<s.remoteidentity, s.identity>>

LEMMA ReceiveNextOutcome ==
  ASSUME NEW s \in Session, NEW skp, NEW m \in Incoming, NEW full, NEW fault,
         s.state.nr <= m.n
  PROVE  ReceivesNext(s, skp, m, full, fault,
                      ReceiveNext(SkipMessageKeys(s, skp, m.n, full), m, fault))
<1> USE DEF ReceivesNext
<1> DEFINE skip == SkipMessageKeys(s, skp, m.n, full)
           r == ReceiveNext(skip, m, fault)
           t == s.state
<1>0. t \in State /\ m.n \in Nat /\ t.nr \in Nat /\ t.ckr.i \in Nat
  BY DEF Session, State, ChainKey, Incoming
<1>a. \/ skip.ret = OMEMO_EUSER /\ t.nr < m.n /\ Refused(s, skp, m.n, full) # {}
      \/ /\ skip.ret = 0
         /\ skip.session = WithState(s, s.init, SteppedTo(t, m.n))
         /\ skip.skipped = skp \cup PassedKeys(t, m.n)
  <2>1. Skips(s, skp, m.n, full, skip)
    BY <1>0, SkipOutcome
  <2> QED BY <2>1 DEF Skips
<1>1. CASE skip.ret # 0
  <2>1. r = skip
    BY <1>1 DEF ReceiveNext
  <2> HIDE DEF skip, r, t
  <2>2. r.ret = OMEMO_EUSER /\ t.nr < m.n /\ Refused(s, skp, m.n, full) # {}
    BY <1>1, <1>a, <2>1
  <2> QED BY <2>2 DEF r, skip, t, OMEMO_EUSER
<1>2. CASE skip.ret = 0
  <2>1. /\ skip.session = WithState(s, s.init, SteppedTo(t, m.n))
        /\ skip.skipped = skp \cup PassedKeys(t, m.n)
    <3> HIDE DEF skip, t
    <3> QED BY <1>2, <1>a DEF OMEMO_EUSER
  <2> DEFINE s1 == [skip.session EXCEPT !.state.ckr = NextChain(@), !.state.nr = @ + 1]
             mk == skip.session.state.ckr
             u == Unseal(s1, skip.skipped, m, mk, fault)
  <2>2. r = u
    BY <1>2 DEF ReceiveNext
  <2>3. SteppedTo(t, m.n) =
          [dhs |-> t.dhs, dhr |-> t.dhr, rk |-> t.rk, cks |-> t.cks, ckr |-> KeyAt(t, m.n),
           ns |-> t.ns, nr |-> m.n, pn |-> t.pn]
    <3>1. CASE t.nr = m.n
      BY <1>0, <3>1 DEF SteppedTo, KeyAt, State, ChainKey
    <3>2. CASE t.nr # m.n
      BY <1>0, <3>2 DEF SteppedTo
    <3> QED BY <3>1, <3>2
  <2>4. mk = KeyAt(t, m.n)
    BY <2>1, <2>3 DEF WithState
  <2>5. s1 = WithState(s, s.init, SteppedTo(t, m.n + 1))
    <3>1. NextChain(KeyAt(t, m.n)) = KeyAt(t, m.n + 1)
      BY <1>0 DEF NextChain, KeyAt
    <3>2. SteppedTo(t, m.n + 1) =
            [dhs |-> t.dhs, dhr |-> t.dhr, rk |-> t.rk, cks |-> t.cks,
             ckr |-> KeyAt(t, m.n + 1), ns |-> t.ns, nr |-> m.n + 1, pn |-> t.pn]
      BY <1>0 DEF SteppedTo
    <3> DEFINE one == [skip.session EXCEPT !.state.ckr = NextChain(@)]
    <3> HIDE DEF skip, t
    <3>3. one = WithState(s, s.init,
            [dhs |-> t.dhs, dhr |-> t.dhr, rk |-> t.rk, cks |-> t.cks,
             ckr |-> KeyAt(t, m.n + 1), ns |-> t.ns, nr |-> m.n, pn |-> t.pn])
      BY <2>1, <2>3, <3>1 DEF WithState
    <3>4. s1 = [one EXCEPT !.state.nr = m.n + 1]
      <4>1. s1 = [one EXCEPT !.state.nr = skip.session.state.nr + 1]
        OBVIOUS
      <4>2. skip.session.state.nr = m.n
        BY <2>1, <2>3 DEF WithState
      <4> QED BY <4>1, <4>2
    <3> HIDE DEF one, s1
    <3> QED BY <3>2, <3>3, <3>4 DEF WithState
  <2>6. SteppedTo(t, m.n + 1) \in State /\ s.init \in SESSION_UNINIT .. SESSION_HEARTBEAT
    BY <1>0, SteppedToType DEF Session
  <2>7. s1 \in Session
    BY <2>5, <2>6, WithStateType
  <2> HIDE DEF s1, mk, skip
  <2>8. /\ s1.remoteidentity = s.remoteidentity /\ s1.identity = s.identity
        /\ s1.state = SteppedTo(t, m.n + 1)
        /\ WithState(s1, SESSION_READY, s1.state) = WithState(s, SESSION_READY, s1.state)
        /\ WithState(s, SESSION_READY, s1.state).state = s1.state
    BY <2>5 DEF WithState
  <2>9. \/ /\ u.ret = 0 /\ m.mk = mk /\ m.ad = <<s1.remoteidentity, s1.identity>>
           /\ u.session = WithState(s1, SESSION_READY, s1.state)
           /\ u.skipped = skip.skipped
        \/ /\ u.ret \notin {0, OMEMO_EUSER}
           /\ \/ fault = "crypto" \/ m.mk # mk
              \/ m.ad # <<s1.remoteidentity, s1.identity>>
    BY <2>7, UnsealOutcome DEF Unseals
  <2> HIDE DEF u, r, t
  <2>10. CASE u.ret = 0
    <3>1. /\ r.ret = 0 /\ m.mk = KeyAt(t, m.n) /\ m.ad = <<s.remoteidentity, s.identity>>
          /\ r.session = WithState(s, SESSION_READY, s1.state)
          /\ r.session.state = SteppedTo(t, m.n + 1)
          /\ r.skipped = skp \cup PassedKeys(t, m.n)
      BY <2>1, <2>2, <2>4, <2>8, <2>9, <2>10
    <3>2. t.nr <= m.n
      BY DEF t
    <3> QED BY <2>8, <3>1, <3>2 DEF Follows, r, t, skip
  <2>11. CASE u.ret # 0
    <3>1. /\ r.ret \notin {0, OMEMO_EUSER}
          /\ \/ fault = "crypto" \/ m.mk # KeyAt(t, m.n)
             \/ m.ad # <<s.remoteidentity, s.identity>>
      BY <2>2, <2>4, <2>8, <2>9, <2>11
    <3> QED BY <3>1 DEF r, t, skip
  <2> QED BY <2>10, <2>11
<1>3. ReceivesNext(s, skp, m, full, fault, r)
  BY <1>1, <1>2 DEF ReceivesNext
<1> QED BY <1>3

----------------------------------------------------------------------------
(* Decrypting: with a key that was kept, with the next key of the chain or *)
(* with a key of a new chain.                                              *)
Loaded(skp, m) == omemoLoadMessageKey(skp, m.dh, m.n)

ByKept(t, skp, m, t1, skp1) ==
  /\ \E k \in Loaded(skp, m) : k.mk = m.mk
  /\ t1 = t
  /\ skp1 = skp \ Loaded(skp, m)

InChain(t, skp, m, t1, skp1) ==
  /\ Loaded(skp, m) = {}
  /\ t.dhr = m.dh
  /\ Follows(t, skp, m, t1, skp1)

InNewChain(t, skp, m, new, t1, skp1) ==
  /\ Loaded(skp, m) = {}
  /\ t.dhr # m.dh
  /\ Follows(Ratcheted(t, m.dh, new), skp \cup PassedKeys(t, m.pn), m, t1, skp1)

Opens(s, skp, m, new, s1, skp1) ==
  /\ m.ad = <<s.remoteidentity, s.identity>>
  /\ s1 = WithState(s, SESSION_READY, s1.state)
  /\ \/ ByKept(s.state, skp, m, s1.state, skp1)
     \/ InChain(s.state, skp, m, s1.state, skp1)
     \/ InNewChain(s.state, skp, m, new, s1.state, skp1)

(* Where the store refuses a key: in the chain, in the rest of the old one *)
(* or in the new one.                                                      *)
RefusedIn(s, skp, n, full) == s.state.nr < n /\ Refused(s, skp, n, full) # {}

RefusedOnTheWay(s, skp, m, new) ==
  LET old == GetAmountSkipped(s.state.nr, m.pn)
      s2 == WithState(s, s.init, Ratcheted(s.state, m.dh, new))
  IN \/ /\ s.state.dhr = m.dh
        /\ RefusedIn(s, skp, m.n, GetAmountSkipped(s.state.nr, m.n))
     \/ /\ s.state.dhr # m.dh
        /\ \/ RefusedIn(s, skp, m.pn, old + m.n)
           \/ RefusedIn(s2, skp \cup PassedKeys(s.state, m.pn), m.n, old)

(* Why a message is not opened: a fault, other identities than those it    *)
(* was sent under, a key that is gone or one that is not its own.          *)
Misses(s, skp, m, new, fault) ==
  \/ fault # "none"
  \/ m.ad # <<s.remoteidentity, s.identity>>
  \/ \E k \in Loaded(skp, m) : k.mk # m.mk
  \/ /\ Loaded(skp, m) = {} /\ s.state.dhr = m.dh
     /\ m.n < s.state.nr \/ m.mk # KeyAt(s.state, m.n)
  \/ /\ Loaded(skp, m) = {} /\ s.state.dhr # m.dh
     /\ m.mk # KeyAt(Ratcheted(s.state, m.dh, new), m.n)

DecryptsIn(s, skp, m, new, fault, r) ==
  \/ r.ret = 0 /\ Opens(s, skp, m, new, r.session, r.skipped)
  \/ /\ r.ret = OMEMO_EUSER
     /\ LoadFails(fault) \/ (Loaded(skp, m) = {} /\ RefusedOnTheWay(s, skp, m, new))
  \/ r.ret \notin {0, OMEMO_EUSER} /\ Misses(s, skp, m, new, fault)

(* Stepping the chain touches nothing a ratchet step depends on.           *)
LEMMA RatchetedStepped ==
  ASSUME NEW t, NEW n, NEW dh, NEW new
  PROVE  Ratcheted(SteppedTo(t, n), dh, new) = Ratcheted(t, dh, new)
<1>1. /\ SteppedTo(t, n).rk = t.rk /\ SteppedTo(t, n).dhs = t.dhs
      /\ SteppedTo(t, n).ns = t.ns
  BY DEF SteppedTo
<1> QED BY <1>1 DEF Ratcheted

LEMMA DecryptKeyOutcome ==
  ASSUME NEW s \in Session, NEW skp, NEW m \in Incoming, NEW new \in PubKey, NEW fault
  PROVE  DecryptsIn(s, skp, m, new, fault, DecryptKeyImpl(s, skp, m, new, fault))
<1> DEFINE t == s.state
           L == Loaded(skp, m)
           old == GetAmountSkipped(t.nr, m.pn)
           amount == GetAmountSkipped(t.nr, m.n)
           r == DecryptKeyImpl(s, skp, m, new, fault)
<1>0. /\ t \in State /\ t.nr \in Nat /\ m.n \in Nat /\ m.pn \in Nat /\ m.dh \in PubKey
      /\ s.init \in SESSION_UNINIT .. SESSION_HEARTBEAT
  BY DEF Session, State, Incoming
<1>a. CASE LoadFails(fault)
  <2>1. r = [ret |-> OMEMO_EUSER, session |-> s, skipped |-> skp]
    BY <1>a DEF DecryptKeyImpl
  <2> HIDE DEF r
  <2> QED BY <1>a, <2>1 DEF DecryptsIn, r
<1> SUFFICES ASSUME ~LoadFails(fault)
             PROVE  DecryptsIn(s, skp, m, new, fault, DecryptKeyImpl(s, skp, m, new, fault))
  BY <1>a
<1>1. CASE L # {}
  <2> DEFINE k == CHOOSE k \in L : TRUE
             u == Unseal(s, RemoveSkippedKey(skp, L), m, k.mk, fault)
  <2>1. r = u
    BY <1>1 DEF DecryptKeyImpl, Loaded
  <2>2. k \in L
    BY <1>1
  <2> HIDE DEF k
  <2>3. Unseals(s, RemoveSkippedKey(skp, L), m, k.mk, fault, u)
    BY UnsealOutcome
  <2> HIDE DEF L, u, r
  <2>4. CASE r.ret = 0
    <3>1. /\ m.mk = k.mk /\ m.ad = <<s.remoteidentity, s.identity>>
          /\ r.session = WithState(s, SESSION_READY, s.state)
          /\ r.skipped = skp \ L
      BY <2>1, <2>3, <2>4 DEF Unseals, RemoveSkippedKey
    <3>2. r.session.state = s.state
      BY <3>1 DEF WithState
    <3>3. ByKept(s.state, skp, m, r.session.state, r.skipped)
      BY <2>2, <3>1, <3>2 DEF ByKept, L
    <3> QED BY <2>4, <3>1, <3>2, <3>3 DEF DecryptsIn, Opens, r
  <2>5. CASE r.ret # 0
    <3>1. r.ret \notin {0, OMEMO_EUSER} /\ Misses(s, skp, m, new, fault)
      BY <2>1, <2>2, <2>3, <2>5 DEF Unseals, Misses, L
    <3> QED BY <3>1 DEF DecryptsIn, r
  <2> QED BY <2>4, <2>5
<1>2. CASE L = {} /\ t.dhr = m.dh /\ m.n < t.nr
  <2>1. r.ret = OMEMO_EKEYGONE
    BY <1>2 DEF DecryptKeyImpl, Gone, Loaded
  <2>2. Misses(s, skp, m, new, fault)
    BY <1>2 DEF Misses
  <2> HIDE DEF r
  <2> QED BY <2>1, <2>2 DEF DecryptsIn, OMEMO_EKEYGONE, OMEMO_EUSER, r
<1>3. CASE L = {} /\ t.dhr = m.dh /\ ~ (m.n < t.nr)
  <2> DEFINE x == ReceiveNext(SkipMessageKeys(s, skp, m.n, amount), m, fault)
  <2>1. r = x
    BY <1>3 DEF DecryptKeyImpl, Gone, Loaded
  <2>2. ReceivesNext(s, skp, m, amount, fault, x)
    BY <1>0, <1>3, ReceiveNextOutcome
  <2> HIDE DEF L, r, x
  <2>3. CASE r.ret = 0
    <3>1. Opens(s, skp, m, new, r.session, r.skipped)
      BY <1>3, <2>1, <2>2, <2>3 DEF ReceivesNext, Opens, InChain, L, OMEMO_EUSER
    <3> QED BY <2>3, <3>1 DEF DecryptsIn, r
  <2>4. CASE r.ret = OMEMO_EUSER
    <3>1. RefusedOnTheWay(s, skp, m, new)
      BY <1>3, <2>1, <2>2, <2>4 DEF ReceivesNext, RefusedOnTheWay, RefusedIn, OMEMO_EUSER
    <3> QED BY <1>3, <2>4, <3>1 DEF DecryptsIn, L, r
  <2>5. CASE r.ret \notin {0, OMEMO_EUSER}
    <3>1. Misses(s, skp, m, new, fault)
      BY <1>3, <2>1, <2>2, <2>5 DEF ReceivesNext, Misses, L
    <3> QED BY <2>5, <3>1 DEF DecryptsIn, r
  <2> QED BY <2>3, <2>4, <2>5
<1>4. CASE L = {} /\ t.dhr # m.dh
  <2> DEFINE rest == SkipMessageKeys(s, skp, m.pn, old + m.n)
             step == DHRatchet(rest.session.state, m.dh, new, fault)
             t2 == Ratcheted(t, m.dh, new)
             s2 == WithState(s, s.init, t2)
             skp2 == skp \cup PassedKeys(t, m.pn)
  <2>1. r = ReceiveNewChain(rest, m, new, old, fault)
    BY <1>4 DEF DecryptKeyImpl, Gone, Loaded
  <2>2. Skips(s, skp, m.pn, old + m.n, rest)
    BY <1>0, SkipOutcome
  <2>3. t2 \in State /\ s2 \in Session /\ s2.state = t2 /\ t2.nr = 0
    <3>1. t2 \in State
      BY <1>0, RatchetedType
    <3> HIDE DEF t
    <3> QED BY <1>0, <3>1, WithStateType DEF WithState, Ratcheted
  <2> HIDE DEF L, r, t2
  <2>4. CASE rest.ret # 0
    <3>1. r = rest
      BY <2>1, <2>4 DEF ReceiveNewChain
    <3>2. r.ret = OMEMO_EUSER /\ RefusedOnTheWay(s, skp, m, new)
      BY <1>4, <2>2, <2>4, <3>1 DEF Skips, RefusedOnTheWay, RefusedIn
    <3> QED BY <1>4, <3>2 DEF DecryptsIn, L, r
  <2>5. CASE rest.ret = 0
    <3>1. /\ rest.session = WithState(s, s.init, SteppedTo(t, m.pn))
          /\ rest.skipped = skp2
      BY <2>2, <2>5 DEF Skips, OMEMO_EUSER
    <3>2. rest.session.state = SteppedTo(t, m.pn) /\ SteppedTo(t, m.pn) \in State
      BY <1>0, <3>1, SteppedToType DEF WithState
    <3>3. Ratchets(SteppedTo(t, m.pn), m.dh, new, fault, step)
      BY <1>0, <3>2, DHRatchetOutcome
    <3>4. r = ReceiveFirst(rest, step, m, old, fault)
      BY <2>1, <2>5 DEF ReceiveNewChain
    <3> HIDE DEF rest, step
    <3>5. CASE step.ret # 0
      <4>1. fault = "random" /\ step.ret = OMEMO_ERANDOM
        BY <3>3, <3>5 DEF Ratchets
      <4>2. r.ret = OMEMO_ERANDOM
        BY <3>4, <3>5, <4>1 DEF ReceiveFirst
      <4> QED BY <4>1, <4>2 DEF DecryptsIn, Misses, OMEMO_ERANDOM, OMEMO_EUSER, r
    <3>6. CASE step.ret = 0
      <4>1. step.state = t2
        BY <3>3, <3>6, RatchetedStepped DEF Ratchets, OMEMO_ERANDOM, t2
      <4>2. [rest.session EXCEPT !.state = step.state] = s2
        BY <3>1, <4>1 DEF WithState
      <4> DEFINE x == ReceiveNext(SkipMessageKeys(s2, skp2, m.n, old), m, fault)
      <4>3. r = x
        BY <3>1, <3>4, <3>6, <4>2 DEF ReceiveFirst
      <4> HIDE DEF s2, skp2
      <4>4. ReceivesNext(s2, skp2, m, old, fault, x)
        BY <1>0, <2>3, ReceiveNextOutcome
      <4>5. /\ s2.remoteidentity = s.remoteidentity /\ s2.identity = s.identity
            /\ \A v : WithState(s2, SESSION_READY, v) = WithState(s, SESSION_READY, v)
        BY DEF WithState, s2
      <4> HIDE DEF x
      <4>6. CASE r.ret = 0
        <5>1. /\ m.ad = <<s.remoteidentity, s.identity>>
              /\ r.session = WithState(s, SESSION_READY, r.session.state)
              /\ Follows(t2, skp2, m, r.session.state, r.skipped)
          BY <2>3, <4>3, <4>4, <4>5, <4>6 DEF ReceivesNext, OMEMO_EUSER
        <5>2. Opens(s, skp, m, new, r.session, r.skipped)
          BY SMTT(30), <1>4, <5>1 DEF Opens, InNewChain, L, t2, skp2
        <5> QED BY SMTT(30), <4>6, <5>2 DEF DecryptsIn, r
      <4>7. CASE r.ret = OMEMO_EUSER
        <5>1. RefusedOnTheWay(s, skp, m, new)
          BY SMTT(30), <1>4, <4>3, <4>4, <4>7
             DEF ReceivesNext, RefusedOnTheWay, RefusedIn, OMEMO_EUSER, s2, skp2, t2
        <5> QED BY <1>4, <4>7, <5>1 DEF DecryptsIn, L, r
      <4>8. CASE r.ret \notin {0, OMEMO_EUSER}
        <5>1. \/ fault = "crypto" \/ m.mk # KeyAt(t2, m.n)
              \/ m.ad # <<s.remoteidentity, s.identity>>
          BY <2>3, <4>3, <4>4, <4>5, <4>8 DEF ReceivesNext
        <5>2. Misses(s, skp, m, new, fault)
          BY <1>4, <5>1 DEF Misses, L, t2
        <5> QED BY <4>8, <5>2 DEF DecryptsIn, r
      <4> QED BY <4>6, <4>7, <4>8
    <3> QED BY <3>5, <3>6
  <2> QED BY <2>4, <2>5
<1> QED BY <1>1, <1>2, <1>3, <1>4

----------------------------------------------------------------------------
(* The session a message is decrypted in.                                  *)

(* What the look-ups return.                                               *)
LEMMA FoundType ==
  ASSUME NEW st \in Store, NEW id
  PROVE  /\ FindPreKey(st, id) \in PreKey \cup {Null}
         /\ FindSignedPreKey(st, id) \in PreKey \cup {Null}
         /\ FindPreKey(st, id) # Null => FindPreKey(st, id).id = id
<1>1. /\ \A i \in Slot : st.prekeys[i] \in PreKey
      /\ st.cursignedprekey \in PreKey /\ st.prevsignedprekey \in PreKey
  BY DEF Store
<1>2. FindSignedPreKey(st, id) \in PreKey \cup {Null}
  BY <1>1 DEF FindSignedPreKey
<1> DEFINE S == {i \in Slot : st.prekeys[i].id = id}
<1>3. CASE S = {}
  BY <1>2, <1>3 DEF FindPreKey
<1>4. CASE S # {}
  <2> DEFINE i == CHOOSE i \in S : \A j \in S : i <= j
  <2>1. FindPreKey(st, id) = st.prekeys[i]
    BY <1>4 DEF FindPreKey
  <2>2. S \in SUBSET Nat
    BY StoreAssumption DEF Slot
  <2>3. \E j \in S : \A l \in S : j <= l
    <3> HIDE DEF S
    <3> QED BY <1>4, <2>2, LeastExists
  <2>4. i \in S
    BY <2>3
  <2> QED BY <1>1, <1>2, <2>1, <2>4
<1> QED BY <1>3, <1>4

(* The session that accepts a prekey message.                              *)
AcceptedSession(d, s, st, m) ==
  LET spk == Pub(d, "spk", FindSignedPreKey(st, m.spk_id).kp)
      ik == Pub(d, "ik", st.identity)
      t == s.state
  IN [init |-> s.init, identity |-> ik, remoteidentity |-> m.ik,
      state |-> [dhs |-> spk, dhr |-> t.dhr,
                 rk |-> GetSharedSecret(TRUE, ik, spk,
                          Pub(d, "pk", FindPreKey(st, m.pk_id).kp), m.ik, m.ek, m.ek),
                 cks |-> t.cks, ckr |-> t.ckr, ns |-> t.ns, nr |-> t.nr, pn |-> t.pn],
      usedek |-> s.usedek, usedpk_id |-> m.pk_id, usedspk_id |-> s.usedspk_id]

(* The session that has its answer.                                        *)
AnsweredSession(s) ==
  [init |-> s.init, identity |-> s.identity, remoteidentity |-> s.remoteidentity,
   state |-> s.state, usedek |-> Zero, usedpk_id |-> 0, usedspk_id |-> 0]

Findable(st, m) == FindPreKey(st, m.pk_id) # Null /\ FindSignedPreKey(st, m.spk_id) # Null

SessionOf(d, s, st, m, s0) ==
  \/ /\ m.isprekey /\ s.init = SESSION_UNINIT /\ Findable(st, m)
     /\ s0 = AcceptedSession(d, s, st, m)
  \/ m.isprekey /\ s.init \in {SESSION_READY, SESSION_HEARTBEAT} /\ s0 = s
  \/ ~m.isprekey /\ s.init = SESSION_INIT /\ s0 = AnsweredSession(s)
  \/ ~m.isprekey /\ s.init \in {SESSION_READY, SESSION_HEARTBEAT} /\ s0 = s

NoSessionFor(s, st, m) ==
  \/ m.isprekey /\ s.init = SESSION_INIT
  \/ m.isprekey /\ s.init = SESSION_UNINIT /\ ~Findable(st, m)
  \/ ~m.isprekey /\ s.init = SESSION_UNINIT

LEMMA SessionOfType ==
  ASSUME NEW d \in Device, NEW s \in Session, NEW st \in Store, NEW m \in Incoming,
         NEW s0, SessionOf(d, s, st, m, s0)
  PROVE  /\ s0 \in Session
         /\ s0.state.nr = s.state.nr /\ s0.state.dhr = s.state.dhr
         /\ s0.state.ckr = s.state.ckr /\ s0.state.ns = s.state.ns
         /\ s0.state.pn = s.state.pn /\ s0.init = s.init
         /\ s.init # SESSION_UNINIT =>
              /\ s0.state = s.state /\ s0.identity = s.identity
              /\ s0.remoteidentity = s.remoteidentity
<1>1. CASE s0 = s
  BY <1>1
<1>2. CASE s0 = AnsweredSession(s)
  <2>1. s0 \in Session
    BY <1>2, ZeroTypes, StoreAssumption DEF AnsweredSession, Session
  <2> QED BY <1>2, <2>1 DEF AnsweredSession
<1>3. CASE /\ s.init = SESSION_UNINIT /\ Findable(st, m) /\ m.isprekey
           /\ s0 = AcceptedSession(d, s, st, m)
  <2> DEFINE ik == Pub(d, "ik", st.identity)
             spk == Pub(d, "spk", FindSignedPreKey(st, m.spk_id).kp)
             pk == Pub(d, "pk", FindPreKey(st, m.pk_id).kp)
             sk == GetSharedSecret(TRUE, ik, spk, pk, m.ik, m.ek, m.ek)
             t == s.state
             t0 == [dhs |-> spk, dhr |-> t.dhr, rk |-> sk, cks |-> t.cks, ckr |-> t.ckr,
                    ns |-> t.ns, nr |-> t.nr, pn |-> t.pn]
  <2>1. ik \in PubKey
    BY PubType DEF Store, KeyKind
  <2>2. spk \in PubKey
    <3>1. FindSignedPreKey(st, m.spk_id) \in PreKey
      BY <1>3, FoundType DEF Findable
    <3> QED BY <3>1, PubType DEF KeyKind, PreKey
  <2>3. pk \in PubKey
    <3>1. FindPreKey(st, m.pk_id) \in PreKey
      BY <1>3, FoundType DEF Findable
    <3> QED BY <3>1, PubType DEF KeyKind, PreKey
  <2>4. m.ik \in PubKey /\ m.ek \in PubKey /\ m.pk_id \in 0..IdMax
    BY DEF Incoming
  <2> HIDE DEF ik, spk, pk
  <2>5. sk \in RootKey
    BY <2>1, <2>2, <2>3, <2>4, SecretType
  <2> HIDE DEF sk
  <2>6. t0 \in State
    BY <2>2, <2>5 DEF Session, State
  <2>7. s0 = [init |-> s.init, identity |-> ik, remoteidentity |-> m.ik, state |-> t0,
              usedek |-> s.usedek, usedpk_id |-> m.pk_id, usedspk_id |-> s.usedspk_id]
    BY <1>3 DEF AcceptedSession, ik, spk, pk, sk
  <2>8. /\ t0.nr = t.nr /\ t0.dhr = t.dhr /\ t0.ckr = t.ckr /\ t0.ns = t.ns /\ t0.pn = t.pn
    OBVIOUS
  <2> HIDE DEF t0
  <2>9. s0 \in Session
    BY <2>1, <2>4, <2>6, <2>7 DEF Session
  <2> QED BY <1>3, <2>7, <2>8, <2>9
<1> QED BY <1>1, <1>2, <1>3 DEF SessionOf

LEMMA SessionForOutcome ==
  ASSUME NEW d, NEW s \in Session, NEW st, NEW m \in Incoming
  PROVE  LET o == SessionFor(d, s, st, m)
         IN \/ o.ret = 0 /\ SessionOf(d, s, st, m, o.session)
            \/ o.ret \notin {0, OMEMO_EUSER} /\ NoSessionFor(s, st, m)
<1> DEFINE o == SessionFor(d, s, st, m)
<1>0. s.init \in {SESSION_UNINIT, SESSION_INIT, SESSION_READY, SESSION_HEARTBEAT}
  BY DEF Session, SESSION_UNINIT, SESSION_INIT, SESSION_READY, SESSION_HEARTBEAT
<1>1. SESSION_UNINIT = 0 /\ SESSION_INIT = 1 /\ SESSION_READY = 2 /\ SESSION_HEARTBEAT = 3
  BY DEF SESSION_UNINIT, SESSION_INIT, SESSION_READY, SESSION_HEARTBEAT
<1>2. CASE m.isprekey /\ s.init = SESSION_INIT
  <2>1. PreKeyRole(s) = "refuse"
    BY <1>2 DEF PreKeyRole
  <2>2. o.ret = OMEMO_ESTATE
    BY <1>2, <2>1 DEF SessionFor
  <2> QED BY <1>2, <2>2 DEF NoSessionFor, OMEMO_ESTATE, OMEMO_EUSER
<1>3. CASE m.isprekey /\ s.init = SESSION_UNINIT
  <2>1. PreKeyRole(s) = "open"
    BY <1>1, <1>3 DEF PreKeyRole
  <2>2. o = AcceptPreKey(d, s, st, m)
    BY <1>3, <2>1 DEF SessionFor
  <2>3. CASE ~Findable(st, m)
    <3>1. o.ret = OMEMO_ECORRUPT
      BY <2>2, <2>3 DEF Findable, AcceptPreKey
    <3> QED BY <1>3, <2>3, <3>1 DEF NoSessionFor, OMEMO_ECORRUPT, OMEMO_EUSER
  <2>4. CASE Findable(st, m)
    <3> DEFINE ik == Pub(d, "ik", st.identity)
               spk == Pub(d, "spk", FindSignedPreKey(st, m.spk_id).kp)
               pk == Pub(d, "pk", FindPreKey(st, m.pk_id).kp)
               sk == GetSharedSecret(TRUE, ik, spk, pk, m.ik, m.ek, m.ek)
               t == s.state
               t1 == [t EXCEPT !.dhs = spk]
               t2 == [t1 EXCEPT !.rk = sk]
               s1 == [s EXCEPT !.usedpk_id = m.pk_id]
               s2 == [s1 EXCEPT !.identity = ik]
               s3 == [s2 EXCEPT !.remoteidentity = m.ik]
               s4 == [s3 EXCEPT !.state = t2]
    <3>1. o.ret = 0 /\ o.session = s4
      BY <2>2, <2>4 DEF AcceptPreKey, Findable, RatchetInitBob
    <3> HIDE DEF ik, spk, pk, sk, o
    <3>2. t = [dhs |-> t.dhs, dhr |-> t.dhr, rk |-> t.rk, cks |-> t.cks, ckr |-> t.ckr,
               ns |-> t.ns, nr |-> t.nr, pn |-> t.pn]
      BY DEF Session, State
    <3>3. t1 = [dhs |-> spk, dhr |-> t.dhr, rk |-> t.rk, cks |-> t.cks, ckr |-> t.ckr,
                ns |-> t.ns, nr |-> t.nr, pn |-> t.pn]
      BY <3>2
    <3> HIDE DEF t1
    <3>4. t2 = [dhs |-> spk, dhr |-> t.dhr, rk |-> sk, cks |-> t.cks, ckr |-> t.ckr,
                ns |-> t.ns, nr |-> t.nr, pn |-> t.pn]
      BY <3>3
    <3> HIDE DEF t2, t
    <3>5. s = [init |-> s.init, identity |-> s.identity, remoteidentity |-> s.remoteidentity,
               state |-> t, usedek |-> s.usedek, usedpk_id |-> s.usedpk_id,
               usedspk_id |-> s.usedspk_id]
      BY DEF Session, t
    <3>6. s1 = [init |-> s.init, identity |-> s.identity, remoteidentity |-> s.remoteidentity,
                state |-> t, usedek |-> s.usedek, usedpk_id |-> m.pk_id,
                usedspk_id |-> s.usedspk_id]
      BY <3>5
    <3> HIDE DEF s1
    <3>7. s2 = [init |-> s.init, identity |-> ik, remoteidentity |-> s.remoteidentity,
                state |-> t, usedek |-> s.usedek, usedpk_id |-> m.pk_id,
                usedspk_id |-> s.usedspk_id]
      BY <3>6
    <3> HIDE DEF s2
    <3>8. s3 = [init |-> s.init, identity |-> ik, remoteidentity |-> m.ik,
                state |-> t, usedek |-> s.usedek, usedpk_id |-> m.pk_id,
                usedspk_id |-> s.usedspk_id]
      BY <3>7
    <3> HIDE DEF s3
    <3>9. s4 = [init |-> s.init, identity |-> ik, remoteidentity |-> m.ik,
                state |-> t2, usedek |-> s.usedek, usedpk_id |-> m.pk_id,
                usedspk_id |-> s.usedspk_id]
      BY <3>8
    <3> HIDE DEF s4
    <3>10. s4 = AcceptedSession(d, s, st, m)
      BY <3>4, <3>9 DEF AcceptedSession, t, ik, spk, pk, sk
    <3> QED BY <1>3, <2>4, <3>1, <3>10 DEF SessionOf, o
  <2> QED BY <2>3, <2>4
<1>4. CASE m.isprekey /\ s.init \in {SESSION_READY, SESSION_HEARTBEAT}
  <2>1. PreKeyRole(s) = "inner"
    BY <1>1, <1>4 DEF PreKeyRole
  <2>2. o = [ret |-> 0, session |-> s]
    BY <1>4, <2>1 DEF SessionFor
  <2> QED BY <1>4, <2>2 DEF SessionOf
<1>5. CASE ~m.isprekey /\ s.init = SESSION_UNINIT
  <2>1. o.ret = OMEMO_ESTATE
    BY <1>5 DEF SessionFor
  <2> QED BY <1>5, <2>1 DEF NoSessionFor, OMEMO_ESTATE, OMEMO_EUSER
<1>6. CASE ~m.isprekey /\ s.init # SESSION_UNINIT
  <2>1. o = [ret |-> 0, session |-> Answered(s)]
    BY <1>6 DEF SessionFor
  <2>2. CASE s.init = SESSION_INIT
    <3> DEFINE s1 == [s EXCEPT !.usedpk_id = 0]
               s2 == [s1 EXCEPT !.usedspk_id = 0]
               s3 == [s2 EXCEPT !.usedek = Zero]
    <3>1. Answered(s) = s3
      BY <2>2 DEF Answered
    <3>2. s = [init |-> s.init, identity |-> s.identity, remoteidentity |-> s.remoteidentity,
               state |-> s.state, usedek |-> s.usedek, usedpk_id |-> s.usedpk_id,
               usedspk_id |-> s.usedspk_id]
      BY DEF Session
    <3>3. s1 = [init |-> s.init, identity |-> s.identity, remoteidentity |-> s.remoteidentity,
                state |-> s.state, usedek |-> s.usedek, usedpk_id |-> 0,
                usedspk_id |-> s.usedspk_id]
      BY <3>2
    <3> HIDE DEF s1
    <3>4. s2 = [init |-> s.init, identity |-> s.identity, remoteidentity |-> s.remoteidentity,
                state |-> s.state, usedek |-> s.usedek, usedpk_id |-> 0, usedspk_id |-> 0]
      BY <3>3
    <3> HIDE DEF s2
    <3>5. s3 = AnsweredSession(s)
      BY <3>4 DEF AnsweredSession
    <3> QED BY <1>6, <2>1, <2>2, <3>1, <3>5 DEF SessionOf
  <2>3. CASE s.init # SESSION_INIT
    BY <1>0, <1>6, <2>1, <2>3 DEF SessionOf, Answered
  <2> QED BY <2>2, <2>3
<1> QED BY <1>0, <1>2, <1>3, <1>4, <1>5, <1>6 DEF Incoming

----------------------------------------------------------------------------
(* omemoDecryptKey.                                                        *)

Received0(d, s, st, skp, m, new, s1, skp1) ==
  \E s0 \in Session :
    /\ SessionOf(d, s, st, m, s0)
    /\ s0.identity = Pub(d, "ik", st.identity)
    /\ Opens(s0, skp, m, new, s1, skp1)

RefusedAny(d, s, st, skp, m, new) ==
  \E s0 \in Session :
    /\ SessionOf(d, s, st, m, s0)
    /\ Loaded(skp, m) = {} /\ RefusedOnTheWay(s0, skp, m, new)

MissesAny(d, s, st, skp, m, new, fault) ==
  \/ NoSessionFor(s, st, m)
  \/ \E s0 \in Session :
       /\ SessionOf(d, s, st, m, s0)
       /\ s0.identity # Pub(d, "ik", st.identity) \/ Misses(s0, skp, m, new, fault)

DecryptOutcomes(d, s, st, skp, m, new, fault, r) ==
  \/ r.ret = 0 /\ Received0(d, s, st, skp, m, new, r.session, r.skipped)
  \/ /\ r.ret = OMEMO_EUSER /\ r.session = s
     /\ LoadFails(fault) \/ RefusedAny(d, s, st, skp, m, new)
  \/ /\ r.ret \notin {0, OMEMO_EUSER} /\ r.session = s
     /\ MissesAny(d, s, st, skp, m, new, fault)

(* What comes of a decryption is a record of three.                        *)
IsResult(r) == r = [ret |-> r.ret, session |-> r.session, skipped |-> r.skipped]

LEMMA Results ==
  ASSUME NEW s, NEW skp, NEW m, NEW new, NEW fault
  PROVE  IsResult(DecryptKeyImpl(s, skp, m, new, fault))
<1>1. ASSUME NEW t, NEW k, NEW n, NEW full PROVE IsResult(SkipMessageKeys(t, k, n, full))
  BY DEF SkipMessageKeys, SkipTo, IsResult
<1>2. ASSUME NEW t, NEW k, NEW mk PROVE IsResult(Unseal(t, k, m, mk, fault))
  BY DEF Unseal, IsResult
<1>3. ASSUME NEW skip, IsResult(skip) PROVE IsResult(ReceiveNext(skip, m, fault))
  BY <1>2, <1>3 DEF ReceiveNext
<1>4. ASSUME NEW rest, IsResult(rest), NEW step, NEW n
      PROVE  IsResult(ReceiveFirst(rest, step, m, n, fault))
  <2>1. CASE step.ret # 0
    BY <2>1 DEF ReceiveFirst, IsResult
  <2>2. CASE step.ret = 0
    BY <1>1, <1>3, <2>2 DEF ReceiveFirst
  <2> QED BY <2>1, <2>2
<1>5. ASSUME NEW rest, IsResult(rest), NEW n
      PROVE  IsResult(ReceiveNewChain(rest, m, new, n, fault))
  BY <1>4, <1>5 DEF ReceiveNewChain
<1> DEFINE L == omemoLoadMessageKey(skp, m.dh, m.n)
<1>a. CASE LoadFails(fault)
  BY <1>a DEF DecryptKeyImpl, IsResult
<1> SUFFICES ASSUME ~LoadFails(fault) PROVE IsResult(DecryptKeyImpl(s, skp, m, new, fault))
  BY <1>a
<1>6. CASE L # {}
  BY <1>2, <1>6 DEF DecryptKeyImpl
<1>7. CASE L = {} /\ Gone(s, m)
  BY <1>7 DEF DecryptKeyImpl, IsResult
<1>8. CASE L = {} /\ ~Gone(s, m) /\ s.state.dhr # m.dh
  BY <1>1, <1>5, <1>8 DEF DecryptKeyImpl
<1>9. CASE L = {} /\ ~Gone(s, m) /\ ~(s.state.dhr # m.dh)
  BY <1>1, <1>3, <1>9 DEF DecryptKeyImpl
<1> QED BY <1>6, <1>7, <1>8, <1>9

(* A message is opened in one of three ways, or the session is put back.   *)
LEMMA DecryptOutcome ==
  ASSUME NEW d \in Device, NEW s \in Session, NEW st \in Store, NEW skp,
         NEW m \in Incoming, NEW new \in PubKey, NEW fault
  PROVE  DecryptOutcomes(d, s, st, skp, m, new, fault,
                         omemoDecryptKey(d, s, st, skp, m, new, fault))
<1> DEFINE o == SessionFor(d, s, st, m)
           i == DecryptIn(d, o, st, skp, m, new, fault)
           r == omemoDecryptKey(d, s, st, skp, m, new, fault)
           ik == Pub(d, "ik", st.identity)
           x == DecryptKeyImpl(o.session, skp, m, new, fault)
<1>1. \/ o.ret = 0 /\ SessionOf(d, s, st, m, o.session)
      \/ o.ret \notin {0, OMEMO_EUSER} /\ NoSessionFor(s, st, m)
  BY SessionForOutcome
<1>2. r = IF i.ret = 0 THEN i ELSE [i EXCEPT !.session = s]
  BY DEF omemoDecryptKey, DecryptGenericKeyImpl, PutBack
<1>3. IsResult(x)
  BY Results
<1>4. CASE o.ret # 0
  <2>1. /\ i = [ret |-> o.ret, session |-> o.session, skipped |-> skp]
        /\ o.ret \notin {0, OMEMO_EUSER}
    BY <1>1, <1>4 DEF DecryptIn
  <2> HIDE DEF o, i, r
  <2>2. r.ret = o.ret /\ r.session = s
    BY <1>2, <1>4, <2>1
  <2>3. NoSessionFor(s, st, m)
    BY <1>1, <1>4
  <2> QED BY <2>1, <2>2, <2>3 DEF DecryptOutcomes, MissesAny, r
<1>5. CASE o.ret = 0
  <2>1. SessionOf(d, s, st, m, o.session)
    BY <1>1, <1>5
  <2>2. o.session \in Session
    BY <2>1, SessionOfType
  <2>3. CASE o.session.identity # ik
    <3>1. i = [ret |-> OMEMO_ESTORE, session |-> o.session, skipped |-> skp]
      BY <1>5, <2>3 DEF DecryptIn
    <3> HIDE DEF o, i, r, ik
    <3>2. r.ret = OMEMO_ESTORE /\ r.session = s
      BY <1>2, <3>1 DEF OMEMO_ESTORE
    <3>3. MissesAny(d, s, st, skp, m, new, fault)
      BY <2>1, <2>2, <2>3 DEF MissesAny, ik
    <3> QED BY <3>2, <3>3 DEF DecryptOutcomes, OMEMO_ESTORE, OMEMO_EUSER, r
  <2>4. CASE o.session.identity = ik
    <3>1. i = x
      BY <1>5, <2>4 DEF DecryptIn
    <3>2. DecryptsIn(o.session, skp, m, new, fault, x)
      BY <2>2, DecryptKeyOutcome
    <3> HIDE DEF o, i, x, r, ik
    <3>3. CASE x.ret = 0
      <4>1. r = x
        BY <1>2, <3>1, <3>3
      <4>2. Opens(o.session, skp, m, new, r.session, r.skipped)
        BY <3>2, <3>3, <4>1 DEF DecryptsIn, OMEMO_EUSER
      <4>3. Received0(d, s, st, skp, m, new, r.session, r.skipped)
        BY <2>1, <2>2, <2>4, <4>2 DEF Received0, ik
      <4> QED BY <3>3, <4>1, <4>3 DEF DecryptOutcomes, r
    <3>4. CASE x.ret # 0
      <4>1. r.ret = x.ret /\ r.session = s
        BY <1>2, <1>3, <3>1, <3>4 DEF IsResult
      <4>2. CASE x.ret = OMEMO_EUSER
        <5>1. LoadFails(fault) \/ RefusedAny(d, s, st, skp, m, new)
          BY <2>1, <2>2, <3>2, <3>4, <4>2 DEF DecryptsIn, RefusedAny
        <5> QED BY <4>1, <4>2, <5>1 DEF DecryptOutcomes, r
      <4>3. CASE x.ret # OMEMO_EUSER
        <5>1. MissesAny(d, s, st, skp, m, new, fault)
          BY <2>1, <2>2, <3>2, <3>4, <4>3 DEF DecryptsIn, MissesAny
        <5> QED BY <3>4, <4>1, <4>3, <5>1 DEF DecryptOutcomes, r
      <4> QED BY <4>2, <4>3
    <3> QED BY <3>3, <3>4
  <2> QED BY <2>3, <2>4
<1> QED BY <1>4, <1>5
=============================================================================
