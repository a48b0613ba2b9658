--------------------------- MODULE ImClient_proofs ---------------------------
(***************************************************************************)
(* What the example client keeps across its stops and restarts: no key is  *)
(* used twice, no message is shown twice, the next message of the peer     *)
(* opens, and two crossed sessions never come together.                    *)
(*                                                                         *)
(* The callbacks of im.c refuse every skipped key, so only the next        *)
(* message of a chain, or the first of a new one, ever opens.  Everything  *)
(* here is about that discipline, on either end.                           *)
(***************************************************************************)
EXTENDS ImClient, OmemoSession_proofs

Both == {Im, Peer}

Other(d) == IF d = Im THEN Peer ELSE Im

Identity(d) == Pub(d, "ik", store.identity)

SignedKey(d) == Pub(d, "spk", store.cursignedprekey.kp)

(* The keys of device d that are in its store.                             *)
Settled(d) == {Zero} \cup ({d} \X {"ik", "spk", "pk"} \X Nat \X Nat)

LEMMA BothDevices == Device = Both /\ Im # Peer
  BY ImAssumption DEF Both

LEMMA StoreType == store \in Store
<1>1. NumPreKeys + 3 \in Nat
  BY StoreAssumption
<1> QED BY <1>1, SetupOutcome DEF store

LEMMA PubSettled ==
  ASSUME NEW d, NEW kind \in {"ik", "spk", "pk"}, NEW kp \in Key
  PROVE  Pub(d, kind, kp) \in Settled(d)
  BY DEF Pub, Settled, Key

LEMMA SettledType ==
  ASSUME NEW d \in Device PROVE Settled(d) \subseteq PubKey
  BY DEF Settled, PubKey

LEMMA StoreKeys ==
  ASSUME NEW d \in Device, NEW i \in Slot
  PROVE  /\ Identity(d) \in Settled(d) /\ SignedKey(d) \in Settled(d)
         /\ Pub(d, "pk", store.prekeys[i].kp) \in Settled(d)
         /\ Identity(d) \in PubKey /\ SignedKey(d) \in PubKey
         /\ Pub(d, "pk", store.prekeys[i].kp) \in PubKey
<1>1. /\ store.identity \in Key /\ store.cursignedprekey.kp \in Key
      /\ store.prekeys[i].kp \in Key
  BY StoreType DEF Store, PreKey
<1> QED BY <1>1, PubSettled, SettledType DEF Identity, SignedKey

----------------------------------------------------------------------------
(* Setting up, from the bundle of the other device.                        *)

(* A secret of device d: what it derives its first root key from, of its   *)
(* own keys and of the keys "with".                                        *)
Secret(d, sk, with) ==
  /\ sk \in RootKey /\ Len(sk) = 4
  /\ \A i \in 1..4 : \A k \in sk[i] : k \in with \cup Settled(d)

LEMMA SecretOf ==
  ASSUME NEW isbob \in BOOLEAN, NEW ika \in PubKey, NEW ska \in PubKey, NEW eka \in PubKey,
         NEW ikb \in PubKey, NEW spkb \in PubKey, NEW opkb \in PubKey, NEW d, NEW with,
         {ika, ska, eka, ikb, spkb, opkb} \subseteq with \cup Settled(d)
  PROVE  Secret(d, GetSharedSecret(isbob, ika, ska, eka, ikb, spkb, opkb), with)
<1> DEFINE sk == GetSharedSecret(isbob, ika, ska, eka, ikb, spkb, opkb)
           a == DH(IF isbob THEN ska ELSE ika, IF isbob THEN ikb ELSE spkb)
           b == DH(IF isbob THEN ika ELSE ska, IF isbob THEN spkb ELSE ikb)
           c == DH(ska, spkb)
           e == DH(eka, opkb)
           all == with \cup Settled(d)
<1>1. sk \in RootKey /\ Len(sk) = 4
  BY SecretType
<1>2. \A k : k \in a \/ k \in b \/ k \in c \/ k \in e => k \in all
  BY DEF DH
<1>3. sk = <<a, b, c, e>>
  BY DEF GetSharedSecret
<1> HIDE DEF a, b, c, e, all, sk
<1>4. sk[1] = a /\ sk[2] = b /\ sk[3] = c /\ sk[4] = e
  BY <1>3
<1>5. \A i \in 1..4 : sk[i] \in {a, b, c, e}
  BY <1>4
<1>6. \A i \in 1..4 : \A k \in sk[i] : k \in all
  BY <1>2, <1>5
<1> QED BY <1>1, <1>6 DEF Secret, sk, all

(* The session that device d sets up with the other one.                   *)
SetUp(d, key, s1) ==
  /\ s1 \in Session
  /\ s1.init = SESSION_INIT
  /\ s1.identity = Identity(d) /\ s1.remoteidentity = Identity(Other(d))
  /\ s1.state.dhs = key /\ s1.state.dhr = SignedKey(Other(d))
  /\ s1.state.cks = FirstChain(s1.state.rk) /\ s1.state.ckr = ZeroChain
  /\ s1.state.ns = 0 /\ s1.state.nr = 0 /\ s1.state.pn = 0
  /\ s1.usedek = key
  /\ \E sk : /\ Secret(d, sk, {key} \cup Settled(Other(d)))
             /\ s1.state.rk = DeriveRootKey(sk, key, SignedKey(Other(d)))

LEMMA SetUpOutcome ==
  ASSUME NEW d \in Device, NEW s \in Session, NEW i \in Slot, NEW key \in PubKey,
         NEW fault, fault # "derive"
  PROVE  LET r == omemoInitiateSession(d, s, store, Bundle(Other(d), i), key, fault)
         IN \/ r.ret # 0 /\ r.session = s
            \/ r.ret = 0 /\ SetUp(d, key, r.session)
<1> DEFINE b == Bundle(Other(d), i)
           r == omemoInitiateSession(d, s, store, b, key, fault)
           ik == Identity(d)
           sk == GetSharedSecret(FALSE, ik, key, key, b.ik, b.spk, b.pk)
           t == RatchetInitAlice(sk, b.spk, key)
           new == [init |-> SESSION_INIT, identity |-> ik, remoteidentity |-> b.ik,
                   state |-> t, usedek |-> key, usedpk_id |-> b.pk_id,
                   usedspk_id |-> b.spk_id]
<1>1. \/ r.ret # 0 /\ r.session = s
      \/ r.ret = 0 /\ r.session = new
  BY DEF omemoInitiateSession, OMEMO_ECORRUPT, OMEMO_ERANDOM, Identity
<1>2. Other(d) \in Device
  BY BothDevices DEF Other, Both
<1>3. /\ b.ik = Identity(Other(d)) /\ b.spk = SignedKey(Other(d))
      /\ b.pk = Pub(Other(d), "pk", store.prekeys[i].kp)
      /\ b.pk_id = store.prekeys[i].id /\ b.spk_id = store.cursignedprekey.id
  BY DEF Bundle, Identity, SignedKey
<1>4. b.pk_id \in 0..IdMax /\ b.spk_id \in 0..IdMax
  BY <1>3, StoreType DEF Store, PreKey
<1>5. /\ b.ik \in PubKey /\ b.spk \in PubKey /\ b.pk \in PubKey /\ ik \in PubKey
      /\ {b.ik, b.spk, b.pk} \subseteq Settled(Other(d)) /\ ik \in Settled(d)
  BY <1>2, <1>3, StoreKeys
<1> HIDE DEF b, ik
<1> DEFINE with == {key} \cup Settled(Other(d))
<1>6. sk \in RootKey /\ Secret(d, sk, with)
  <2>1. {ik, key, key, b.ik, b.spk, b.pk} \subseteq with \cup Settled(d)
    BY <1>5
  <2> HIDE DEF with
  <2>2. Secret(d, sk, with)
    BY <1>5, <2>1, SecretOf
  <2> QED BY <2>2 DEF Secret
<1> HIDE DEF sk, with
<1> DEFINE rk == DeriveRootKey(sk, key, b.spk)
           root == [root |-> rk, i |-> 0]
<1>7. rk \in RootKey
  BY <1>5, <1>6, DeriveType
<1>8. t = [dhs |-> key, dhr |-> b.spk, rk |-> rk, cks |-> root, ckr |-> ZeroChain,
           ns |-> 0, nr |-> 0, pn |-> 0]
  <2> DEFINE z1 == [ZeroState EXCEPT !.dhs = key]
             z2 == [z1 EXCEPT !.dhr = b.spk]
             z3 == [z2 EXCEPT !.rk = rk]
             z4 == [z3 EXCEPT !.cks = root]
  <2>1. t = z4
    BY DEF RatchetInitAlice, FirstChain
  <2> HIDE DEF rk, t, root
  <2> USE DEF ZeroState
  <2>2. z1 = [dhs |-> key, dhr |-> Zero, rk |-> Zero, cks |-> ZeroChain,
              ckr |-> ZeroChain, ns |-> 0, nr |-> 0, pn |-> 0]
    OBVIOUS
  <2> HIDE DEF z1
  <2>3. z2 = [dhs |-> key, dhr |-> b.spk, rk |-> Zero, cks |-> ZeroChain,
              ckr |-> ZeroChain, ns |-> 0, nr |-> 0, pn |-> 0]
    BY <2>2
  <2> HIDE DEF z2
  <2>4. z3 = [dhs |-> key, dhr |-> b.spk, rk |-> rk, cks |-> ZeroChain,
              ckr |-> ZeroChain, ns |-> 0, nr |-> 0, pn |-> 0]
    BY <2>3
  <2> HIDE DEF z3
  <2>5. z4 = [dhs |-> key, dhr |-> b.spk, rk |-> rk, cks |-> root, ckr |-> ZeroChain,
              ns |-> 0, nr |-> 0, pn |-> 0]
    BY <2>4
  <2> QED BY <2>1, <2>5
<1> HIDE DEF rk, t
<1>9. t \in State
  BY <1>5, <1>7, <1>8, ZeroTypes DEF State, ChainKey, ZeroChain
<1>10. new \in Session
  BY <1>4, <1>5, <1>9 DEF Session, SESSION_INIT, SESSION_UNINIT, SESSION_HEARTBEAT
<1>11. SetUp(d, key, new)
  <2>1. \E x : Secret(d, x, with) /\ t.rk = DeriveRootKey(x, key, SignedKey(Other(d)))
    BY <1>3, <1>6, <1>8 DEF rk
  <2> QED BY <1>3, <1>8, <1>10, <2>1 DEF SetUp, FirstChain, with, ik
<1> HIDE DEF new, r
<1>12. \/ r.ret # 0 /\ r.session = s
       \/ r.ret = 0 /\ SetUp(d, key, r.session)
  BY <1>1, <1>11
<1> QED BY <1>12 DEF r, b

----------------------------------------------------------------------------
(* Receiving, with callbacks that refuse every key.                        *)

LEMMA EveryKeyRefused ==
  ASSUME Callbacks = "refuse", NEW s \in Session, NEW n \in Nat, NEW full,
         SkipMessageKeys(s, {}, n, full).ret = 0
  PROVE  n <= s.state.nr
<1>0. s.state.nr \in Nat
  BY DEF Session, State
<1>1. CASE s.state.nr < n
  <2>1. s.state.nr \in Refused(s, {}, n, full)
    BY <1>0, <1>1 DEF Refused, StoreRefuses
  <2>2. Skips(s, {}, n, full, SkipMessageKeys(s, {}, n, full))
    BY SkipOutcome
  <2> QED BY <1>1, <2>1, <2>2 DEF Skips, OMEMO_EUSER
<1> QED BY <1>0, <1>1

(* Only the next message of the chain opens, or the first of a new one     *)
(* whose chain before it was received to its end.                          *)
LEMMA NothingSkipped ==
  ASSUME Callbacks = "refuse", NEW s \in Session, NEW m \in Message, NEW new \in PubKey,
         NEW fault, DecryptKeyImpl(s, {}, m, new, fault).ret = 0
  PROVE  /\ s.state.dhr = m.dh => m.n <= s.state.nr
         /\ s.state.dhr # m.dh => m.n = 0 /\ m.pn <= s.state.nr
<1> DEFINE t == s.state
           old == GetAmountSkipped(t.nr, m.pn)
           amount == GetAmountSkipped(t.nr, m.n)
           x == DecryptKeyImpl(s, {}, m, new, fault)
<1>0. /\ t \in State /\ t.nr \in Nat /\ m.n \in Nat /\ m.pn \in Nat /\ m.dh \in PubKey
      /\ s.init \in SESSION_UNINIT .. SESSION_HEARTBEAT
  BY DEF Session, State, Message
<1>1. omemoLoadMessageKey({}, m.dh, m.n) = {} /\ ~LoadFails(fault)
  BY DEF omemoLoadMessageKey, DecryptKeyImpl, OMEMO_EUSER
<1>2. ~Gone(s, m)
  BY <1>1 DEF DecryptKeyImpl, OMEMO_EKEYGONE
<1>3. CASE t.dhr = m.dh
  <2> DEFINE skip == SkipMessageKeys(s, {}, m.n, amount)
  <2>1. x = ReceiveNext(skip, m, fault)
    BY <1>1, <1>2, <1>3 DEF DecryptKeyImpl
  <2>2. skip.ret = 0
    <3> HIDE DEF skip
    <3> QED BY <2>1 DEF ReceiveNext
  <2>3. m.n <= t.nr
    BY <1>0, <2>2, EveryKeyRefused
  <2> QED BY <1>3, <2>3
<1>4. CASE t.dhr # m.dh
  <2> DEFINE rest == SkipMessageKeys(s, {}, m.pn, old + m.n)
             step == DHRatchet(rest.session.state, m.dh, new, fault)
             t2 == Ratcheted(t, m.dh, new)
             s2 == WithState(s, s.init, t2)
  <2>1. x = ReceiveNewChain(rest, m, new, old, fault)
    BY <1>1, <1>2, <1>4 DEF DecryptKeyImpl
  <2>2. rest.ret = 0
    <3> HIDE DEF rest
    <3> QED BY <2>1 DEF ReceiveNewChain
  <2>3. m.pn <= t.nr
    BY <1>0, <2>2, EveryKeyRefused
  <2>4. rest = [ret |-> 0, session |-> s, skipped |-> {}]
    BY <2>3 DEF SkipMessageKeys
  <2>5. x = ReceiveFirst(rest, step, m, old, fault) /\ rest.session = s /\ rest.skipped = {}
    <3>1. x = ReceiveFirst(rest, step, m, old, fault)
      BY <2>1, <2>2 DEF ReceiveNewChain
    <3> HIDE DEF rest, step
    <3> QED BY <2>4, <3>1
  <2>6. Ratchets(t, m.dh, new, fault, step)
    BY <1>0, <2>5, DHRatchetOutcome
  <2> HIDE DEF rest, step
  <2>7. step.ret = 0
    BY <2>5 DEF ReceiveFirst
  <2>8. step.state = t2
    BY <2>6, <2>7 DEF Ratchets, OMEMO_ERANDOM
  <2> DEFINE skip == SkipMessageKeys(s2, {}, m.n, old)
  <2>9. [s EXCEPT !.state = t2] = s2
    BY DEF WithState, Session
  <2>10. x = ReceiveNext(skip, m, fault)
    BY <2>5, <2>7, <2>8, <2>9 DEF ReceiveFirst
  <2>11. skip.ret = 0
    <3> HIDE DEF skip
    <3> QED BY <2>10 DEF ReceiveNext
  <2>12. s2 \in Session /\ s2.state.nr = 0
    <3>1. t2 \in State /\ t2.nr = 0
      BY <1>0, RatchetedType DEF Ratcheted
    <3> HIDE DEF t2
    <3> QED BY <1>0, <3>1, WithStateType DEF WithState
  <2> HIDE DEF s2
  <2>13. m.n <= 0
    BY <1>0, <2>11, <2>12, EveryKeyRefused
  <2> QED BY <1>0, <1>4, <2>3, <2>13
<1> QED BY <1>3, <1>4

(* When no key pair can be generated, no key has been kept yet.            *)
LEMMA NothingKept ==
  ASSUME Callbacks = "refuse", NEW s \in Session, NEW m \in Message, NEW new, NEW fault,
         DecryptKeyImpl(s, {}, m, new, fault).ret = OMEMO_ERANDOM
  PROVE  DecryptKeyImpl(s, {}, m, new, fault).skipped = {}
<1> DEFINE x == DecryptKeyImpl(s, {}, m, new, fault)
           old == GetAmountSkipped(s.state.nr, m.pn)
           rest == SkipMessageKeys(s, {}, m.pn, old + m.n)
           step == DHRatchet(rest.session.state, m.dh, new, fault)
<1>1. ASSUME NEW t, NEW k, NEW n, NEW full
      PROVE  SkipMessageKeys(t, k, n, full).ret \in {0, OMEMO_EUSER}
  BY DEF SkipMessageKeys, SkipTo
<1>2. ASSUME NEW skip, skip.ret \in {0, OMEMO_EUSER}
      PROVE  ReceiveNext(skip, m, fault).ret # OMEMO_ERANDOM
  BY <1>2 DEF ReceiveNext, Unseal, OMEMO_EUSER, OMEMO_ERANDOM, OMEMO_ECRYPTO, OMEMO_ECORRUPT
<1>3. /\ omemoLoadMessageKey({}, m.dh, m.n) = {} /\ ~LoadFails(fault) /\ ~Gone(s, m)
  <2>1. omemoLoadMessageKey({}, m.dh, m.n) = {}
    BY DEF omemoLoadMessageKey
  <2> QED BY <2>1 DEF DecryptKeyImpl, OMEMO_EUSER, OMEMO_EKEYGONE, OMEMO_ERANDOM
<1>4. s.state.dhr # m.dh
  BY <1>1, <1>2, <1>3 DEF DecryptKeyImpl
<1>5. x = ReceiveNewChain(rest, m, new, old, fault)
  BY <1>3, <1>4 DEF DecryptKeyImpl
<1>6. rest.ret \in {0, OMEMO_EUSER} /\ m.pn \in Nat
  BY <1>1 DEF Message
<1> HIDE DEF x
<1>7. rest.ret = 0
  <2> HIDE DEF rest
  <2> QED BY <1>5, <1>6 DEF ReceiveNewChain, OMEMO_EUSER, OMEMO_ERANDOM, x
<1>8. rest.skipped = {}
  <2>1. s.state.nr \in Nat /\ m.pn <= s.state.nr
    BY <1>6, <1>7, EveryKeyRefused DEF Session, State
  <2> QED BY <1>6, <2>1 DEF SkipMessageKeys
<1> HIDE DEF rest
<1>9. x = ReceiveFirst(rest, step, m, old, fault)
  BY <1>5, <1>7 DEF ReceiveNewChain
<1> HIDE DEF step
<1>10. step.ret # 0
  BY <1>1, <1>2, <1>9 DEF ReceiveFirst, x
<1>11. x.skipped = rest.skipped
  BY <1>9, <1>10 DEF ReceiveFirst
<1> QED BY <1>8, <1>11 DEF x

(* The message is the next one of the chain.                               *)
Onward(t, m, t1) ==
  /\ t.dhr = m.dh /\ m.n = t.nr /\ m.mk = t.ckr
  /\ t1.dhs = t.dhs /\ t1.dhr = t.dhr /\ t1.rk = t.rk /\ t1.cks = t.cks
  /\ t1.ckr.root = t.ckr.root /\ t1.ckr.i = t.ckr.i + 1
  /\ t1.ns = t.ns /\ t1.nr = t.nr + 1 /\ t1.pn = t.pn

(* The message is the first one of a new chain; "rk", "dhs" and "ns" are   *)
(* what the state had before.                                              *)
Turn(rk, dhs, ns, m, new, t1) ==
  /\ m.n = 0 /\ m.mk = FirstChain(DeriveRootKey(rk, dhs, m.dh))
  /\ t1.dhs = new /\ t1.dhr = m.dh
  /\ t1.rk = DeriveRootKey(m.mk.root, new, m.dh)
  /\ t1.cks = FirstChain(t1.rk)
  /\ t1.ckr.root = m.mk.root /\ t1.ckr.i = 1
  /\ t1.ns = 0 /\ t1.nr = 1 /\ t1.pn = ns

LEMMA FollowsOnward ==
  ASSUME NEW t \in State, NEW m \in Message, NEW t1, NEW skp1,
         t.dhr = m.dh, m.n <= t.nr, Follows(t, {}, m, t1, skp1)
  PROVE  Onward(t, m, t1) /\ skp1 = {}
<1>1. t.nr \in Nat /\ m.n \in Nat /\ t.ckr \in ChainKey
  BY DEF State, Message
<1>2. m.n = t.nr /\ t.nr .. m.n - 1 = {}
  BY <1>1 DEF Follows
<1>3. KeyAt(t, m.n) = t.ckr /\ KeyAt(t, m.n + 1) = [root |-> t.ckr.root, i |-> t.ckr.i + 1]
  BY <1>1, <1>2 DEF KeyAt, ChainKey
<1>4. t1 = [dhs |-> t.dhs, dhr |-> t.dhr, rk |-> t.rk, cks |-> t.cks,
            ckr |-> KeyAt(t, m.n + 1), ns |-> t.ns, nr |-> m.n + 1, pn |-> t.pn]
  BY <1>1, <1>2 DEF Follows, SteppedTo
<1>5. PassedKeys(t, m.n) = {}
  BY <1>2 DEF PassedKeys
<1> QED BY <1>2, <1>3, <1>4, <1>5 DEF Follows, Onward

LEMMA FollowsTurn ==
  ASSUME NEW t \in State, NEW m \in Message, NEW new \in PubKey, NEW t1, NEW skp1,
         m.n = 0, m.pn <= t.nr,
         Follows(Ratcheted(t, m.dh, new), {} \cup PassedKeys(t, m.pn), m, t1, skp1)
  PROVE  Turn(t.rk, t.dhs, t.ns, m, new, t1) /\ skp1 = {}
<1> DEFINE rk1 == DeriveRootKey(t.rk, t.dhs, m.dh)
           rk2 == DeriveRootKey(rk1, new, m.dh)
           t2 == Ratcheted(t, m.dh, new)
<1>1. t.nr \in Nat /\ m.pn \in Nat
  BY DEF State, Message
<1>2. t2 = [dhs |-> new, dhr |-> m.dh, rk |-> rk2, cks |-> FirstChain(rk2),
            ckr |-> [root |-> rk1, i |-> 0], ns |-> 0, nr |-> 0, pn |-> t.ns]
  BY DEF Ratcheted, FirstChain
<1>3. PassedKeys(t, m.pn) = {}
  <2>1. t.nr .. m.pn - 1 = {}
    BY <1>1
  <2> QED BY <2>1 DEF PassedKeys
<1> HIDE DEF t2, rk1, rk2
<1>4. Follows(t2, {}, m, t1, skp1)
  BY <1>3 DEF t2
<1>5. PassedKeys(t2, m.n) = {}
  <2>1. t2.nr .. m.n - 1 = {}
    BY <1>2
  <2> QED BY <2>1 DEF PassedKeys
<1>6. KeyAt(t2, 0) = [root |-> rk1, i |-> 0] /\ KeyAt(t2, 1) = [root |-> rk1, i |-> 1]
  BY <1>2 DEF KeyAt
<1>7. t1 = [dhs |-> new, dhr |-> m.dh, rk |-> rk2, cks |-> FirstChain(rk2),
            ckr |-> [root |-> rk1, i |-> 1], ns |-> 0, nr |-> 1, pn |-> t.ns]
  BY <1>2, <1>4, <1>6 DEF Follows, SteppedTo
<1>8. m.mk = [root |-> rk1, i |-> 0] /\ skp1 = {}
  BY <1>4, <1>5, <1>6 DEF Follows
<1> QED BY <1>7, <1>8 DEF Turn, rk1, rk2, FirstChain

(* Device d, whose session is s, opens the message m: its session is s1    *)
(* after it.  "new" is the key pair generated for it.                      *)
Took(d, s, m, new, s1) ==
  /\ s1 \in Session /\ s1.init = SESSION_READY
  /\ s1.identity = Identity(d) /\ m.ad = <<s1.remoteidentity, Identity(d)>>
  /\ s1.usedek \in {s.usedek, Zero}
  /\ s.init = SESSION_INIT => ~m.isprekey
  /\ \/ /\ s.init # SESSION_UNINIT
        /\ \/ Onward(s.state, m, s1.state)
           \/ /\ s.state.dhr # m.dh /\ m.pn <= s.state.nr
              /\ Turn(s.state.rk, s.state.dhs, s.state.ns, m, new, s1.state)
     \/ /\ s.init = SESSION_UNINIT /\ m.isprekey
        /\ \E sk, spk : /\ Secret(d, sk, {m.ik, m.ek}) /\ spk \in Settled(d)
                        /\ Turn(sk, spk, s.state.ns, m, new, s1.state)

LEMMA AcceptedSecret ==
  ASSUME NEW d \in Device, NEW s \in Session, NEW m \in Message, Findable(store, m)
  PROVE  LET s0 == AcceptedSession(d, s, store, m)
         IN /\ Secret(d, s0.state.rk, {m.ik, m.ek}) /\ s0.state.dhs \in Settled(d)
            /\ s0.usedek = s.usedek /\ s0.state.ns = s.state.ns /\ s0.state.dhr = s.state.dhr
<1> DEFINE ik == Identity(d)
           spk == Pub(d, "spk", FindSignedPreKey(store, m.spk_id).kp)
           pk == Pub(d, "pk", FindPreKey(store, m.pk_id).kp)
           sk == GetSharedSecret(TRUE, ik, spk, pk, m.ik, m.ek, m.ek)
           s0 == AcceptedSession(d, s, store, m)
<1>1. /\ FindSignedPreKey(store, m.spk_id).kp \in Key
      /\ FindPreKey(store, m.pk_id).kp \in Key
      /\ store.identity \in Key
  <2>1. /\ FindSignedPreKey(store, m.spk_id) \in PreKey
        /\ FindPreKey(store, m.pk_id) \in PreKey
    BY StoreType, FoundType DEF Findable
  <2> QED BY <2>1, StoreType DEF PreKey, Store
<1>2. {ik, spk, pk} \subseteq Settled(d)
  BY <1>1, PubSettled DEF Identity
<1>3. ik \in PubKey /\ spk \in PubKey /\ pk \in PubKey /\ m.ik \in PubKey /\ m.ek \in PubKey
  BY <1>2, SettledType DEF Message
<1>4. s0.state.rk = sk /\ s0.state.dhs = spk
  BY DEF AcceptedSession, Identity
<1>5. s0.usedek = s.usedek /\ s0.state.ns = s.state.ns /\ s0.state.dhr = s.state.dhr
  BY DEF AcceptedSession
<1> HIDE DEF ik, spk, pk, s0
<1>6. Secret(d, sk, {m.ik, m.ek})
  <2>1. {ik, spk, pk, m.ik, m.ek, m.ek} \subseteq {m.ik, m.ek} \cup Settled(d)
    BY <1>2
  <2> QED BY <1>3, <2>1, SecretOf
<1> HIDE DEF sk
<1>7. Secret(d, s0.state.rk, {m.ik, m.ek}) /\ s0.state.dhs \in Settled(d)
  BY <1>2, <1>4, <1>6
<1> QED BY <1>5, <1>7 DEF s0

LEMMA TookOutcome ==
  ASSUME Callbacks = "refuse", NEW d \in Device, NEW s \in Session, NEW m \in Message,
         NEW new \in PubKey, NEW fault, m.dh # Zero,
         s.init = SESSION_UNINIT => s.state = ZeroState
  PROVE  LET r == omemoDecryptKey(d, s, store, {}, m, new, fault)
         IN \/ r.ret # 0 /\ r.session = s /\ (NotRefused(r) => r.skipped = {})
            \/ r.ret = 0 /\ r.skipped = {} /\ Took(d, s, m, new, r.session)
<1> DEFINE o == SessionFor(d, s, store, m)
           i == DecryptIn(d, o, store, {}, m, new, fault)
           r == omemoDecryptKey(d, s, store, {}, m, new, fault)
           x == DecryptKeyImpl(o.session, {}, m, new, fault)
           done == r.skipped = {} /\ Took(d, s, m, new, r.session)
<1>1. m \in Incoming
  BY DEF Message, Incoming, ChainKey
<1>2. DecryptOutcomes(d, s, store, {}, m, new, fault, r)
  BY <1>1, StoreType, DecryptOutcome
<1>3. ASSUME r.ret # 0 PROVE r.session = s
  BY <1>2, <1>3 DEF DecryptOutcomes
<1>4. ASSUME r.ret = 0 PROVE done
  <2>1. r = IF i.ret = 0 THEN i ELSE [i EXCEPT !.session = s]
    BY DEF omemoDecryptKey, DecryptGenericKeyImpl, PutBack
  <2>2. o.ret = 0 /\ x.ret = 0
    <3>1. i.ret = 0
      <4>1. CASE i.ret # 0
        <5>1. r.ret = i.ret
          <6>1. IsResult(i)
            BY Results DEF DecryptIn, IsResult
          <6> HIDE DEF i, r
          <6> QED BY <2>1, <4>1, <6>1 DEF IsResult
        <5> QED BY <1>4, <4>1, <5>1
      <4> QED BY <4>1
    <3>2. o.ret = 0
      BY <3>1 DEF DecryptIn
    <3>3. i = x
      BY <3>1, <3>2 DEF DecryptIn, OMEMO_ESTORE
    <3> QED BY <3>1, <3>2, <3>3
  <2>3. SessionOf(d, s, store, m, o.session)
    BY <1>1, <2>2, SessionForOutcome
  <2>4. /\ o.session \in Session
        /\ o.session.state.nr = s.state.nr /\ o.session.state.dhr = s.state.dhr
    BY <1>1, <2>3, StoreType, SessionOfType
  <2>5. /\ s.state.dhr = m.dh => m.n <= s.state.nr
        /\ s.state.dhr # m.dh => m.n = 0 /\ m.pn <= s.state.nr
    <3> HIDE DEF o
    <3> QED BY <2>2, <2>4, NothingSkipped
  <2> HIDE DEF o, i, x
  <2>6. PICK s0 \in Session :
          /\ SessionOf(d, s, store, m, s0)
          /\ s0.identity = Pub(d, "ik", store.identity)
          /\ Opens(s0, {}, m, new, r.session, r.skipped)
    BY <1>2, <1>4 DEF DecryptOutcomes, Received0, OMEMO_EUSER
  <2> HIDE DEF r
  <2>7. /\ s0.state.nr = s.state.nr /\ s0.state.dhr = s.state.dhr /\ s0.init = s.init
        /\ s.init # SESSION_UNINIT =>
             s0.state = s.state /\ s0.remoteidentity = s.remoteidentity
        /\ s0.state \in State
    BY <1>1, <2>6, StoreType, SessionOfType DEF Session
  <2>8. /\ s0.usedek \in {s.usedek, Zero}
        /\ s.init = SESSION_INIT => ~m.isprekey
        /\ s.init = SESSION_UNINIT =>
             /\ m.isprekey /\ s0.state.ns = s.state.ns
             /\ Secret(d, s0.state.rk, {m.ik, m.ek}) /\ s0.state.dhs \in Settled(d)
    <3>1. SESSION_UNINIT = 0 /\ SESSION_INIT = 1 /\ SESSION_READY = 2 /\ SESSION_HEARTBEAT = 3
      BY DEF SESSION_UNINIT, SESSION_INIT, SESSION_READY, SESSION_HEARTBEAT
    <3>2. CASE m.isprekey /\ s.init = SESSION_UNINIT /\ Findable(store, m)
               /\ s0 = AcceptedSession(d, s, store, m)
      BY <3>1, <3>2, AcceptedSecret
    <3>3. CASE m.isprekey /\ s.init \in {SESSION_READY, SESSION_HEARTBEAT} /\ s0 = s
      BY <3>1, <3>3
    <3>4. CASE ~m.isprekey /\ s.init = SESSION_INIT /\ s0 = AnsweredSession(s)
      BY <3>1, <3>4 DEF AnsweredSession
    <3>5. CASE ~m.isprekey /\ s.init \in {SESSION_READY, SESSION_HEARTBEAT} /\ s0 = s
      BY <3>1, <3>5
    <3> QED BY <2>6, <3>2, <3>3, <3>4, <3>5 DEF SessionOf
  <2> DEFINE t == s0.state
             t1 == r.session.state
  <2>9. /\ r.session = WithState(s0, SESSION_READY, t1)
        /\ m.ad = <<s0.remoteidentity, s0.identity>>
    BY <2>6 DEF Opens
  <2>10. \/ /\ t.dhr = m.dh /\ Follows(t, {}, m, t1, r.skipped)
         \/ /\ t.dhr # m.dh
            /\ Follows(Ratcheted(t, m.dh, new), {} \cup PassedKeys(t, m.pn), m, t1, r.skipped)
    <3>1. Loaded({}, m) = {}
      BY DEF Loaded, omemoLoadMessageKey
    <3> QED BY <2>6, <3>1 DEF Opens, ByKept, InChain, InNewChain
  <2> HIDE DEF t, t1
  <2>11. \/ t.dhr = m.dh /\ Onward(t, m, t1)
         \/ t.dhr # m.dh /\ m.pn <= t.nr /\ Turn(t.rk, t.dhs, t.ns, m, new, t1)
    BY <2>5, <2>7, <2>10, FollowsOnward, FollowsTurn DEF t
  <2>12. r.skipped = {}
    BY <2>5, <2>7, <2>10, FollowsOnward, FollowsTurn DEF t
  <2>13. t1 \in State
    <3>1. t \in State /\ m.n \in Nat /\ m.dh \in PubKey
      BY <2>7 DEF t, Message
    <3>2. Ratcheted(t, m.dh, new) \in State
      BY <3>1, RatchetedType
    <3>3. t1 = SteppedTo(t, m.n + 1) \/ t1 = SteppedTo(Ratcheted(t, m.dh, new), m.n + 1)
      BY <2>10 DEF Follows
    <3> QED BY <3>1, <3>2, <3>3, SteppedToType
  <2>14. /\ r.session \in Session /\ r.session.init = SESSION_READY
         /\ r.session.identity = s0.identity /\ r.session.remoteidentity = s0.remoteidentity
         /\ r.session.usedek = s0.usedek
    <3>1. SESSION_READY \in SESSION_UNINIT .. SESSION_HEARTBEAT
      BY DEF SESSION_READY, SESSION_UNINIT, SESSION_HEARTBEAT
    <3> QED BY <2>9, <2>13, <3>1, WithStateType DEF WithState
  <2>15. CASE s.init # SESSION_UNINIT
    <3>1. \/ Onward(s.state, m, t1)
          \/ s.state.dhr # m.dh /\ m.pn <= s.state.nr
               /\ Turn(s.state.rk, s.state.dhs, s.state.ns, m, new, t1)
      BY <2>7, <2>11, <2>15 DEF t
    <3> QED BY <2>6, <2>8, <2>9, <2>12, <2>14, <2>15, <3>1 DEF Took, Identity, t1
  <2>16. CASE s.init = SESSION_UNINIT
    <3>1. t.dhr # m.dh
      BY <2>7, <2>16 DEF ZeroState, t
    <3>2. Turn(s0.state.rk, s0.state.dhs, s.state.ns, m, new, t1)
      BY <2>8, <2>11, <2>16, <3>1 DEF t
    <3>3. \E sk, spk : /\ Secret(d, sk, {m.ik, m.ek}) /\ spk \in Settled(d)
                       /\ Turn(sk, spk, s.state.ns, m, new, t1)
      BY <2>8, <2>16, <3>2
    <3> QED BY <2>6, <2>8, <2>9, <2>12, <2>14, <2>16, <3>3 DEF Took, Identity, t1
  <2> QED BY <2>15, <2>16
<1>5. ASSUME r.ret = OMEMO_ERANDOM PROVE r.skipped = {}
  <2>1. r = IF i.ret = 0 THEN i ELSE [i EXCEPT !.session = s]
    BY DEF omemoDecryptKey, DecryptGenericKeyImpl, PutBack
  <2>2. IsResult(i)
    BY Results DEF DecryptIn, IsResult
  <2>3. i.ret = OMEMO_ERANDOM => i.skipped = {}
    <3>1. CASE o.ret # 0 \/ o.session.identity # Pub(d, "ik", store.identity)
      BY <3>1 DEF DecryptIn
    <3>2. CASE o.ret = 0 /\ o.session.identity = Pub(d, "ik", store.identity)
      <4>1. i = x
        BY <3>2 DEF DecryptIn
      <4>2. o.session \in Session
        BY <1>1, <3>2, SessionForOutcome, SessionOfType, StoreType
      <4> HIDE DEF o, i
      <4>3. x.ret = OMEMO_ERANDOM => x.skipped = {}
        BY <4>2, NothingKept
      <4> QED BY <4>1, <4>3
    <3> QED BY <3>1, <3>2
  <2> HIDE DEF i, r
  <2>4. r.ret = i.ret /\ r.skipped = i.skipped
    BY <2>1, <2>2 DEF IsResult
  <2> QED BY <1>5, <2>3, <2>4
<1>6. \/ r.ret # 0 /\ r.session = s /\ (NotRefused(r) => r.skipped = {})
      \/ r.ret = 0 /\ done
  <2> HIDE DEF r, done
  <2> QED BY <1>3, <1>4, <1>5 DEF NotRefused
<1> QED BY <1>6

----------------------------------------------------------------------------
(* The shape of the state.                                                 *)

Shapes ==
  /\ im = [session |-> im.session, remoteid |-> im.remoteid, pending |-> im.pending,
           sent |-> im.sent]
  /\ disk = [session |-> disk.session, mkskipped |-> disk.mkskipped]
  /\ peer = [session |-> peer.session, published |-> peer.published]
  /\ fresh \in [Both -> Nat] /\ forgot \in BOOLEAN
  /\ out = [d \in Both |-> out[d]]
  /\ \A d \in Both : IsFiniteSet(out[d]) /\ \A e \in out[d] : e.m \in Message

(* A session that is not set up is zeroed; one that is sends on the chain  *)
(* of its root key, and the chain it receives on, once there is one, is of *)
(* an earlier root key of the same secret.                                 *)
Secrets(rk) == SubSeq(rk, 1, 4)

Sound(s) ==
  /\ s \in Session
  /\ s.init = SESSION_UNINIT => s.state = ZeroState
  /\ s.init # SESSION_UNINIT =>
       /\ Len(s.state.rk) >= 5 /\ s.state.cks.root = s.state.rk
       /\ s.state.dhs # Zero
       /\ \/ s.state.ckr.root = Zero
          \/ /\ Len(s.state.ckr.root) >= 5 /\ Len(s.state.ckr.root) < Len(s.state.rk)
             /\ Secrets(s.state.ckr.root) = Secrets(s.state.rk)

Base ==
  /\ Shapes
  /\ Sound(im.session) /\ Sound(disk.session) /\ Sound(peer.session)
  /\ disk.mkskipped = {}
  /\ \A d \in Both : \A e \in out[d] : e.m.dh # Zero

(* What a step does to the sessions, the messages and the history.         *)
RestKept == UNCHANGED <<running, out, taken, shown, shownagain, forgot>>

Generates(d) == fresh' = [fresh EXCEPT ![d] = @ + 1]

Idle ==
  /\ im'.session = im.session /\ disk' = disk /\ peer'.session = peer.session
  /\ fresh' = fresh \/ Generates(Im)
  /\ RestKept

(* The session is saved as it is; the program may stop right after.        *)
Saves ==
  /\ running
  /\ \/ im'.session = im.session /\ running'
     \/ im'.session = ZeroSession /\ ~running'
  /\ peer'.session = peer.session
  /\ disk'.session = im.session /\ disk'.mkskipped = disk.mkskipped
  /\ UNCHANGED <<out, taken, shown, shownagain, forgot, fresh>>

SetsUp ==
  /\ running
  /\ SetUp(Im, NewKey(Im), im'.session) /\ peer'.session = peer.session
  /\ disk'.session = im'.session /\ disk'.mkskipped = disk.mkskipped
  /\ Generates(Im)
  /\ forgot' = (forgot \/ im.session.init # SESSION_UNINIT)
  /\ UNCHANGED <<running, out, taken, shown, shownagain>>

Receives(m, s1, stop) ==
  /\ running
  /\ Took(Im, im.session, m.m, NewKey(Im), s1)
  /\ im'.session = (IF stop = "end" THEN s1 ELSE ZeroSession) /\ peer'.session = peer.session
  /\ disk'.session = (IF SavedBy(stop) THEN s1 ELSE disk.session) /\ disk'.mkskipped = {}
  /\ fresh' = fresh \/ Generates(Im)
  /\ s1.state.dhs = NewKey(Im) => Generates(Im)
  /\ taken' = (IF SavedBy(stop) THEN taken \cup {m.m.body} ELSE taken)
  /\ shown' = (IF ShownBy(stop) THEN shown \cup {m.m.body} ELSE shown)
  /\ shownagain' = (shownagain \/ (ShownBy(stop) /\ ~forgot /\ m.m.body \in shown))
  /\ running' = (stop = "end")
  /\ UNCHANGED <<out, forgot>>

Closes ==
  /\ im'.session = ZeroSession /\ disk' = disk /\ peer'.session = peer.session
  /\ forgot' = TRUE
  /\ UNCHANGED <<running, out, taken, shown, shownagain, fresh>>

After(s) == WithState(s, s.init, StateAfterSend(s.state))

Sends(o, stop) ==
  /\ running /\ im.session.init # SESSION_UNINIT
  /\ im'.session = (IF stop = "end" THEN After(im.session) ELSE ZeroSession)
  /\ disk'.session = After(im.session) /\ disk'.mkskipped = disk.mkskipped
  /\ peer'.session = peer.session
  /\ running' = (stop = "end")
  /\ o.m = NextMessage(im.session, Body(Im))
  /\ out' = out \/ out' = [out EXCEPT ![Im] = @ \cup {o}]
  /\ UNCHANGED <<taken, shown, shownagain, forgot, fresh>>

Stops ==
  /\ im'.session = ZeroSession /\ disk' = disk /\ peer'.session = peer.session
  /\ running' = FALSE
  /\ UNCHANGED <<out, taken, shown, shownagain, forgot, fresh>>

Starts ==
  /\ im'.session \in {disk.session, ZeroSession}
  /\ disk' = disk /\ peer'.session = peer.session
  /\ forgot' = (forgot \/ im'.session # disk.session)
  /\ UNCHANGED <<out, taken, shown, shownagain, fresh>>

ImKept == UNCHANGED <<im, disk, running, taken, shown, shownagain, forgot>>

PeerSetsUp ==
  /\ ImKept /\ out' = out
  /\ peer.session.init = SESSION_UNINIT
  /\ peer'.session = peer.session \/ SetUp(Peer, NewKey(Peer), peer'.session)
  /\ Generates(Peer)

PeerSends(o) ==
  /\ ImKept /\ fresh' = fresh
  /\ peer.session.init # SESSION_UNINIT /\ peer'.session = After(peer.session)
  /\ o.m = NextMessage(peer.session, Body(Peer))
  /\ out' = [out EXCEPT ![Peer] = @ \cup {o}]

PeerReceives(m) ==
  /\ ImKept /\ out' = out
  /\ Took(Peer, peer.session, m.m, NewKey(Peer), peer'.session)
  /\ fresh' = fresh \/ Generates(Peer)
  /\ peer'.session.state.dhs = NewKey(Peer) => Generates(Peer)

(* Every step is one of these.                                             *)
Effect ==
  \/ Idle \/ Saves \/ SetsUp \/ Closes \/ Stops \/ Starts \/ PeerSetsUp
  \/ \E m \in out[Peer], s1 \in Session, stop \in Stop : Receives(m, s1, stop)
  \/ \E o, stop : Sends(o, stop)
  \/ \E o : PeerSends(o)
  \/ \E m \in out[Im] : PeerReceives(m)

----------------------------------------------------------------------------
(* The actions.                                                            *)

(* The callbacks of im.c, and a driver that does not fail in the last      *)
(* derivation of a set-up: that zeroes a session that is in use.           *)
AsInIm == Callbacks = "refuse" /\ "derive" \notin Faults

Sized == Shapes' /\ Effect

(* A record of the client's memory is one of the same fields.              *)
LEMMA Cleans ==
  ASSUME Shapes, NEW id
  PROVE  /\ Cleared(id).session = im.session
         /\ Cleared(id) = [session |-> im.session, remoteid |-> im.remoteid,
                           pending |-> Cleared(id).pending, sent |-> im.sent]
<1> DEFINE p == [k \in Kind |-> IF im.pending[k] = id THEN 0 ELSE im.pending[k]]
<1>1. Cleared(id) = [im EXCEPT !.pending = p]
  BY DEF Cleared
<1> HIDE DEF p
<1>2. im = [session |-> im.session, remoteid |-> im.remoteid, pending |-> im.pending,
            sent |-> im.sent]
  BY DEF Shapes
<1>3. Cleared(id) = [session |-> im.session, remoteid |-> im.remoteid, pending |-> p,
                     sent |-> im.sent]
  BY <1>1, <1>2
<1> QED BY <1>3

LEMMA IdleStep ==
  ASSUME Shapes, NEW sn, NEW rid, NEW pend, NEW was,
         im' = [session |-> sn, remoteid |-> rid, pending |-> pend, sent |-> was],
         sn = im.session,
         disk' = disk, peer' = [session |-> peer.session, published |-> peer'.published],
         UNCHANGED fresh, RestKept
  PROVE  Sized
<1>1. Idle
  BY DEF Idle
<1>2. Shapes'
  BY DEF Shapes, RestKept
<1> QED BY <1>1, <1>2 DEF Sized, Effect

(* A request touches the pending ids only.                                 *)
LEMMA RequestShape ==
  ASSUME NEW c, NEW sn, NEW rid, NEW pend, NEW was, NEW kind, NEW to, NEW accepts,
         c = [session |-> sn, remoteid |-> rid, pending |-> pend, sent |-> was],
         Request(c, kind, to, accepts)
  PROVE  im' = [session |-> sn, remoteid |-> rid, pending |-> im'.pending, sent |-> was]
<1> DEFINE q == [pend EXCEPT ![kind] = ids + 1]
<1>1. im' = [c EXCEPT !.pending[kind] = ids + 1]
  BY DEF Request
<1>2. im' = [c EXCEPT !.pending = q]
  BY <1>1
<1> HIDE DEF q
<1>3. im' = [session |-> sn, remoteid |-> rid, pending |-> q, sent |-> was]
  BY <1>2
<1> QED BY <1>3

LEMMA FirstReadyStep == ASSUME Shapes, FirstReady PROVE Sized
<1>1. PICK accepts \in BOOLEAN, announces \in BOOLEAN :
        /\ Request([im EXCEPT !.sent = TRUE], "OURDEVICELIST", 0, accepts)
        /\ peer' = [peer EXCEPT !.published = @ \/ announces]
  BY DEF FirstReady
<1>2. [im EXCEPT !.sent = TRUE] = [session |-> im.session, remoteid |-> im.remoteid,
                                   pending |-> im.pending, sent |-> TRUE]
  <2>1. im = [session |-> im.session, remoteid |-> im.remoteid, pending |-> im.pending,
              sent |-> im.sent]
    BY DEF Shapes
  <2>2. \A was : [im EXCEPT !.sent = was] =
                   [session |-> im.session, remoteid |-> im.remoteid,
                    pending |-> im.pending, sent |-> was]
    BY <2>1
  <2> QED BY <2>2
<1>3. im' = [session |-> im.session, remoteid |-> im.remoteid, pending |-> im'.pending,
             sent |-> TRUE]
  BY <1>1, <1>2, RequestShape
<1>4. peer' = [session |-> peer.session, published |-> peer'.published]
  <2>1. peer = [session |-> peer.session, published |-> peer.published]
    BY DEF Shapes
  <2> QED BY <1>1, <2>1
<1>5. RestKept /\ disk' = disk /\ fresh' = fresh
  BY DEF FirstReady, RestKept, history
<1> QED BY <1>3, <1>4, <1>5, IdleStep

LEMMA OmemoStep == ASSUME Shapes, Omemo PROVE Sized
<1>1. PICK accepts \in BOOLEAN : Request(im, "REMOTEDEVICELIST", 0, accepts)
  BY DEF Omemo
<1>2. im = [session |-> im.session, remoteid |-> im.remoteid, pending |-> im.pending,
            sent |-> im.sent]
  BY DEF Shapes
<1>3. im' = [session |-> im.session, remoteid |-> im.remoteid, pending |-> im'.pending,
             sent |-> im.sent]
  BY <1>1, <1>2, RequestShape
<1>4. peer' = [session |-> peer.session, published |-> peer'.published]
  BY DEF Shapes, Omemo
<1>5. RestKept /\ disk' = disk /\ fresh' = fresh
  BY DEF Omemo, RestKept
<1> QED BY <1>3, <1>4, <1>5, IdleStep

LEMMA CloseStep == ASSUME Shapes, CloseOmemo PROVE Sized
<1>1. im' = [session |-> ZeroSession, remoteid |-> im.remoteid, pending |-> im.pending,
             sent |-> im.sent]
  BY DEF Shapes, CloseOmemo
<1>2. Closes
  BY <1>1 DEF CloseOmemo, Closes
<1>3. Shapes'
  BY <1>1 DEF Shapes, CloseOmemo
<1> QED BY <1>2, <1>3 DEF Sized, Effect

LEMMA ServerStep == ASSUME Shapes, Server PROVE Sized
<1>1. PICK q, a : Serves(q, a)
  <2>1. PICK q \in requests :
          CASE q.kind = "OURDEVICELIST" ->
                 Serves(q, [id |-> q.id, kind |-> q.kind, list |-> ourlist])
            [] q.kind = "BUNDLE" -> Serves(q, [id |-> q.id, kind |-> q.kind])
            [] OTHER -> \E first \in FirstIds :
                         Serves(q, [id |-> q.id, kind |-> q.kind, first |-> first])
    BY DEF Server
  <2> QED BY <2>1
<1>2. UNCHANGED <<im, disk, peer, fresh>> /\ RestKept
  BY <1>1 DEF Serves, RestKept, history
<1>3. /\ im' = [session |-> im.session, remoteid |-> im.remoteid, pending |-> im.pending,
                sent |-> im.sent]
      /\ peer' = [session |-> peer.session, published |-> peer'.published]
  BY <1>2 DEF Shapes
<1> QED BY <1>2, <1>3, IdleStep

(* A zeroed memory.                                                        *)
LEMMA StoppedStep == ASSUME Shapes, Stopped PROVE Sized
<1>1. im' = Started(ZeroSession) /\ running' = FALSE
      /\ UNCHANGED <<disk, peer, out, fresh, taken, shown, shownagain, forgot>>
  BY DEF Stopped, history
<1>2. Stops
  BY <1>1 DEF Stops, Started
<1>3. Shapes'
  BY <1>1 DEF Shapes, Started
<1> QED BY <1>2, <1>3 DEF Sized, Effect

LEMMA RunStep == ASSUME Shapes, RunIm PROVE Sized
<1>1. /\ im' = Started(IF build = "load" THEN disk.session ELSE ZeroSession)
      /\ forgot' = (forgot \/ im'.session # disk.session)
      /\ UNCHANGED <<disk, peer, out, fresh, taken, shown, shownagain>>
  BY DEF RunIm
<1>2. Starts
  BY <1>1 DEF Starts, Started
<1>3. Shapes'
  BY <1>1 DEF Shapes, Started
<1> QED BY <1>2, <1>3 DEF Sized, Effect

LEMMA NewKeyType ==
  ASSUME Shapes, NEW d \in Both
  PROVE  /\ fresh[d] \in Nat /\ NewKey(d) \in PubKey /\ NewKey(d) # Zero
         /\ [fresh EXCEPT ![d] = @ + 1] \in [Both -> Nat]
<1>1. fresh[d] \in Nat /\ fresh[d] + 1 \in Nat
  BY DEF Shapes
<1>2. d \in Device
  BY BothDevices
<1>3. NewKey(d) \in PubKey
  BY <1>1, <1>2 DEF NewKey, PubKey
<1>4. NewKey(d) # Zero
  BY DEF NewKey, Zero
<1>5. [fresh EXCEPT ![d] = @ + 1] \in [Both -> Nat]
  BY <1>1 DEF Shapes
<1> QED BY <1>1, <1>3, <1>4, <1>5

(* What is left when only the client's memory, its database and the        *)
(* number of keys changes.                                                 *)
LEMMA ImShapes ==
  ASSUME Shapes,
         im' = [session |-> im'.session, remoteid |-> im'.remoteid,
                pending |-> im'.pending, sent |-> im'.sent],
         disk' = [session |-> disk'.session, mkskipped |-> disk'.mkskipped],
         UNCHANGED <<peer, out>>, fresh' = fresh \/ Generates(Im), forgot' \in BOOLEAN
  PROVE  Shapes'
<1>1. fresh' \in [Both -> Nat]
  <2>1. Im \in Both
    BY DEF Both
  <2> QED BY <2>1, NewKeyType DEF Shapes, Generates
<1> QED BY <1>1 DEF Shapes

LEMMA BundleStep ==
  ASSUME Base, AsInIm, NEW a, running, ParseBundle(a),
         UNCHANGED <<running, peer, out, taken, shown, shownagain>>
  PROVE  Sized
<1>0. Shapes
  BY DEF Base
<1>1. PICK fault \in Fault, i \in Slot :
        Opened(omemoInitiateSession(Im, im.session, store, Bundle(Peer, i), NewKey(Im), fault), a)
  BY DEF ParseBundle
<1> DEFINE r == omemoInitiateSession(Im, im.session, store, Bundle(Peer, i), NewKey(Im), fault)
<1>2. \/ r.ret # 0 /\ r.session = im.session
      \/ r.ret = 0 /\ SetUp(Im, NewKey(Im), r.session)
  <2>1. Im \in Device /\ Im \in Both /\ Other(Im) = Peer
    BY BothDevices DEF Both, Other
  <2>2. fault # "derive"
    BY DEF AsInIm, Fault
  <2>3. im.session \in Session /\ NewKey(Im) \in PubKey
    BY <1>0, <2>1, NewKeyType DEF Base, Sound
  <2> QED BY <2>1, <2>2, <2>3, SetUpOutcome
<1>3. /\ im' = [Cleared(a.id) EXCEPT !.session = r.session]
      /\ disk' = [disk EXCEPT !.session = r.session]
      /\ fresh' = [fresh EXCEPT ![Im] = IF r.ret = 0 THEN @ + 1 ELSE @]
      /\ forgot' = (forgot \/ (r.ret = 0 /\ im.session.init # SESSION_UNINIT))
  BY <1>1 DEF Opened
<1> HIDE DEF r
<1>4. im' = [session |-> r.session, remoteid |-> im.remoteid,
             pending |-> Cleared(a.id).pending, sent |-> im.sent]
  BY <1>0, <1>3, Cleans
<1>5. disk' = [session |-> r.session, mkskipped |-> disk.mkskipped]
  <2>1. disk = [session |-> disk.session, mkskipped |-> disk.mkskipped]
    BY <1>0 DEF Shapes
  <2> QED BY <1>3, <2>1
<1>6. fresh \in [Both -> Nat] /\ Im \in Both
  BY <1>0 DEF Shapes, Both
<1>9. forgot' \in BOOLEAN
  BY <1>3
<1>7. CASE r.ret = 0
  <2>1. Generates(Im)
    BY <1>3, <1>7 DEF Generates
  <2>2. SetsUp
    BY <1>2, <1>3, <1>4, <1>5, <1>7, <2>1 DEF SetsUp
  <2>3. Shapes'
    BY <1>0, <1>4, <1>5, <1>9, <2>1, ImShapes
  <2> QED BY <2>2, <2>3 DEF Sized, Effect
<1>8. CASE r.ret # 0
  <2>1. fresh' = fresh
    BY <1>3, <1>6, <1>8
  <2>2. forgot' = forgot
    BY <1>0, <1>3, <1>8 DEF Shapes
  <2>3. Saves
    BY <1>2, <1>4, <1>5, <1>8, <2>1, <2>2 DEF Saves
  <2>4. Shapes'
    BY <1>0, <1>4, <1>5, <1>9, <2>1, ImShapes
  <2> QED BY <2>3, <2>4 DEF Sized, Effect
<1> QED BY <1>7, <1>8

(* An answer of the server.                                                *)
LEMMA AnswerStep == ASSUME Base, AsInIm, NEW a, HandleIq(a) PROVE Sized
<1>0. Shapes
  BY DEF Base
<1>1. running /\ UNCHANGED <<running, peer, out, taken, shown, shownagain>>
  BY DEF HandleIq
<1>2. \/ ParseOurDeviceList(a) \/ ParseRemoteDeviceList(a) \/ ParseSpecificStanza(a)
  BY DEF HandleIq
<1>3. /\ Cleared(a.id).session = im.session
      /\ Cleared(a.id) = [session |-> im.session, remoteid |-> im.remoteid,
                          pending |-> Cleared(a.id).pending, sent |-> im.sent]
  BY <1>0, Cleans
<1>4. peer' = [session |-> peer.session, published |-> peer'.published]
  BY <1>0, <1>1 DEF Shapes
<1>5. ASSUME im' = Cleared(a.id), UNCHANGED <<disk, fresh, forgot>> PROVE Sized
  BY <1>0, <1>1, <1>3, <1>4, <1>5, IdleStep DEF RestKept
<1>6. CASE ParseOurDeviceList(a)
  BY <1>5, <1>6 DEF ParseOurDeviceList
<1>7. CASE ParseRemoteDeviceList(a)
  <2>1. UNCHANGED <<disk, fresh, forgot>>
    BY <1>7 DEF ParseRemoteDeviceList
  <2>2. CASE a.first > 0
    <3>1. PICK accepts \in BOOLEAN :
            Request([Cleared(a.id) EXCEPT !.remoteid = a.first], "BUNDLE", a.first, accepts)
      BY <1>7, <2>2 DEF ParseRemoteDeviceList
    <3>2. [Cleared(a.id) EXCEPT !.remoteid = a.first] =
            [session |-> im.session, remoteid |-> a.first,
             pending |-> Cleared(a.id).pending, sent |-> im.sent]
      BY <1>3
    <3>3. im' = [session |-> im.session, remoteid |-> a.first, pending |-> im'.pending,
                 sent |-> im.sent]
      BY <3>1, <3>2, RequestShape
    <3> QED BY <1>0, <1>1, <1>4, <2>1, <3>3, IdleStep DEF RestKept
  <2>3. CASE ~(a.first > 0)
    BY <1>5, <1>7, <2>1, <2>3 DEF ParseRemoteDeviceList
  <2> QED BY <2>2, <2>3
<1>8. CASE ParseSpecificStanza(a)
  <2>1. CASE a.kind = "BUNDLE"
    BY <1>1, <1>8, <2>1, BundleStep DEF ParseSpecificStanza
  <2>2. CASE a.kind # "BUNDLE"
    BY <1>5, <1>8, <2>2 DEF ParseSpecificStanza
  <2> QED BY <2>1, <2>2
<1> QED BY <1>2, <1>6, <1>7, <1>8

(* A message of the peer.                                                  *)
LEMMA MessageStep ==
  ASSUME Base, AsInIm, NEW m \in out[Peer], ParseEncryptedMessage(m)
  PROVE  Sized
<1>0. Shapes /\ Im \in Both /\ Peer \in Both
  BY DEF Base, Both
<1>1. running
  BY DEF ParseEncryptedMessage
<1>2. PICK fault \in Fault, stop \in Stop : Decrypts(m, Decrypt(m, fault), stop)
  BY DEF ParseEncryptedMessage
<1> DEFINE r == Decrypt(m, fault)
<1>3. \/ r.ret # 0 /\ r.session = im.session /\ (NotRefused(r) => r.skipped = {})
      \/ r.ret = 0 /\ r.skipped = {} /\ Took(Im, im.session, m.m, NewKey(Im), r.session)
  <2>1. Im \in Device
    BY BothDevices DEF Both
  <2>2. /\ im.session \in Session /\ NewKey(Im) \in PubKey
        /\ im.session.init = SESSION_UNINIT => im.session.state = ZeroState
    BY <1>0, NewKeyType DEF Base, Sound
  <2>3. m.m \in Message /\ m.m.dh # Zero /\ disk.mkskipped = {}
    BY <1>0 DEF Base, Shapes
  <2> QED BY <2>1, <2>2, <2>3, TookOutcome DEF AsInIm, Decrypt
<1>4. /\ \/ r.ret = 0 /\ Decrypted(m, r, stop)
         \/ /\ NotRefused(r) /\ Committed(m, r, stop)
            /\ UNCHANGED <<taken, shown, shownagain, fresh>>
         \/ /\ r.ret # 0 /\ Cancelled(m, r)
            /\ UNCHANGED <<taken, shown, shownagain, fresh>>
      /\ UNCHANGED <<peer, out, forgot>>
  BY <1>2 DEF Decrypts
<1>a. NotRefused(r) => r.ret # 0
  BY DEF NotRefused, OMEMO_ERANDOM
<1> HIDE DEF r
<1>5. /\ fresh' = fresh \/ Generates(Im)
      /\ r.ret = 0 /\ r.session.state.dhs = NewKey(Im) => Generates(Im)
  <2>1. CASE r.ret # 0
    BY <1>4, <2>1
  <2>2. CASE r.ret = 0
    BY <1>0, <1>4, <1>a, <2>2 DEF Decrypted, Shapes, Generates
  <2> QED BY <2>1, <2>2
<1>6. \A v, w : [im EXCEPT !.remoteid = v, !.session = w] =
                [session |-> w, remoteid |-> v, pending |-> im.pending, sent |-> im.sent]
  <2>1. im = [session |-> im.session, remoteid |-> im.remoteid, pending |-> im.pending,
              sent |-> im.sent]
    BY <1>0 DEF Shapes
  <2>2. \A v : [im EXCEPT !.remoteid = v] =
                [session |-> im.session, remoteid |-> v, pending |-> im.pending,
                 sent |-> im.sent]
    BY <2>1
  <2>3. ASSUME NEW v, NEW w
        PROVE  [im EXCEPT !.remoteid = v, !.session = w] =
               [session |-> w, remoteid |-> v, pending |-> im.pending, sent |-> im.sent]
    <3> DEFINE one == [im EXCEPT !.remoteid = v]
    <3>1. one = [session |-> im.session, remoteid |-> v, pending |-> im.pending,
                 sent |-> im.sent]
      BY <2>2
    <3>2. [im EXCEPT !.remoteid = v, !.session = w] = [one EXCEPT !.session = w]
      OBVIOUS
    <3> HIDE DEF one
    <3>3. [one EXCEPT !.session = w] =
            [session |-> w, remoteid |-> v, pending |-> im.pending, sent |-> im.sent]
      BY <3>1
    <3> QED BY <3>2, <3>3
  <2> QED BY <2>3
<1>7. ASSUME Committed(m, r, stop)
      PROVE  /\ im'.session = (IF stop = "end" THEN r.session ELSE ZeroSession)
             /\ im' = [session |-> im'.session, remoteid |-> im'.remoteid,
                       pending |-> im'.pending, sent |-> im'.sent]
             /\ disk' = [session |-> IF SavedBy(stop) THEN r.session ELSE disk.session,
                         mkskipped |-> r.skipped]
             /\ running' = (stop = "end")
  <2>1. im' = Left([im EXCEPT !.remoteid = m.sid, !.session = r.session], stop)
    BY <1>7 DEF Committed
  <2>2. CASE stop = "end"
    BY <1>6, <1>7, <2>1, <2>2 DEF Committed, Left
  <2>3. CASE stop # "end"
    BY <1>7, <2>1, <2>3 DEF Committed, Left, Started
  <2> QED BY <2>2, <2>3
<1>8. CASE r.ret = 0
  <2>1. Decrypted(m, r, stop)
    BY <1>4, <1>8, <1>a
  <2>2. /\ taken' = (IF SavedBy(stop) THEN taken \cup {m.m.body} ELSE taken)
        /\ shown' = (IF ShownBy(stop) THEN shown \cup {m.m.body} ELSE shown)
        /\ shownagain' = (shownagain \/ (ShownBy(stop) /\ ~forgot /\ m.m.body \in shown))
        /\ Committed(m, r, stop)
    BY <2>1 DEF Decrypted
  <2>4. r.session \in Session
    BY <1>3, <1>8 DEF Took
  <2>5. Receives(m, r.session, stop)
    BY <1>1, <1>3, <1>4, <1>5, <1>7, <1>8, <2>2 DEF Receives
  <2>6. Shapes'
    BY <1>0, <1>4, <1>5, <1>7, <2>2, ImShapes DEF Shapes
  <2> QED BY <2>4, <2>5, <2>6 DEF Sized, Effect
<1>9. CASE NotRefused(r) /\ Committed(m, r, stop) /\ UNCHANGED <<taken, shown, shownagain, fresh>>
  <2>1. r.session = im.session /\ r.skipped = {} /\ disk.mkskipped = {}
    BY <1>3, <1>9, <1>a DEF Base
  <2>2. Shapes'
    BY <1>0, <1>4, <1>5, <1>7, <1>9, ImShapes DEF Shapes
  <2>3. CASE SavedBy(stop)
    <3>1. /\ disk' = [session |-> im.session, mkskipped |-> disk.mkskipped]
          /\ im'.session = (IF stop = "end" THEN im.session ELSE ZeroSession)
          /\ running' = (stop = "end")
      BY <1>7, <1>9, <2>1, <2>3
    <3>2. disk'.session = im.session /\ disk'.mkskipped = disk.mkskipped
      BY <3>1
    <3>3. \/ im'.session = im.session /\ running'
          \/ im'.session = ZeroSession /\ ~running'
      BY <3>1, Zenon
    <3>4. UNCHANGED <<peer, out, taken, shown, shownagain, forgot, fresh>>
      BY <1>4, <1>9
    <3>5. Saves
      BY <1>1, <3>2, <3>3, <3>4, Zenon DEF Saves
    <3> QED BY <2>2, <3>5 DEF Sized, Effect
  <2>4. CASE ~SavedBy(stop)
    <3>1. disk' = disk
      BY <1>0, <1>7, <1>9, <2>1, <2>4 DEF Shapes
    <3>2. stop # "end"
      BY <2>4 DEF SavedBy
    <3>3. Stops
      BY <1>4, <1>7, <1>9, <3>1, <3>2 DEF Stops
    <3> QED BY <2>2, <3>3 DEF Sized, Effect
  <2> QED BY <2>3, <2>4
<1>10. CASE r.ret # 0 /\ Cancelled(m, r) /\ UNCHANGED <<taken, shown, shownagain, fresh>>
  <2>1. r.session = im.session
    BY <1>3, <1>10
  <2>2. /\ im' = [session |-> im.session, remoteid |-> m.sid, pending |-> im.pending,
                  sent |-> im.sent]
        /\ UNCHANGED <<disk, taken, shown, shownagain, running>>
    BY <1>6, <1>10, <2>1 DEF Cancelled
  <2>3. Idle
    BY <1>4, <1>5, <2>2 DEF Idle, RestKept
  <2>4. Shapes'
    BY <1>0, <1>4, <1>5, <2>2, ImShapes DEF Shapes
  <2> QED BY <2>3, <2>4 DEF Sized, Effect
<1> QED BY <1>4, <1>8, <1>9, <1>10

LEMMA BodyType == ASSUME Shapes, NEW d \in Both PROVE Body(d) \in Nat \ {0}
<1>1. Cardinality(out[d]) \in Nat
  BY FS_CardinalityType DEF Shapes
<1> QED BY <1>1 DEF Body

(* A message joins those that were sent.                                   *)
LEMMA OutShape ==
  ASSUME Shapes, NEW d \in Both, NEW o, o.m \in Message,
         out' = [out EXCEPT ![d] = @ \cup {o}]
  PROVE  /\ out' = [e \in Both |-> out'[e]]
         /\ \A e \in Both : IsFiniteSet(out'[e]) /\ \A f \in out'[e] : f.m \in Message
<1>1. out = [e \in Both |-> out[e]]
      /\ \A e \in Both : IsFiniteSet(out[e]) /\ \A f \in out[e] : f.m \in Message
  BY DEF Shapes
<1>2. IsFiniteSet(out[d] \cup {o})
  BY <1>1, FS_AddElement
<1>3. out' = [e \in Both |-> IF e = d THEN out[d] \cup {o} ELSE out[e]]
  BY <1>1
<1> QED BY <1>1, <1>2, <1>3

LEMMA SendStep == ASSUME Base, SendNormalOmemo PROVE Sized
<1>0. Shapes /\ Im \in Both
  BY DEF Base, Both
<1>1. running /\ im.session.init # SESSION_UNINIT
  BY DEF SendNormalOmemo
<1>2. PICK fault \in Fault : \E r \in {omemoEncryptKey(im.session, Body(Im), fault)} :
        IF r.ret # 0 THEN UNCHANGED <<disk, im, out, running, trouble>>
        ELSE \E stop \in {"saved", "end"}, accepts \in BOOLEAN : Encrypted(r, stop, accepts)
  BY DEF SendNormalOmemo
<1> DEFINE r == omemoEncryptKey(im.session, Body(Im), fault)
<1>3. IF r.ret # 0 THEN UNCHANGED <<disk, im, out, running, trouble>>
      ELSE \E stop \in {"saved", "end"}, accepts \in BOOLEAN : Encrypted(r, stop, accepts)
  BY <1>2
<1>4. UNCHANGED <<peer, fresh, taken, shown, shownagain, forgot>>
  BY DEF SendNormalOmemo, history
<1>5. Body(Im) \in Nat \ {0} /\ im.session \in Session
  BY <1>0, BodyType DEF Base, Sound
<1>6. \/ r.ret # 0
      \/ /\ r.ret = 0 /\ r.msg = NextMessage(im.session, Body(Im))
         /\ r.session = After(im.session)
  BY <1>5, EncryptOutcome DEF Encrypts, After
<1> HIDE DEF r
<1>7. /\ im = [session |-> im.session, remoteid |-> im.remoteid, pending |-> im.pending,
               sent |-> im.sent]
      /\ peer = [session |-> peer.session, published |-> peer.published]
      /\ disk = [session |-> disk.session, mkskipped |-> disk.mkskipped]
  BY <1>0 DEF Shapes
<1>8. CASE r.ret # 0
  <2>1. UNCHANGED <<disk, im, out, running>>
    BY <1>3, <1>8
  <2> QED BY <1>0, <1>4, <1>7, <2>1, IdleStep DEF RestKept
<1>9. CASE r.ret = 0
  <2>1. PICK stop \in {"saved", "end"}, accepts \in BOOLEAN : Encrypted(r, stop, accepts)
    BY <1>3, <1>9
  <2> DEFINE o == [m |-> r.msg, rid |-> im.remoteid, sid |-> deviceid]
  <2>2. /\ disk' = [disk EXCEPT !.session = r.session]
        /\ im' = Left([im EXCEPT !.session = r.session], stop)
        /\ out' = (IF stop = "end" /\ accepts THEN [out EXCEPT ![Im] = @ \cup {o}] ELSE out)
        /\ running' = (stop = "end")
    BY <2>1 DEF Encrypted, Emit
  <2>3. disk' = [session |-> r.session, mkskipped |-> disk.mkskipped]
    BY <1>7, <2>2
  <2>4. /\ im'.session = (IF stop = "end" THEN r.session ELSE ZeroSession)
        /\ im' = [session |-> im'.session, remoteid |-> im'.remoteid,
                  pending |-> im'.pending, sent |-> im'.sent]
    <3>1. [im EXCEPT !.session = r.session] =
            [session |-> r.session, remoteid |-> im.remoteid, pending |-> im.pending,
             sent |-> im.sent]
      BY <1>7
    <3>2. CASE stop = "end"
      BY <2>2, <3>1, <3>2 DEF Left
    <3>3. CASE stop # "end"
      BY <2>2, <3>3 DEF Left, Started
    <3> QED BY <3>2, <3>3
  <2>5. o.m = NextMessage(im.session, Body(Im)) /\ o.m \in Message
    BY <1>5, <1>6, <1>9, EncryptedType
  <2> HIDE DEF o
  <2>6. out' = out \/ out' = [out EXCEPT ![Im] = @ \cup {o}]
    BY <2>2
  <2>7. Sends(o, stop)
    BY <1>1, <1>4, <1>6, <1>9, <2>2, <2>3, <2>4, <2>5, <2>6 DEF Sends
  <2>8. /\ out' = [d \in Both |-> out'[d]]
        /\ \A d \in Both : IsFiniteSet(out'[d]) /\ \A e \in out'[d] : e.m \in Message
    <3>1. CASE out' = out
      BY <1>0, <3>1 DEF Shapes
    <3>2. CASE out' = [out EXCEPT ![Im] = @ \cup {o}]
      BY <1>0, <2>5, <3>2, OutShape
    <3> QED BY <2>6, <3>1, <3>2
  <2>9. Shapes'
    BY <1>0, <1>4, <1>7, <2>3, <2>4, <2>8 DEF Shapes
  <2> QED BY <2>7, <2>9 DEF Sized, Effect
<1> QED BY <1>8, <1>9

(* The peer's half: its record, and what it leaves alone.                  *)
LEMMA PeerShape ==
  ASSUME Shapes, NEW s, NEW newout, NEW new, PeerSteps(s, newout, new)
  PROVE  /\ peer' = [session |-> s, published |-> peer.published] /\ out' = newout
         /\ fresh' = [fresh EXCEPT ![Peer] = @ + new]
         /\ ImKept
         /\ im' = [session |-> im'.session, remoteid |-> im'.remoteid,
                   pending |-> im'.pending, sent |-> im'.sent]
         /\ disk' = [session |-> disk'.session, mkskipped |-> disk'.mkskipped]
<1>1. /\ peer = [session |-> peer.session, published |-> peer.published]
      /\ im = [session |-> im.session, remoteid |-> im.remoteid, pending |-> im.pending,
               sent |-> im.sent]
      /\ disk = [session |-> disk.session, mkskipped |-> disk.mkskipped]
  BY DEF Shapes
<1>2. peer' = [peer EXCEPT !.session = s]
  BY DEF PeerSteps
<1>3. peer' = [session |-> s, published |-> peer.published]
  BY <1>1, <1>2
<1>4. ImKept
  BY DEF PeerSteps, ImKept, history
<1> QED BY <1>1, <1>3, <1>4 DEF PeerSteps, ImKept

LEMMA PeerInitiatesStep == ASSUME Base, PeerInitiates PROVE Sized
<1>0. Shapes /\ Peer \in Both /\ Peer \in Device /\ Other(Peer) = Im
  BY BothDevices DEF Base, Both, Other
<1>1. PICK i \in Slot :
        PeerSteps(omemoInitiateSession(Peer, peer.session, store, Bundle(Im, i),
                                       NewKey(Peer), "none").session, out, 1)
  BY DEF PeerInitiates
<1> DEFINE r == omemoInitiateSession(Peer, peer.session, store, Bundle(Im, i), NewKey(Peer),
                                     "none")
<1>2. \/ r.ret # 0 /\ r.session = peer.session
      \/ r.ret = 0 /\ SetUp(Peer, NewKey(Peer), r.session)
  <2>1. peer.session \in Session /\ NewKey(Peer) \in PubKey
    BY <1>0, NewKeyType DEF Base, Sound
  <2> QED BY <1>0, <2>1, SetUpOutcome
<1>3. PeerSteps(r.session, out, 1)
  BY <1>1
<1> HIDE DEF r
<1>4. /\ peer' = [session |-> r.session, published |-> peer.published] /\ out' = out
      /\ Generates(Peer) /\ ImKept
      /\ im' = [session |-> im'.session, remoteid |-> im'.remoteid,
                pending |-> im'.pending, sent |-> im'.sent]
      /\ disk' = [session |-> disk'.session, mkskipped |-> disk'.mkskipped]
  BY <1>0, <1>3, PeerShape DEF Generates
<1>5. PeerSetsUp
  BY <1>2, <1>4 DEF PeerSetsUp, PeerInitiates
<1>6. fresh' \in [Both -> Nat]
  BY <1>0, <1>4, NewKeyType DEF Generates
<1>7. Shapes'
  BY <1>0, <1>4, <1>6 DEF Shapes, ImKept
<1> QED BY <1>5, <1>7 DEF Sized, Effect

LEMMA PeerEncryptsStep == ASSUME Base, PeerEncrypts PROVE Sized
<1>0. Shapes /\ Peer \in Both
  BY DEF Base, Both
<1> DEFINE r == omemoEncryptKey(peer.session, Body(Peer), "none")
           o == [m |-> r.msg, rid |-> deviceid, sid |-> 1]
<1>1. peer.session.init # SESSION_UNINIT /\ PeerSteps(r.session, Emit(Peer, r, deviceid, 1), 0)
  BY DEF PeerEncrypts
<1>2. Body(Peer) \in Nat \ {0} /\ peer.session \in Session
  BY <1>0, BodyType DEF Base, Sound
<1>3. r.ret = 0
  BY <1>1 DEF omemoEncryptKey, EncryptKeyImpl, PutBack
<1>4. r.msg = NextMessage(peer.session, Body(Peer)) /\ r.session = After(peer.session)
  BY <1>2, <1>3, EncryptOutcome DEF Encrypts, After
<1>5. Emit(Peer, r, deviceid, 1) = [out EXCEPT ![Peer] = @ \cup {o}] /\ o.m = r.msg
  BY DEF Emit
<1>6. o.m = NextMessage(peer.session, Body(Peer)) /\ o.m \in Message
  BY <1>2, <1>4, <1>5, EncryptedType
<1> HIDE DEF r, o
<1>7. /\ peer' = [session |-> r.session, published |-> peer.published]
      /\ out' = [out EXCEPT ![Peer] = @ \cup {o}]
      /\ fresh' = [fresh EXCEPT ![Peer] = @ + 0]
      /\ ImKept
      /\ im' = [session |-> im'.session, remoteid |-> im'.remoteid,
                pending |-> im'.pending, sent |-> im'.sent]
      /\ disk' = [session |-> disk'.session, mkskipped |-> disk'.mkskipped]
  BY <1>0, <1>1, <1>5, PeerShape
<1>8. fresh' = fresh
  BY <1>0, <1>7 DEF Shapes
<1>9. PeerSends(o)
  BY <1>1, <1>4, <1>6, <1>7, <1>8 DEF PeerSends
<1>10. /\ out' = [d \in Both |-> out'[d]]
       /\ \A d \in Both : IsFiniteSet(out'[d]) /\ \A e \in out'[d] : e.m \in Message
  BY <1>0, <1>6, <1>7, OutShape
<1>11. Shapes'
  BY <1>0, <1>7, <1>8, <1>10 DEF Shapes, ImKept
<1> QED BY <1>9, <1>11 DEF Sized, Effect

LEMMA PeerDecryptsStep == ASSUME Base, AsInIm, PeerDecrypts PROVE Sized
<1>0. Shapes /\ Peer \in Both /\ Im \in Both /\ Peer \in Device
  BY BothDevices DEF Base, Both
<1>1. PICK m \in out[Im] :
        \E r \in {omemoDecryptKey(Peer, peer.session, store, {}, m.m, NewKey(Peer), "none")} :
          /\ r.ret = 0
          /\ PeerSteps(r.session, out, IF r.session.state.dhs = NewKey(Peer) THEN 1 ELSE 0)
  BY DEF PeerDecrypts
<1> DEFINE r == omemoDecryptKey(Peer, peer.session, store, {}, m.m, NewKey(Peer), "none")
           new == IF r.session.state.dhs = NewKey(Peer) THEN 1 ELSE 0
<1>2. r.ret = 0 /\ PeerSteps(r.session, out, new)
  BY <1>1
<1>3. Took(Peer, peer.session, m.m, NewKey(Peer), r.session)
  <2>1. /\ peer.session \in Session /\ NewKey(Peer) \in PubKey
        /\ peer.session.init = SESSION_UNINIT => peer.session.state = ZeroState
    BY <1>0, NewKeyType DEF Base, Sound
  <2>2. m.m \in Message /\ m.m.dh # Zero
    BY <1>0 DEF Base, Shapes
  <2> QED BY <1>0, <1>2, <2>1, <2>2, TookOutcome DEF AsInIm
<1> HIDE DEF r
<1>4. /\ peer' = [session |-> r.session, published |-> peer.published] /\ out' = out
      /\ fresh' = [fresh EXCEPT ![Peer] = @ + new] /\ ImKept
      /\ im' = [session |-> im'.session, remoteid |-> im'.remoteid,
                pending |-> im'.pending, sent |-> im'.sent]
      /\ disk' = [session |-> disk'.session, mkskipped |-> disk'.mkskipped]
  BY <1>0, <1>2, PeerShape
<1>5. /\ fresh' = fresh \/ Generates(Peer)
      /\ r.session.state.dhs = NewKey(Peer) => Generates(Peer)
  <2>1. fresh = [fresh EXCEPT ![Peer] = @ + 0]
    BY <1>0 DEF Shapes
  <2> QED BY <1>4, <2>1 DEF Generates
<1>6. PeerReceives(m)
  BY <1>3, <1>4, <1>5 DEF PeerReceives
<1>7. fresh' \in [Both -> Nat]
  BY <1>0, <1>5, NewKeyType DEF Generates, Shapes
<1>8. Shapes'
  BY <1>0, <1>4, <1>7 DEF Shapes, ImKept
<1> QED BY <1>6, <1>8 DEF Sized, Effect

LEMMA StepEffect == ASSUME Base, AsInIm, Next PROVE Sized
<1>0. Shapes
  BY DEF Base
<1> QED BY <1>0, FirstReadyStep, OmemoStep, CloseStep, SendStep, AnswerStep, MessageStep,
           StoppedStep, RunStep, ServerStep, PeerInitiatesStep, PeerEncryptsStep,
           PeerDecryptsStep DEF Next

----------------------------------------------------------------------------
(* Root keys: what a derivation leaves of the root key before it.          *)

LEMMA Derived ==
  ASSUME NEW rk \in RootKey, NEW x \in PubKey, NEW y \in PubKey
  PROVE  LET next == DeriveRootKey(rk, x, y)
         IN /\ next \in RootKey /\ next # Zero /\ next # rk
            /\ Len(rk) \in Nat /\ Len(next) = Len(rk) + 1
            /\ \A i \in 1..Len(rk) : next[i] = rk[i]
            /\ next[Len(rk) + 1] = DH(x, y)
            /\ Len(rk) >= 4 => Secrets(next) = Secrets(rk)
<1> DEFINE h == DH(x, y)
           next == Append(rk, h)
<1>1. h \in SUBSET PubKey
  BY DHType
<1> HIDE DEF h
<1>2. Len(rk) \in Nat /\ rk \in Seq(SUBSET PubKey)
  BY RootLength DEF RootKey
<1>3. /\ next \in Seq(SUBSET PubKey) /\ Len(next) = Len(rk) + 1
      /\ \A i \in 1..Len(rk) : next[i] = rk[i]
      /\ next[Len(rk) + 1] = h
  BY <1>1, <1>2
<1> HIDE DEF next
<1>4. next # Zero /\ next # rk
  BY <1>2, <1>3, ZeroTypes
<1>5. ASSUME Len(rk) >= 4 PROVE Secrets(next) = Secrets(rk)
  <2>1. SubSeq(next, 1, 4) = [i \in 1..4 |-> next[i]]
        /\ SubSeq(rk, 1, 4) = [i \in 1..4 |-> rk[i]]
    BY <1>2, <1>3, <1>5
  <2>2. \A i \in 1..4 : next[i] = rk[i]
    BY <1>2, <1>3, <1>5
  <2> QED BY <2>1, <2>2 DEF Secrets
<1>6. next = DeriveRootKey(rk, x, y)
  BY DEF next, DeriveRootKey, h
<1> QED BY <1>2, <1>3, <1>4, <1>5, <1>6 DEF RootKey, h

(* Two derivations are of one length, or the keys come from one root.      *)
LEMMA SameDerived ==
  ASSUME NEW rk \in RootKey, NEW x \in PubKey, NEW y \in PubKey,
         NEW rk1 \in RootKey, NEW x1 \in PubKey, NEW y1 \in PubKey,
         DeriveRootKey(rk, x, y) = DeriveRootKey(rk1, x1, y1)
  PROVE  Len(rk) = Len(rk1) /\ rk = rk1 /\ DH(x, y) = DH(x1, y1)
<1> DEFINE next == DeriveRootKey(rk, x, y)
           next1 == DeriveRootKey(rk1, x1, y1)
<1>1. /\ Len(rk) \in Nat /\ Len(next) = Len(rk) + 1
      /\ \A i \in 1..Len(rk) : next[i] = rk[i]
      /\ next[Len(rk) + 1] = DH(x, y)
      /\ Len(rk1) \in Nat /\ Len(next1) = Len(rk1) + 1
      /\ \A i \in 1..Len(rk1) : next1[i] = rk1[i]
      /\ next1[Len(rk1) + 1] = DH(x1, y1)
  BY ZenonT(60), Derived
<1>2. next = next1
  OBVIOUS
<1> HIDE DEF next, next1
<1>3. Len(rk) = Len(rk1) /\ \A i \in 1..Len(rk) : rk[i] = rk1[i]
  BY <1>1, <1>2
<1>4. rk = rk1
  BY <1>3 DEF RootKey
<1> QED BY <1>1, <1>2, <1>3, <1>4

----------------------------------------------------------------------------
(* Sessions stay sound.                                                    *)

LEMMA ZeroSound == Sound(ZeroSession)
  BY ZeroSessionType DEF Sound, ZeroSession

LEMMA InitValues ==
  /\ SESSION_UNINIT = 0 /\ SESSION_INIT = 1 /\ SESSION_READY = 2 /\ SESSION_HEARTBEAT = 3
  BY DEF SESSION_UNINIT, SESSION_INIT, SESSION_READY, SESSION_HEARTBEAT

LEMMA SetUpSound ==
  ASSUME NEW d \in Both, NEW key \in PubKey, key # Zero, NEW s1, SetUp(d, key, s1)
  PROVE  Sound(s1)
<1>1. Other(d) \in Device /\ SignedKey(Other(d)) \in PubKey
  <2>1. Other(d) \in Device
    BY BothDevices DEF Both, Other
  <2>2. SignedKey(Other(d)) \in Settled(Other(d))
    BY <2>1, StoreType, PubSettled DEF SignedKey, Store, PreKey
  <2> QED BY <2>1, <2>2, SettledType
<1>2. PICK sk : /\ sk \in RootKey /\ Len(sk) = 4
                /\ s1.state.rk = DeriveRootKey(sk, key, SignedKey(Other(d)))
  BY DEF SetUp, Secret
<1>3. Len(s1.state.rk) = 5
  <2>1. Len(DeriveRootKey(sk, key, SignedKey(Other(d)))) = Len(sk) + 1
    BY <1>1, <1>2, DeriveType
  <2> QED BY <1>2, <2>1
<1>4. s1.state.cks.root = s1.state.rk /\ s1.state.ckr.root = Zero
  BY DEF SetUp, FirstChain, ZeroChain
<1> QED BY <1>3, <1>4, InitValues DEF SetUp, Sound

LEMMA AfterIs ==
  ASSUME NEW s \in Session
  PROVE  LET s1 == After(s) IN
         /\ s1 \in Session /\ s1.init = s.init /\ s1.identity = s.identity
         /\ s1.remoteidentity = s.remoteidentity /\ s1.usedek = s.usedek
         /\ s1.state.dhs = s.state.dhs /\ s1.state.dhr = s.state.dhr
         /\ s1.state.rk = s.state.rk /\ s1.state.ckr = s.state.ckr
         /\ s1.state.cks.root = s.state.cks.root /\ s1.state.cks.i = s.state.cks.i + 1
         /\ s1.state.ns = s.state.ns + 1 /\ s1.state.nr = s.state.nr
         /\ s1.state.pn = s.state.pn
<1>1. /\ s.state \in State /\ s.init \in SESSION_UNINIT .. SESSION_HEARTBEAT
  BY DEF Session
<1>2. After(s) \in Session
  BY <1>1, StateAfterSendType, WithStateType DEF After
<1> QED BY <1>2 DEF After, WithState, StateAfterSend

LEMMA AfterSound ==
  ASSUME NEW s, Sound(s), s.init # SESSION_UNINIT
  PROVE  Sound(After(s))
<1>1. s \in Session
  BY DEF Sound
<1> DEFINE s1 == After(s)
<1>2. /\ s1 \in Session /\ s1.init = s.init /\ s1.state.dhs = s.state.dhs
      /\ s1.state.rk = s.state.rk /\ s1.state.ckr = s.state.ckr
      /\ s1.state.cks.root = s.state.cks.root
  BY <1>1, AfterIs
<1> HIDE DEF s1
<1>3. Sound(s1)
  BY <1>2 DEF Sound
<1> QED BY <1>3 DEF s1

(* A turn derives two root keys from the one before.                       *)
LEMMA TurnRoots ==
  ASSUME NEW rk \in RootKey, NEW dhs \in PubKey, NEW ns, NEW m \in Message,
         NEW new \in PubKey, NEW t1, Turn(rk, dhs, ns, m, new, t1)
  PROVE  /\ m.mk.root = DeriveRootKey(rk, dhs, m.dh) /\ m.mk.i = 0
         /\ m.mk.root \in RootKey /\ Len(rk) \in Nat
         /\ Len(m.mk.root) = Len(rk) + 1 /\ Len(t1.rk) = Len(rk) + 2
         /\ t1.rk \in RootKey
         /\ t1.cks.root = t1.rk /\ t1.cks.i = 0
         /\ Len(rk) >= 4 => Secrets(m.mk.root) = Secrets(rk) /\ Secrets(t1.rk) = Secrets(rk)
<1>1. m.dh \in PubKey
  BY DEF Message
<1>2. m.mk.root = DeriveRootKey(rk, dhs, m.dh) /\ m.mk.i = 0
  BY DEF Turn, FirstChain
<1>3. /\ m.mk.root \in RootKey /\ Len(rk) \in Nat /\ Len(m.mk.root) = Len(rk) + 1
      /\ Len(rk) >= 4 => Secrets(m.mk.root) = Secrets(rk)
  BY <1>1, <1>2, Derived
<1>4. t1.rk = DeriveRootKey(m.mk.root, new, m.dh) /\ t1.cks.root = t1.rk /\ t1.cks.i = 0
  BY DEF Turn, FirstChain
<1>5. /\ t1.rk \in RootKey /\ Len(t1.rk) = Len(m.mk.root) + 1
      /\ Len(m.mk.root) >= 4 => Secrets(t1.rk) = Secrets(m.mk.root)
  <2> DEFINE next == DeriveRootKey(m.mk.root, new, m.dh)
  <2>1. /\ next \in RootKey /\ Len(next) = Len(m.mk.root) + 1
        /\ Len(m.mk.root) >= 4 => Secrets(next) = Secrets(m.mk.root)
    BY ZenonT(60), <1>1, <1>3, Derived
  <2>2. t1.rk = next
    BY <1>4
  <2> HIDE DEF next
  <2> QED BY <2>1, <2>2
<1> QED BY <1>2, <1>3, <1>4, <1>5

(* What a session was turned from: its own root key, or the secret of the  *)
(* prekey message.                                                         *)
LEMMA TookFrom ==
  ASSUME NEW d \in Both, NEW s, Sound(s), NEW m \in Message, NEW new \in PubKey, NEW s1,
         Took(d, s, m, new, s1)
  PROVE  \/ /\ s.init # SESSION_UNINIT /\ Onward(s.state, m, s1.state)
         \/ \E rk \in RootKey, dhs \in PubKey :
              /\ Turn(rk, dhs, s.state.ns, m, new, s1.state)
              /\ \/ /\ s.init # SESSION_UNINIT /\ rk = s.state.rk /\ dhs = s.state.dhs
                    /\ s.state.dhr # m.dh /\ m.pn <= s.state.nr
                 \/ /\ s.init = SESSION_UNINIT /\ m.isprekey
                    /\ Secret(d, rk, {m.ik, m.ek}) /\ dhs \in Settled(d)
<1>1. d \in Device
  BY BothDevices
<1>2. s.state.rk \in RootKey /\ s.state.dhs \in PubKey
  BY DEF Sound, Session, State
<1>3. Settled(d) \subseteq PubKey
  BY <1>1, SettledType
<1> QED BY <1>2, <1>3 DEF Took, Secret

LEMMA TookSound ==
  ASSUME NEW d \in Both, NEW s, Sound(s), NEW m \in Message, NEW new \in PubKey,
         new # Zero, NEW s1, Took(d, s, m, new, s1)
  PROVE  Sound(s1)
<1>1. s1 \in Session /\ s1.init = SESSION_READY /\ s1.init # SESSION_UNINIT
  BY InitValues DEF Took
<1>2. CASE s.init # SESSION_UNINIT /\ Onward(s.state, m, s1.state)
  BY <1>1, <1>2 DEF Onward, Sound
<1>3. CASE \E rk \in RootKey, dhs \in PubKey :
             /\ Turn(rk, dhs, s.state.ns, m, new, s1.state)
             /\ \/ s.init # SESSION_UNINIT /\ rk = s.state.rk
                \/ Secret(d, rk, {m.ik, m.ek})
  <2>1. PICK rk \in RootKey, dhs \in PubKey :
             /\ Turn(rk, dhs, s.state.ns, m, new, s1.state)
             /\ \/ s.init # SESSION_UNINIT /\ rk = s.state.rk
                \/ Secret(d, rk, {m.ik, m.ek})
    BY <1>3
  <2>2. Len(rk) >= 4
    <3>1. s.init # SESSION_UNINIT => Len(s.state.rk) >= 5
      BY DEF Sound
    <3>2. Secret(d, rk, {m.ik, m.ek}) => Len(rk) = 4
      BY DEF Secret
    <3>3. Len(rk) \in Nat
      BY RootLength
    <3> QED BY SMTT(30), <2>1, <3>1, <3>2, <3>3
  <2>3. /\ Len(rk) \in Nat /\ Len(m.mk.root) = Len(rk) + 1 /\ Len(s1.state.rk) = Len(rk) + 2
        /\ s1.state.cks.root = s1.state.rk
        /\ Secrets(m.mk.root) = Secrets(s1.state.rk)
    BY <2>1, <2>2, TurnRoots
  <2>4. s1.state.dhs = new /\ s1.state.ckr.root = m.mk.root
    BY <2>1 DEF Turn
  <2> QED BY <1>1, <2>2, <2>3, <2>4 DEF Sound
<1> QED BY <1>2, <1>3, TookFrom

LEMMA Members ==
  /\ Im \in Both /\ Peer \in Both /\ Im # Peer /\ Im \in Device /\ Peer \in Device
  /\ Other(Im) = Peer /\ Other(Peer) = Im
  BY BothDevices DEF Both, Other

LEMMA BaseMessage ==
  ASSUME Base, NEW d \in Both, NEW m \in out[d]
  PROVE  m.m \in Message /\ m.m.dh # Zero
  BY DEF Base, Shapes

(* What joins the messages.                                                *)
LEMMA Joined ==
  ASSUME Shapes, NEW d \in Both, NEW o, out' = [out EXCEPT ![d] = @ \cup {o}]
  PROVE  /\ out'[d] = out[d] \cup {o}
         /\ \A e \in Both : e # d => out'[e] = out[e]
<1>1. out = [e \in Both |-> out[e]]
  BY DEF Shapes
<1> QED BY <1>1

LEMMA BaseKept ==
  ASSUME Shapes', Sound(im'.session), Sound(disk'.session), Sound(peer'.session),
         disk'.mkskipped = {}, \A d \in Both : \A e \in out'[d] : e.m.dh # Zero
  PROVE  Base'
  BY DEF Base, Sound

LEMMA SentDh ==
  ASSUME Base, NEW d \in Both, NEW s, Sound(s), s.init # SESSION_UNINIT,
         NEW body, NEW o, o.m = NextMessage(s, body), out' = [out EXCEPT ![d] = @ \cup {o}]
  PROVE  \A e \in Both : \A f \in out'[e] : f.m.dh # Zero
<1>1. o.m.dh # Zero
  BY DEF NextMessage, Sound
<1>2. /\ out'[d] = out[d] \cup {o}
      /\ \A e \in Both : e # d => out'[e] = out[e]
  BY Joined DEF Base
<1> QED BY <1>1, <1>2 DEF Base

LEMMA EffectKeepsBase == ASSUME Base, Shapes', Effect PROVE Base'
<1>1. /\ Sound(im.session) /\ Sound(disk.session) /\ Sound(peer.session)
      /\ disk.mkskipped = {} /\ \A d \in Both : \A e \in out[d] : e.m.dh # Zero
      /\ Shapes
  BY DEF Base
<1>2. CASE Idle
  BY <1>1, <1>2, BaseKept DEF Idle, RestKept
<1>3. CASE Saves
  BY <1>1, <1>3, ZeroSound, BaseKept DEF Saves
<1>4. CASE SetsUp
  <2>1. Sound(im'.session)
    BY <1>1, <1>4, Members, NewKeyType, SetUpSound DEF SetsUp
  <2> QED BY <1>1, <1>4, <2>1, BaseKept DEF SetsUp
<1>5. CASE Closes
  BY <1>1, <1>5, ZeroSound, BaseKept DEF Closes
<1>6. CASE Stops
  BY <1>1, <1>6, ZeroSound, BaseKept DEF Stops
<1>7. CASE Starts
  BY <1>1, <1>7, ZeroSound, BaseKept DEF Starts
<1>8. CASE PeerSetsUp
  <2>1. Sound(peer'.session)
    BY <1>1, <1>8, Members, NewKeyType, SetUpSound DEF PeerSetsUp
  <2> QED BY <1>1, <1>8, <2>1, BaseKept DEF PeerSetsUp, ImKept
<1>9. CASE \E m \in out[Peer], s1 \in Session, stop \in Stop : Receives(m, s1, stop)
  <2>1. PICK m \in out[Peer], s1 \in Session, stop \in Stop : Receives(m, s1, stop)
    BY <1>9
  <2>2. m.m \in Message
    BY Members, BaseMessage
  <2>3. Sound(s1)
    BY <1>1, <2>1, <2>2, Members, NewKeyType, TookSound DEF Receives
  <2> QED BY <1>1, <2>1, <2>3, ZeroSound, BaseKept DEF Receives
<1>10. CASE \E o, stop : Sends(o, stop)
  <2>1. PICK o, stop : Sends(o, stop)
    BY <1>10
  <2>2. Sound(After(im.session))
    BY <1>1, <2>1, AfterSound DEF Sends
  <2>3. \A d \in Both : \A e \in out'[d] : e.m.dh # Zero
    BY <1>1, <2>1, Members, SentDh DEF Sends
  <2> QED BY <1>1, <2>1, <2>2, <2>3, ZeroSound, BaseKept DEF Sends
<1>11. CASE \E o : PeerSends(o)
  <2>1. PICK o : PeerSends(o)
    BY <1>11
  <2>2. Sound(After(peer.session))
    BY <1>1, <2>1, AfterSound DEF PeerSends
  <2>3. \A d \in Both : \A e \in out'[d] : e.m.dh # Zero
    BY <1>1, <2>1, Members, SentDh DEF PeerSends
  <2> QED BY <1>1, <2>1, <2>2, <2>3, BaseKept DEF PeerSends, ImKept
<1>12. CASE \E m \in out[Im] : PeerReceives(m)
  <2>1. PICK m \in out[Im] : PeerReceives(m)
    BY <1>12
  <2>2. m.m \in Message
    BY Members, BaseMessage
  <2>3. Sound(peer'.session)
    BY <1>1, <2>1, <2>2, Members, NewKeyType, TookSound DEF PeerReceives
  <2> QED BY <1>1, <2>1, <2>3, BaseKept DEF PeerReceives, ImKept
<1> QED BY <1>2, <1>3, <1>4, <1>5, <1>6, <1>7, <1>8, <1>9, <1>10, <1>11, <1>12 DEF Effect

LEMMA InitBase == ASSUME Init PROVE Base
<1>1. out = [d \in Both |-> {}] /\ fresh = [d \in Both |-> 0]
  BY DEF Init, Both
<1>2. im.session = ZeroSession /\ disk.session = ZeroSession /\ peer.session = ZeroSession
      /\ disk.mkskipped = {}
  BY DEF Init, Started
<1>3. Shapes
  <2>1. /\ im = [session |-> im.session, remoteid |-> im.remoteid, pending |-> im.pending,
                 sent |-> im.sent]
        /\ disk = [session |-> disk.session, mkskipped |-> disk.mkskipped]
        /\ peer = [session |-> peer.session, published |-> peer.published]
        /\ forgot \in BOOLEAN
    BY DEF Init, Started
  <2>2. \A d \in Both : IsFiniteSet(out[d])
    BY <1>1, FS_EmptySet
  <2> QED BY <1>1, <2>1, <2>2 DEF Shapes
<1> QED BY <1>1, <1>2, <1>3, ZeroSound DEF Base

LEMMA StepKeepsBase == ASSUME Base, AsInIm, [Next]_vars PROVE Base' /\ Effect
<1>1. CASE Next
  <2>1. Shapes' /\ Effect
    BY <1>1, StepEffect DEF Sized
  <2> QED BY <2>1, EffectKeepsBase
<1>2. CASE UNCHANGED vars
  <2>1. Idle
    BY <1>2 DEF vars, Idle, RestKept, history
  <2>2. Base'
    BY <1>2 DEF vars, Base, Shapes, Sound, history
  <2> QED BY <2>1, <2>2 DEF Effect
<1> QED BY <1>1, <1>2

----------------------------------------------------------------------------
(* No key of a ratchet is older than the next one its device generates,    *)
(* so a root key with a new one in it is a new root key.                   *)

Known(d, k, n) == \A j \in Nat : k = <<d, "ek", j, 1>> => j <= n

NotOf(d, k) == \A j \in Nat : k # <<d, "ek", j, 1>>

UpTo(rk, n) == \A i \in 1..Len(rk) : \A k \in rk[i] : Known(Im, k, n)

(* The chain a session sends on is ahead of everything that was sent.      *)
Own(s, n, sent) ==
  /\ UpTo(s.state.rk, n) /\ Known(Im, s.state.dhs, n)
  /\ \A e \in sent : e.m.mk.root = s.state.cks.root => e.m.mk.i < s.state.cks.i

OfPeer ==
  /\ \A k \in {peer.session.state.dhs, peer.session.usedek, peer.session.identity} :
       NotOf(Im, k)
  /\ \A e \in out[Peer] : \A k \in {e.m.dh, e.m.ek, e.m.ik} : NotOf(Im, k)

OfIm ==
  /\ Own(im.session, fresh[Im], out[Im]) /\ Own(disk.session, fresh[Im], out[Im])
  /\ \A e \in out[Im] : UpTo(e.m.mk.root, fresh[Im]) /\ e.m.mk.root # Zero

LEMMA NotOfKnown == ASSUME NEW d, NEW k, NEW n, NotOf(d, k) PROVE Known(d, k, n)
  BY DEF NotOf, Known

LEMMA KnownLater ==
  ASSUME NEW d, NEW k, NEW n \in Nat, NEW n1 \in Nat, n <= n1, Known(d, k, n)
  PROVE  Known(d, k, n1)
  BY DEF Known

LEMMA UpToLater ==
  ASSUME NEW rk, NEW n \in Nat, NEW n1 \in Nat, n <= n1, UpTo(rk, n)
  PROVE  UpTo(rk, n1)
  BY KnownLater DEF UpTo

LEMMA ZeroNotOf == ASSUME NEW d PROVE NotOf(d, Zero)
  BY DEF NotOf, Zero

LEMMA SettledNotOf == ASSUME NEW d, NEW d1, NEW k \in Settled(d1) PROVE NotOf(d, k)
<1>1. CASE k = Zero
  BY <1>1, ZeroNotOf
<1>2. CASE k \in {d1} \X {"ik", "spk", "pk"} \X Nat \X Nat
  <2>1. k[2] \in {"ik", "spk", "pk"}
    BY <1>2
  <2>2. \A j \in Nat : <<d, "ek", j, 1>>[2] = "ek"
    OBVIOUS
  <2> QED BY <2>1, <2>2 DEF NotOf
<1> QED BY <1>1, <1>2 DEF Settled

LEMMA NewKeyKnown ==
  ASSUME Shapes, NEW d \in Both
  PROVE  /\ Known(d, NewKey(d), fresh[d] + 1)
         /\ \A d1 \in Both : d1 # d => NotOf(d1, NewKey(d))
         /\ \A k : Known(d, k, fresh[d]) => k # NewKey(d)
<1>1. fresh[d] \in Nat
  BY NewKeyType
<1>2. NewKey(d) = <<d, "ek", fresh[d] + 1, 1>>
  BY DEF NewKey
<1>3. \A d1 \in Both, j \in Nat : <<d1, "ek", j, 1>> = <<d, "ek", fresh[d] + 1, 1>> =>
                                    d1 = d /\ j = fresh[d] + 1
  OBVIOUS
<1>4. Known(d, NewKey(d), fresh[d] + 1)
  BY <1>1, <1>2, <1>3 DEF Known
<1>5. \A d1 \in Both : d1 # d => NotOf(d1, NewKey(d))
  BY <1>1, <1>2, <1>3 DEF NotOf
<1>6. ASSUME NEW k, Known(d, k, fresh[d]), k = NewKey(d) PROVE FALSE
  BY <1>1, <1>2, <1>6 DEF Known
<1> QED BY <1>4, <1>5, <1>6

LEMMA DerivedUpTo ==
  ASSUME NEW rk \in RootKey, NEW x \in PubKey, NEW y \in PubKey, NEW n,
         UpTo(rk, n), Known(Im, x, n), Known(Im, y, n)
  PROVE  UpTo(DeriveRootKey(rk, x, y), n)
<1> DEFINE next == DeriveRootKey(rk, x, y)
<1>1. /\ Len(rk) \in Nat /\ Len(next) = Len(rk) + 1
      /\ \A i \in 1..Len(rk) : next[i] = rk[i]
      /\ next[Len(rk) + 1] = DH(x, y)
  BY Derived
<1> HIDE DEF next
<1>2. \A k \in next[Len(rk) + 1] : Known(Im, k, n)
  BY <1>1 DEF DH
<1>3. \A i \in 1..Len(next) : i \in 1..Len(rk) \/ i = Len(rk) + 1
  BY <1>1
<1>4. UpTo(next, n)
  BY <1>1, <1>2, <1>3 DEF UpTo
<1> QED BY <1>4 DEF next

LEMMA SecretUpTo ==
  ASSUME NEW sk, NEW with, NEW n, Secret(Im, sk, with), \A k \in with : Known(Im, k, n)
  PROVE  UpTo(sk, n)
<1>1. \A k \in Settled(Im) : Known(Im, k, n)
  BY SettledNotOf, NotOfKnown
<1>2. Len(sk) = 4 /\ \A i \in 1..4 : \A k \in sk[i] : k \in with \cup Settled(Im)
  BY DEF Secret
<1> QED BY <1>1, <1>2 DEF UpTo

(* A derivation with a new key makes a root key no message was sent under. *)
LEMMA NewRoot ==
  ASSUME Shapes, NEW rk \in RootKey, NEW y \in PubKey, NEW old, UpTo(old, fresh[Im])
  PROVE  DeriveRootKey(rk, NewKey(Im), y) # old
<1> DEFINE next == DeriveRootKey(rk, NewKey(Im), y)
<1>1. NewKey(Im) \in PubKey
  BY Members, NewKeyType
<1>2. Len(rk) \in Nat /\ Len(next) = Len(rk) + 1 /\ next[Len(rk) + 1] = DH(NewKey(Im), y)
  BY <1>1, Derived
<1> HIDE DEF next
<1>3. NewKey(Im) \in next[Len(rk) + 1] /\ Len(rk) + 1 \in 1..Len(next)
  BY <1>2 DEF DH
<1>4. ~Known(Im, NewKey(Im), fresh[Im])
  BY Members, NewKeyKnown
<1>5. next # old
  BY <1>3, <1>4 DEF UpTo
<1> QED BY <1>5 DEF next

LEMMA SetUpOwn ==
  ASSUME Shapes, NEW s1, SetUp(Im, NewKey(Im), s1),
         \A e \in out[Im] : UpTo(e.m.mk.root, fresh[Im])
  PROVE  Own(s1, fresh[Im] + 1, out[Im])
<1> DEFINE key == NewKey(Im)
           n == fresh[Im] + 1
           y == SignedKey(Peer)
<1>1. key \in PubKey /\ Known(Im, key, n) /\ Im \in Device /\ Peer \in Device
  BY Members, NewKeyType, NewKeyKnown
<1>2. y \in Settled(Peer) /\ y \in PubKey
  <2>1. y \in Settled(Peer)
    BY StoreType, PubSettled DEF SignedKey, Store, PreKey
  <2> QED BY <1>1, <2>1, SettledType
<1>3. PICK sk : Secret(Im, sk, {key} \cup Settled(Peer)) /\ s1.state.rk = DeriveRootKey(sk, key, y)
  BY Members DEF SetUp
<1>4. sk \in RootKey
  BY <1>3 DEF Secret
<1>5. UpTo(sk, n)
  <2>1. \A k \in {key} \cup Settled(Peer) : Known(Im, k, n)
    BY <1>1, SettledNotOf, NotOfKnown
  <2> QED BY <1>3, <2>1, SecretUpTo
<1>6. Known(Im, y, n)
  BY <1>2, SettledNotOf, NotOfKnown
<1>7. UpTo(s1.state.rk, n)
  BY <1>1, <1>2, <1>3, <1>4, <1>5, <1>6, DerivedUpTo
<1>8. \A e \in out[Im] : e.m.mk.root # s1.state.rk
  BY <1>2, <1>3, <1>4, NewRoot
<1>9. s1.state.dhs = key /\ s1.state.cks.root = s1.state.rk
  BY DEF SetUp, FirstChain
<1> QED BY <1>1, <1>7, <1>8, <1>9 DEF Own

LEMMA TookOwn ==
  ASSUME Shapes, NEW s, Sound(s), Own(s, fresh[Im], out[Im]),
         \A e \in out[Im] : UpTo(e.m.mk.root, fresh[Im]),
         NEW m \in Message, NotOf(Im, m.dh), NotOf(Im, m.ek), NotOf(Im, m.ik),
         NEW s1, Took(Im, s, m, NewKey(Im), s1),
         NEW n \in Nat, fresh[Im] <= n, s1.state.dhs = NewKey(Im) => n = fresh[Im] + 1
  PROVE  Own(s1, n, out[Im])
<1> DEFINE key == NewKey(Im)
<1>0. fresh[Im] \in Nat /\ key \in PubKey /\ m.dh \in PubKey
  BY Members, NewKeyType DEF Message
<1>1. CASE Onward(s.state, m, s1.state)
  <2>1. UpTo(s.state.rk, n) /\ Known(Im, s.state.dhs, n)
    BY <1>0, UpToLater, KnownLater DEF Own
  <2> QED BY <1>1, <2>1 DEF Onward, Own
<1>2. CASE \E rk \in RootKey, dhs \in PubKey :
              /\ Turn(rk, dhs, s.state.ns, m, key, s1.state)
              /\ \/ rk = s.state.rk /\ dhs = s.state.dhs
                 \/ Secret(Im, rk, {m.ik, m.ek}) /\ dhs \in Settled(Im)
  <2>1. PICK rk \in RootKey, dhs \in PubKey :
              /\ Turn(rk, dhs, s.state.ns, m, key, s1.state)
              /\ \/ rk = s.state.rk /\ dhs = s.state.dhs
                 \/ Secret(Im, rk, {m.ik, m.ek}) /\ dhs \in Settled(Im)
    BY <1>2
  <2>2. s1.state.dhs = key /\ s1.state.rk = DeriveRootKey(m.mk.root, key, m.dh)
    BY <2>1 DEF Turn
  <2>3. /\ m.mk.root = DeriveRootKey(rk, dhs, m.dh) /\ m.mk.root \in RootKey
        /\ s1.state.cks.root = s1.state.rk
    BY <1>0, <2>1, TurnRoots
  <2>4. n = fresh[Im] + 1 /\ Known(Im, key, n)
    BY <2>2, Members, NewKeyKnown
  <2>5. Known(Im, m.dh, n) /\ Known(Im, m.ik, n) /\ Known(Im, m.ek, n)
    BY NotOfKnown
  <2>6. UpTo(rk, n) /\ Known(Im, dhs, n)
    <3>1. CASE rk = s.state.rk /\ dhs = s.state.dhs
      BY <1>0, <3>1, UpToLater, KnownLater DEF Own
    <3>2. CASE Secret(Im, rk, {m.ik, m.ek}) /\ dhs \in Settled(Im)
      <4>1. \A k \in {m.ik, m.ek} : Known(Im, k, n)
        BY <2>5
      <4> QED BY <3>2, <4>1, SecretUpTo, SettledNotOf, NotOfKnown
    <3> QED BY <2>1, <3>1, <3>2
  <2>7. UpTo(m.mk.root, n)
    BY <1>0, <2>3, <2>5, <2>6, DerivedUpTo
  <2>8. UpTo(s1.state.rk, n)
    BY <1>0, <2>2, <2>3, <2>4, <2>5, <2>7, DerivedUpTo
  <2>9. \A e \in out[Im] : e.m.mk.root # s1.state.rk
    BY <1>0, <2>2, <2>3, NewRoot
  <2>10. Known(Im, s1.state.dhs, n)
    BY <2>2, <2>4
  <2> QED BY <2>3, <2>8, <2>9, <2>10 DEF Own
<1>3. \/ s.init # SESSION_UNINIT /\ Onward(s.state, m, s1.state)
      \/ \E rk \in RootKey, dhs \in PubKey :
           /\ Turn(rk, dhs, s.state.ns, m, key, s1.state)
           /\ \/ /\ s.init # SESSION_UNINIT /\ rk = s.state.rk /\ dhs = s.state.dhs
                 /\ s.state.dhr # m.dh /\ m.pn <= s.state.nr
              \/ /\ s.init = SESSION_UNINIT /\ m.isprekey
                 /\ Secret(Im, rk, {m.ik, m.ek}) /\ dhs \in Settled(Im)
  BY <1>0, Members, TookFrom
<1> HIDE DEF key
<1>4. \/ Onward(s.state, m, s1.state)
      \/ \E rk \in RootKey, dhs \in PubKey :
           /\ Turn(rk, dhs, s.state.ns, m, key, s1.state)
           /\ \/ rk = s.state.rk /\ dhs = s.state.dhs
              \/ Secret(Im, rk, {m.ik, m.ek}) /\ dhs \in Settled(Im)
  BY <1>3
<1> QED BY <1>1, <1>2, <1>4

LEMMA ZeroOwn ==
  ASSUME NEW n, NEW sent, \A e \in sent : e.m.mk.root # Zero
  PROVE  Own(ZeroSession, n, sent)
<1>1. UpTo(Zero, n)
  BY ZeroTypes DEF UpTo
<1>2. Known(Im, Zero, n)
  BY ZeroNotOf, NotOfKnown
<1> QED BY <1>1, <1>2 DEF Own, ZeroSession, ZeroState, ZeroChain

LEMMA OwnLater ==
  ASSUME NEW s, NEW n \in Nat, NEW n1 \in Nat, n <= n1, NEW sent, Own(s, n, sent)
  PROVE  Own(s, n1, sent)
  BY UpToLater, KnownLater DEF Own

(* The number of keys only grows.                                          *)
LEMMA FreshGrows ==
  ASSUME Shapes, NEW d \in Both, NEW d1 \in Both, fresh' = fresh \/ Generates(d)
  PROVE  /\ fresh[d1] \in Nat /\ fresh'[d1] \in Nat /\ fresh[d1] <= fresh'[d1]
         /\ Generates(d) => fresh'[d] = fresh[d] + 1
         /\ d1 # d => fresh'[d1] = fresh[d1]
<1>1. fresh \in [Both -> Nat]
  BY DEF Shapes
<1> QED BY <1>1 DEF Generates

(* A step of the client leaves the peer alone.                             *)
PeerKept ==
  peer'.session = peer.session /\ out'[Peer] = out[Peer] /\ fresh'[Peer] = fresh[Peer]

LEMMA PeerEffect ==
  ASSUME Shapes, Effect
  PROVE  PeerKept \/ PeerSetsUp \/ (\E o : PeerSends(o)) \/ (\E m \in out[Im] : PeerReceives(m))
<1>1. ASSUME fresh' = fresh \/ Generates(Im) PROVE fresh'[Peer] = fresh[Peer]
  BY <1>1, Members, FreshGrows
<1>2. CASE Idle
  BY <1>1, <1>2 DEF Idle, RestKept, PeerKept
<1>3. CASE Saves
  BY <1>1, <1>3 DEF Saves, PeerKept
<1>4. CASE SetsUp
  BY <1>1, <1>4 DEF SetsUp, PeerKept
<1>5. CASE Closes \/ Stops \/ Starts
  BY <1>1, <1>5 DEF Closes, Stops, Starts, PeerKept
<1>6. CASE \E m \in out[Peer], s1 \in Session, stop \in Stop : Receives(m, s1, stop)
  BY <1>1, <1>6 DEF Receives, PeerKept
<1>7. CASE \E o, stop : Sends(o, stop)
  <2>1. PICK o, stop : Sends(o, stop)
    BY <1>7
  <2>2. out'[Peer] = out[Peer]
    <3>1. CASE out' = out
      BY <3>1
    <3>2. CASE out' = [out EXCEPT ![Im] = @ \cup {o}]
      BY <3>2, Members, Joined
    <3> QED BY <2>1, <3>1, <3>2 DEF Sends
  <2> QED BY <1>1, <2>1, <2>2 DEF Sends, PeerKept
<1> QED BY <1>2, <1>3, <1>4, <1>5, <1>6, <1>7 DEF Effect

LEMMA StepKeepsOfPeer == ASSUME Base, Effect, OfPeer PROVE OfPeer'
<1>0. Shapes /\ NotOf(Im, Zero)
  BY ZeroNotOf DEF Base
<1>k. NotOf(Im, NewKey(Peer))
  BY <1>0, Members, NewKeyKnown
<1>i. NotOf(Im, Identity(Peer))
  <2>1. Identity(Peer) \in Settled(Peer)
    BY StoreType, PubSettled DEF Identity, Store
  <2> QED BY <2>1, SettledNotOf
<1>1. CASE PeerKept
  BY <1>1 DEF PeerKept, OfPeer
<1>2. CASE PeerSetsUp
  <2>1. out'[Peer] = out[Peer]
    BY <1>2 DEF PeerSetsUp
  <2>2. CASE peer'.session = peer.session
    BY <2>1, <2>2 DEF OfPeer
  <2>3. CASE SetUp(Peer, NewKey(Peer), peer'.session)
    BY <1>k, <1>i, <2>1, <2>3 DEF OfPeer, SetUp
  <2> QED BY <1>2, <2>2, <2>3 DEF PeerSetsUp
<1>3. CASE \E o : PeerSends(o)
  <2>1. PICK o : PeerSends(o)
    BY <1>3
  <2>2. out'[Peer] = out[Peer] \cup {o}
    BY <1>0, <2>1, Members, Joined DEF PeerSends
  <2>3. /\ peer'.session.state.dhs = peer.session.state.dhs
        /\ peer'.session.usedek = peer.session.usedek
        /\ peer'.session.identity = peer.session.identity
    BY <2>1, AfterIs DEF PeerSends, Base, Sound
  <2>4. NotOf(Im, o.m.dh) /\ NotOf(Im, o.m.ek) /\ NotOf(Im, o.m.ik)
    BY <1>0, <2>1 DEF PeerSends, NextMessage, OfPeer
  <2> QED BY <2>2, <2>3, <2>4 DEF OfPeer
<1>4. CASE \E m \in out[Im] : PeerReceives(m)
  <2>1. PICK m \in out[Im] : PeerReceives(m)
    BY <1>4
  <2>2. out'[Peer] = out[Peer] /\ Took(Peer, peer.session, m.m, NewKey(Peer), peer'.session)
    BY <2>1 DEF PeerReceives
  <2>3. /\ peer'.session.identity = Identity(Peer)
        /\ peer'.session.usedek \in {peer.session.usedek, Zero}
        /\ peer'.session.state.dhs \in {peer.session.state.dhs, NewKey(Peer)}
    BY <2>2 DEF Took, Onward, Turn
  <2> QED BY <1>0, <1>k, <1>i, <2>2, <2>3 DEF OfPeer
<1> QED BY <1>0, <1>1, <1>2, <1>3, <1>4, PeerEffect

(* What a message of the peer carries is not a key of the client's.        *)
LEMMA Foreign ==
  ASSUME Base, OfPeer, NEW m \in out[Peer]
  PROVE  /\ m.m \in Message /\ m.m.dh # Zero
         /\ NotOf(Im, m.m.dh) /\ NotOf(Im, m.m.ek) /\ NotOf(Im, m.m.ik)
  BY Members, BaseMessage DEF OfPeer

LEMMA SentLater ==
  ASSUME NEW n \in Nat, NEW n1 \in Nat, n <= n1, NEW sent,
         \A e \in sent : UpTo(e.m.mk.root, n) /\ e.m.mk.root # Zero
  PROVE  \A e \in sent : UpTo(e.m.mk.root, n1) /\ e.m.mk.root # Zero
  BY UpToLater

LEMMA StepKeepsOfIm ==
  ASSUME Base, Effect, OfPeer, OfIm
  PROVE  OfIm' /\ (KeysNeverReused => KeysNeverReused')
<1> DEFINE n == fresh[Im]
           sent == out[Im]
           Kept == out'[Im] = sent
           Fine == OfIm' /\ (KeysNeverReused => KeysNeverReused')
<1>0. /\ Shapes /\ n \in Nat
      /\ Sound(im.session) /\ Sound(disk.session)
      /\ Own(im.session, n, sent) /\ Own(disk.session, n, sent)
      /\ \A e \in sent : UpTo(e.m.mk.root, n) /\ e.m.mk.root # Zero
      /\ \A k : Own(ZeroSession, k, sent)
  BY ZeroOwn, Members, FreshGrows, NewKeyType DEF Base, OfIm
<1>1. ASSUME Kept, NEW k \in Nat, n <= k, fresh'[Im] = k,
             Own(im'.session, k, sent), Own(disk'.session, k, sent)
      PROVE  Fine
  <2>1. \A e \in sent : UpTo(e.m.mk.root, k) /\ e.m.mk.root # Zero
    BY <1>0, <1>1, SentLater
  <2>2. OfIm'
    BY <1>1, <2>1 DEF OfIm
  <2>3. KeysNeverReused => KeysNeverReused'
    BY <1>1 DEF KeysNeverReused
  <2> QED BY <2>2, <2>3
<1>2. ASSUME Kept, fresh' = fresh \/ Generates(Im),
             im'.session \in {im.session, disk.session, ZeroSession},
             disk'.session \in {im.session, disk.session, ZeroSession}
      PROVE  Fine
  <2>1. fresh'[Im] \in Nat /\ n <= fresh'[Im]
    BY <1>0, <1>2, Members, FreshGrows
  <2>2. \A s \in {im.session, disk.session, ZeroSession} : Own(s, fresh'[Im], sent)
    BY <1>0, <2>1, OwnLater
  <2> HIDE DEF Fine, Kept, n, sent
  <2> QED BY <1>1, <1>2, <2>1, <2>2
<1> SUFFICES Fine
  OBVIOUS
<1> HIDE DEF Fine
<1>3. CASE Idle
  BY <1>2, <1>3 DEF Idle, RestKept
<1>4. CASE Saves
  BY <1>2, <1>4 DEF Saves
<1>5. CASE SetsUp
  <2>1. fresh'[Im] = n + 1
    BY <1>0, <1>5, Members, FreshGrows DEF SetsUp
  <2>2. Own(im'.session, n + 1, sent)
    BY <1>0, <1>5, SetUpOwn DEF SetsUp
  <2>3. Own(disk'.session, n + 1, sent) /\ Kept
    BY <1>5, <2>2 DEF SetsUp
  <2>4. n + 1 \in Nat /\ n <= n + 1
    BY <1>0
  <2> HIDE DEF n, sent, Kept
  <2> QED BY <1>1, <2>1, <2>2, <2>3, <2>4
<1>6. CASE Closes \/ Stops \/ Starts
  <2>1. Kept /\ fresh' = fresh
    BY <1>6 DEF Closes, Stops, Starts
  <2>2. /\ im'.session \in {im.session, disk.session, ZeroSession}
        /\ disk'.session \in {im.session, disk.session, ZeroSession}
    BY <1>6 DEF Closes, Stops, Starts
  <2> HIDE DEF Kept
  <2> QED BY <1>2, <2>1, <2>2
<1>7. CASE \E m \in out[Peer], s1 \in Session, stop \in Stop : Receives(m, s1, stop)
  <2>1. PICK m \in out[Peer], s1 \in Session, stop \in Stop : Receives(m, s1, stop)
    BY <1>7
  <2>2. fresh'[Im] \in Nat /\ n <= fresh'[Im] /\ Kept
        /\ (s1.state.dhs = NewKey(Im) => fresh'[Im] = n + 1)
    BY <1>0, <2>1, Members, FreshGrows DEF Receives
  <2>3. Own(s1, fresh'[Im], sent)
    <3>1. Took(Im, im.session, m.m, NewKey(Im), s1)
      BY <2>1 DEF Receives
    <3> QED BY <1>0, <2>2, <3>1, Foreign, TookOwn
  <2>4. \A s \in {disk.session, ZeroSession, s1} : Own(s, fresh'[Im], sent)
    BY <1>0, <2>2, <2>3, OwnLater
  <2>5. im'.session \in {disk.session, ZeroSession, s1}
        /\ disk'.session \in {disk.session, ZeroSession, s1}
    BY <2>1 DEF Receives
  <2>6. Own(im'.session, fresh'[Im], sent) /\ Own(disk'.session, fresh'[Im], sent)
    BY <2>4, <2>5
  <2> HIDE DEF n, sent, Kept
  <2> QED BY <1>1, <2>2, <2>6
<1>8. CASE \E o, stop : Sends(o, stop)
  <2>1. PICK o, stop : Sends(o, stop)
    BY <1>8
  <2> DEFINE s1 == After(im.session)
             ck == im.session.state.cks
             new == sent \cup {o}
  <2>2. /\ im.session.init # SESSION_UNINIT
        /\ im'.session \in {s1, ZeroSession} /\ disk'.session = s1 /\ fresh'[Im] = n
        /\ o.m.mk = ck
    BY <2>1 DEF Sends, NextMessage
  <2>3. /\ s1.state.dhs = im.session.state.dhs /\ s1.state.rk = im.session.state.rk
        /\ s1.state.cks.root = ck.root /\ s1.state.cks.i = ck.i + 1
        /\ ck.i \in Nat /\ ck.root = im.session.state.rk /\ ck.root # Zero
        /\ im.session \in Session
    <3>1. im.session \in Session
      BY <1>0 DEF Sound
    <3>2. ck.i \in Nat
      BY <3>1 DEF Session, State, ChainKey
    <3>3. ck.root = im.session.state.rk /\ ck.root # Zero
      BY <1>0, <2>2, ZeroTypes DEF Sound
    <3> QED BY <3>1, <3>2, <3>3, AfterIs
  <2>4. \A e \in sent : e.m.mk.root = ck.root => e.m.mk.i < ck.i /\ e.m.mk.i \in Nat
    <3>1. \A e \in sent : e.m \in Message
      BY <1>0, Members DEF Shapes
    <3>2. \A e \in sent : e.m.mk.i \in Nat
      BY <3>1 DEF Message, ChainKey
    <3> QED BY <1>0, <3>2 DEF Own
  <2> HIDE DEF s1
  <2>5. Own(s1, n, new)
    <3>1. UpTo(s1.state.rk, n) /\ Known(Im, s1.state.dhs, n)
      BY <1>0, <2>3 DEF Own
    <3>2. \A e \in new : e.m.mk.root = s1.state.cks.root => e.m.mk.i < s1.state.cks.i
      BY <2>2, <2>3, <2>4
    <3> QED BY <3>1, <3>2 DEF Own
  <2>6. \A e \in new : UpTo(e.m.mk.root, n) /\ e.m.mk.root # Zero
    BY <1>0, <2>2, <2>3 DEF Own
  <2>7. Own(ZeroSession, n, new)
    BY <2>6, ZeroOwn
  <2>8. out'[Im] = new \/ Kept
    <3>1. CASE out' = out
      BY <3>1
    <3>2. CASE out' = [out EXCEPT ![Im] = @ \cup {o}]
      BY <1>0, <3>2, Members, Joined
    <3> QED BY <2>1, <3>1, <3>2 DEF Sends
  <2>9. CASE out'[Im] = new
    <3>1. OfIm'
      BY <2>2, <2>5, <2>6, <2>7, <2>9 DEF OfIm
    <3>2. \A e \in sent : e.m.mk # o.m.mk
      BY <2>2, <2>3, <2>4
    <3>3. KeysNeverReused => KeysNeverReused'
      BY <2>9, <3>2 DEF KeysNeverReused
    <3> QED BY <3>1, <3>3 DEF Fine
  <2>10. CASE Kept
    <3>1. Own(s1, n, sent)
      BY <2>5 DEF Own
    <3>2. Own(im'.session, n, sent) /\ Own(disk'.session, n, sent) /\ fresh'[Im] = n
      BY <1>0, <2>2, <3>1
    <3> QED BY <1>0, <1>1, <2>10, <3>2
  <2> QED BY <2>8, <2>9, <2>10
<1>9. CASE PeerSetsUp \/ (\E o : PeerSends(o)) \/ (\E m \in out[Im] : PeerReceives(m))
  <2>1. ImKept
    BY <1>9 DEF PeerSetsUp, PeerSends, PeerReceives
  <2>2. Kept /\ fresh'[Im] = n
    <3>1. CASE PeerSetsUp
      BY <1>0, <3>1, Members, FreshGrows DEF PeerSetsUp
    <3>2. CASE \E o : PeerSends(o)
      BY <1>0, <3>2, Members, Joined DEF PeerSends
    <3>3. CASE \E m \in out[Im] : PeerReceives(m)
      BY <1>0, <3>3, Members, FreshGrows DEF PeerReceives
    <3> QED BY <1>9, <3>1, <3>2, <3>3
  <2>3. Own(im'.session, n, sent) /\ Own(disk'.session, n, sent)
    BY <1>0, <2>1 DEF ImKept
  <2>4. n <= n
    BY <1>0
  <2> HIDE DEF n, sent, Kept
  <2> QED BY <1>0, <1>1, <2>2, <2>3, <2>4
<1> QED BY <1>3, <1>4, <1>5, <1>6, <1>7, <1>8, <1>9 DEF Effect

----------------------------------------------------------------------------
(* The messages of the peer are numbered by their bodies, and what was     *)
(* taken is behind the session that is saved.                              *)

Sent == Cardinality(out[Peer])

Numbered ==
  /\ \A e \in out[Peer] : e.m.body \in 1..Sent
  /\ \A e, f \in out[Peer] : e.m.body = f.m.body => e = f
  /\ \A b \in 1..Sent : \E e \in out[Peer] : e.m.body = b
  /\ taken \subseteq 1..Sent /\ shown \subseteq taken

(* The receiving chain went past the message, or its root key is older.    *)
Past(s, m) ==
  /\ Len(m.mk.root) <= Len(s.state.rk)
  /\ m.mk.root = s.state.ckr.root => m.mk.i < s.state.ckr.i

Saved ==
  ~forgot =>
    /\ running => im.session = disk.session
    /\ taken # {} => disk.session.init # SESSION_UNINIT
    /\ \A e \in out[Peer] : e.m.body \in taken => Past(disk.session, e.m)

LEMMA SentType == ASSUME Shapes PROVE Sent \in Nat
  BY Members, FS_CardinalityType DEF Shapes, Sent

(* A message that joins has the next number.                               *)
LEMMA NextNumber ==
  ASSUME Base, Numbered, NEW o, PeerSends(o)
  PROVE  /\ Sent' = Sent + 1 /\ o.m.body = Sent + 1
         /\ out'[Peer] = out[Peer] \cup {o} /\ o \notin out[Peer]
<1>1. Shapes /\ Sent \in Nat
  BY SentType DEF Base
<1>2. o.m.body = Sent + 1
  BY DEF PeerSends, NextMessage, Body, Sent
<1>3. out'[Peer] = out[Peer] \cup {o}
  BY <1>1, Members, Joined DEF PeerSends
<1>4. o \notin out[Peer]
  <2>1. o.m.body \notin 1..Sent
    BY <1>1, <1>2
  <2> QED BY <2>1 DEF Numbered
<1>5. IsFiniteSet(out[Peer])
  BY <1>1, Members DEF Shapes
<1>6. Cardinality(out[Peer] \cup {o}) = Cardinality(out[Peer]) + 1
  BY <1>4, <1>5, FS_AddElement
<1> QED BY <1>2, <1>3, <1>4, <1>6 DEF Sent

(* What the history is made of.                                            *)
HistoryKept == taken' = taken /\ shown' = shown

LEMMA StepKeepsNumbered == ASSUME Base, Effect, Numbered PROVE Numbered'
<1>0. Shapes /\ Sent \in Nat
  BY SentType DEF Base
<1>1. CASE \E m \in out[Peer], s1 \in Session, stop \in Stop : Receives(m, s1, stop)
  <2>1. PICK m \in out[Peer], s1 \in Session, stop \in Stop : Receives(m, s1, stop)
    BY <1>1
  <2>2. /\ out' = out
        /\ taken' = (IF SavedBy(stop) THEN taken \cup {m.m.body} ELSE taken)
        /\ shown' = (IF ShownBy(stop) THEN shown \cup {m.m.body} ELSE shown)
    BY <2>1 DEF Receives
  <2>3. m.m.body \in 1..Sent
    BY DEF Numbered
  <2>4. taken' \subseteq 1..Sent /\ shown' \subseteq taken'
    BY <2>2, <2>3 DEF Numbered, SavedBy, ShownBy
  <2> QED BY <2>2, <2>4 DEF Numbered, Sent
<1>2. CASE \E o : PeerSends(o)
  <2>1. PICK o : PeerSends(o)
    BY <1>2
  <2>2. HistoryKept
    BY <2>1 DEF PeerSends, ImKept, HistoryKept
  <2>3. /\ Sent' = Sent + 1 /\ o.m.body = Sent + 1
        /\ out'[Peer] = out[Peer] \cup {o}
    BY <2>1, NextNumber
  <2> DEFINE new == out[Peer] \cup {o}
             K == Sent
  <2>4. /\ \A e \in new : e.m.body \in 1..(K + 1)
        /\ \A b \in 1..(K + 1) : \E e \in new : e.m.body = b
    BY <1>0, <2>3 DEF Numbered
  <2>5. \A e, f \in new : e.m.body = f.m.body => e = f
    <3>1. \A e \in out[Peer] : e.m.body # o.m.body
      BY <1>0, <2>3 DEF Numbered
    <3> QED BY <3>1 DEF Numbered
  <2>6. taken' \subseteq 1..(K + 1) /\ shown' \subseteq taken'
    BY <1>0, <2>2 DEF Numbered, HistoryKept
  <2> HIDE DEF K
  <2>7. Sent' = K + 1
    BY <2>3 DEF K
  <2> QED BY <2>3, <2>4, <2>5, <2>6, <2>7 DEF Numbered
<1>3. ASSUME HistoryKept, out'[Peer] = out[Peer] PROVE Numbered'
  BY <1>3 DEF Numbered, HistoryKept, Sent
<1>4. CASE Idle \/ Saves \/ SetsUp \/ Closes \/ Stops \/ Starts
  BY <1>3, <1>4 DEF Idle, Saves, SetsUp, Closes, Stops, Starts, RestKept, HistoryKept
<1>5. CASE PeerSetsUp \/ \E m \in out[Im] : PeerReceives(m)
  BY <1>3, <1>5 DEF PeerSetsUp, PeerReceives, ImKept, HistoryKept
<1>6. CASE \E o, stop : Sends(o, stop)
  <2>1. PICK o, stop : Sends(o, stop)
    BY <1>6
  <2>2. out'[Peer] = out[Peer]
    <3>1. CASE out' = out
      BY <3>1
    <3>2. CASE out' = [out EXCEPT ![Im] = @ \cup {o}]
      BY <1>0, <3>2, Members, Joined
    <3> QED BY <2>1, <3>1, <3>2 DEF Sends
  <2> QED BY <1>3, <2>1, <2>2 DEF Sends, HistoryKept
<1> QED BY <1>1, <1>2, <1>4, <1>5, <1>6 DEF Effect

(* Where a message leaves the session it is taken in.                      *)
LEMMA TookPast ==
  ASSUME NEW d \in Both, NEW s, Sound(s), NEW m \in Message, NEW new \in PubKey,
         NEW s1, Took(d, s, m, new, s1)
  PROVE  /\ Past(s1, m)
         /\ s.init # SESSION_UNINIT =>
              /\ ~Past(s, m)
              /\ \A m1 \in Message : Past(s, m1) => Past(s1, m1)
<1>0. /\ s \in Session /\ s1 \in Session
      /\ m.mk.root \in RootKey /\ m.mk.i \in Nat
      /\ s.state.rk \in RootKey /\ s.state.ckr.root \in RootKey /\ s.state.ckr.i \in Nat
      /\ s1.state.rk \in RootKey
  BY DEF Sound, Took, Session, State, ChainKey, Message
<1>1. /\ Len(m.mk.root) \in Nat /\ Len(s.state.rk) \in Nat /\ Len(s.state.ckr.root) \in Nat
      /\ Len(s1.state.rk) \in Nat
      /\ \A m1 \in Message : Len(m1.mk.root) \in Nat /\ m1.mk.i \in Nat
  BY <1>0, RootLength DEF Message, ChainKey
<1>2. CASE s.init # SESSION_UNINIT /\ Onward(s.state, m, s1.state)
  <2>1. /\ m.mk = s.state.ckr /\ s1.state.rk = s.state.rk
        /\ s1.state.ckr.root = s.state.ckr.root /\ s1.state.ckr.i = s.state.ckr.i + 1
    BY <1>2 DEF Onward
  <2>2. Len(s.state.ckr.root) <= Len(s.state.rk)
    BY <1>1, <1>2, ZeroTypes DEF Sound
  <2> QED BY <1>0, <1>1, <2>1, <2>2 DEF Past
<1>3. CASE \E rk \in RootKey, dhs \in PubKey :
             /\ Turn(rk, dhs, s.state.ns, m, new, s1.state)
             /\ s.init # SESSION_UNINIT => rk = s.state.rk
  <2>1. PICK rk \in RootKey, dhs \in PubKey :
             /\ Turn(rk, dhs, s.state.ns, m, new, s1.state)
             /\ s.init # SESSION_UNINIT => rk = s.state.rk
    BY <1>3
  <2>2. /\ Len(rk) \in Nat /\ Len(m.mk.root) = Len(rk) + 1 /\ m.mk.i = 0
        /\ Len(s1.state.rk) = Len(rk) + 2
    BY <2>1, TurnRoots
  <2>3. s1.state.ckr.root = m.mk.root /\ s1.state.ckr.i = 1
    BY <2>1 DEF Turn
  <2>4. Past(s1, m)
    BY <2>2, <2>3 DEF Past
  <2>5. ASSUME s.init # SESSION_UNINIT, NEW m1 \in Message, Past(s, m1) PROVE Past(s1, m1)
    <3>1. Len(m1.mk.root) <= Len(rk)
      BY <2>1, <2>5 DEF Past
    <3>2. m1.mk.root # m.mk.root
      BY <1>1, <2>2, <3>1
    <3> QED BY <1>1, <2>2, <2>3, <3>1, <3>2 DEF Past
  <2>6. ASSUME s.init # SESSION_UNINIT PROVE ~Past(s, m)
    BY <1>1, <2>1, <2>2, <2>6 DEF Past
  <2> QED BY <2>4, <2>5, <2>6
<1>4. \/ s.init # SESSION_UNINIT /\ Onward(s.state, m, s1.state)
      \/ \E rk \in RootKey, dhs \in PubKey :
           /\ Turn(rk, dhs, s.state.ns, m, new, s1.state)
           /\ s.init # SESSION_UNINIT => rk = s.state.rk
  <2>1. \/ /\ s.init # SESSION_UNINIT /\ Onward(s.state, m, s1.state)
        \/ \E rk \in RootKey, dhs \in PubKey :
             /\ Turn(rk, dhs, s.state.ns, m, new, s1.state)
             /\ \/ /\ s.init # SESSION_UNINIT /\ rk = s.state.rk /\ dhs = s.state.dhs
                   /\ s.state.dhr # m.dh /\ m.pn <= s.state.nr
                \/ /\ s.init = SESSION_UNINIT /\ m.isprekey
                   /\ Secret(d, rk, {m.ik, m.ek}) /\ dhs \in Settled(d)
    BY TookFrom
  <2> QED BY <2>1
<1> HIDE DEF Past
<1> QED BY <1>2, <1>3, <1>4

LEMMA AfterPast ==
  ASSUME NEW s \in Session, NEW m, Past(s, m) PROVE Past(After(s), m)
<1>1. After(s).state.rk = s.state.rk /\ After(s).state.ckr = s.state.ckr
  BY AfterIs
<1> QED BY <1>1 DEF Past

(* The saved session is ahead of what was taken, so a message that is      *)
(* handed over again does not open.                                        *)
LEMMA StepKeepsSaved ==
  ASSUME Base, Effect, Numbered, Saved
  PROVE  Saved' /\ (ShownOnce => ShownOnce')
<1>0. /\ Shapes /\ forgot \in BOOLEAN
      /\ Sound(im.session) /\ Sound(disk.session) /\ Sound(peer.session)
      /\ im.session \in Session /\ disk.session \in Session
  BY DEF Base, Shapes, Sound
<1>1. ASSUME forgot' = forgot, out'[Peer] = out[Peer], taken' = taken,
             disk'.session = disk.session, shownagain' = shownagain,
             running' => (running /\ im'.session = im.session) \/ im'.session = disk.session
      PROVE  Saved' /\ (ShownOnce => ShownOnce')
  <2>1. Saved'
    BY <1>1 DEF Saved
  <2> QED BY <1>1, <2>1 DEF ShownOnce
<1>2. ASSUME forgot', shownagain' = shownagain PROVE Saved' /\ (ShownOnce => ShownOnce')
  BY <1>2 DEF Saved, ShownOnce
<1>3. CASE Idle
  BY <1>1, <1>3 DEF Idle, RestKept
<1>4. CASE Saves
  <2>1. ASSUME ~forgot PROVE disk'.session = disk.session
    BY <1>4, <2>1 DEF Saves, Saved
  <2> QED BY <1>0, <1>1, <1>2, <1>4, <2>1 DEF Saves
<1>5. CASE SetsUp
  <2>1. CASE forgot \/ im.session.init # SESSION_UNINIT
    BY <1>2, <1>5, <2>1 DEF SetsUp
  <2>2. CASE ~forgot /\ im.session.init = SESSION_UNINIT
    <3>1. taken = {} /\ taken' = {} /\ im'.session = disk'.session /\ out' = out
      BY <1>5, <2>2 DEF SetsUp, Saved
    <3>2. Saved'
      BY <3>1 DEF Saved
    <3> QED BY <1>5, <3>2 DEF SetsUp, ShownOnce
  <2> QED BY <2>1, <2>2
<1>6. CASE Closes
  BY <1>2, <1>6 DEF Closes
<1>7. CASE Stops
  BY <1>1, <1>7 DEF Stops
<1>8. CASE Starts
  <2>1. CASE forgot'
    BY <1>2, <1>8, <2>1 DEF Starts
  <2>2. CASE ~forgot'
    BY <1>0, <1>1, <1>8, <2>2 DEF Starts
  <2> QED BY <2>1, <2>2
<1>9. CASE \E m \in out[Peer], s1 \in Session, stop \in Stop : Receives(m, s1, stop)
  <2>1. PICK m \in out[Peer], s1 \in Session, stop \in Stop : Receives(m, s1, stop)
    BY <1>9
  <2>2. /\ running /\ out' = out /\ forgot' = forgot
        /\ Took(Im, im.session, m.m, NewKey(Im), s1)
        /\ im'.session = (IF stop = "end" THEN s1 ELSE ZeroSession)
        /\ disk'.session = (IF SavedBy(stop) THEN s1 ELSE disk.session)
        /\ taken' = (IF SavedBy(stop) THEN taken \cup {m.m.body} ELSE taken)
        /\ shownagain' = (shownagain \/ (ShownBy(stop) /\ ~forgot /\ m.m.body \in shown))
        /\ running' = (stop = "end")
    BY <2>1 DEF Receives
  <2>3. NewKey(Im) \in PubKey /\ m.m \in Message /\ \A e \in out[Peer] : e.m \in Message
    BY <1>0, Members, NewKeyType, BaseMessage
  <2>4. /\ Past(s1, m.m)
        /\ im.session.init # SESSION_UNINIT =>
             /\ ~Past(im.session, m.m)
             /\ \A m1 \in Message : Past(im.session, m1) => Past(s1, m1)
    BY <1>0, <2>2, <2>3, Members, TookPast
  <2>5. s1.init # SESSION_UNINIT
    BY <2>2, InitValues DEF Took
  <2>6. CASE forgot
    BY <2>2, <2>6 DEF Saved, ShownOnce
  <2>7. CASE ~forgot
    <3>1. /\ im.session = disk.session
          /\ taken # {} => im.session.init # SESSION_UNINIT
          /\ \A e \in out[Peer] : e.m.body \in taken => Past(im.session, e.m)
      BY <2>2, <2>7 DEF Saved
    <3>2. m.m.body \notin taken
      BY <2>4, <3>1
    <3>3. m.m.body \notin shown
      BY <3>2 DEF Numbered
    <3>4. \A e \in out[Peer] : e.m.body \in taken \cup {m.m.body} => Past(s1, e.m)
      <4>1. ASSUME NEW e \in out[Peer], e.m.body \in taken PROVE Past(s1, e.m)
        BY <2>3, <2>4, <3>1, <4>1
      <4>2. ASSUME NEW e \in out[Peer], e.m.body = m.m.body PROVE Past(s1, e.m)
        BY <2>4, <4>2 DEF Numbered
      <4> QED BY <4>1, <4>2
    <3>5. Saved'
      <4>1. CASE SavedBy(stop)
        <5>1. disk'.session = s1 /\ taken' = taken \cup {m.m.body}
              /\ (running' => im'.session = s1)
          BY <2>2, <4>1
        <5> QED BY <2>2, <2>5, <3>4, <5>1 DEF Saved
      <4>2. CASE ~SavedBy(stop)
        <5>1. disk'.session = disk.session /\ taken' = taken /\ ~running'
          BY <2>2, <4>2 DEF SavedBy
        <5> QED BY <2>2, <3>1, <5>1 DEF Saved
      <4> QED BY <4>1, <4>2
    <3> QED BY <2>2, <3>3, <3>5 DEF ShownOnce
  <2> QED BY <2>6, <2>7
<1>10. CASE \E o, stop : Sends(o, stop)
  <2>1. PICK o, stop : Sends(o, stop)
    BY <1>10
  <2> DEFINE s1 == After(im.session)
  <2>2. /\ running /\ im.session.init # SESSION_UNINIT
        /\ im'.session = (IF stop = "end" THEN s1 ELSE ZeroSession)
        /\ disk'.session = s1 /\ running' = (stop = "end")
        /\ UNCHANGED <<taken, shownagain, forgot>>
    BY <2>1 DEF Sends
  <2>3. out'[Peer] = out[Peer]
    <3>1. CASE out' = out
      BY <3>1
    <3>2. CASE out' = [out EXCEPT ![Im] = @ \cup {o}]
      BY <1>0, <3>2, Members, Joined
    <3> QED BY <2>1, <3>1, <3>2 DEF Sends
  <2>4. s1.init = im.session.init /\ \A m : Past(im.session, m) => Past(s1, m)
    BY <1>0, AfterIs, AfterPast
  <2> HIDE DEF s1
  <2>5. Saved'
    <3>1. ASSUME ~forgot PROVE \A e \in out[Peer] : e.m.body \in taken => Past(s1, e.m)
      BY <2>2, <2>4, <3>1 DEF Saved
    <3> QED BY <2>2, <2>3, <2>4, <3>1 DEF Saved
  <2> QED BY <2>2, <2>5 DEF ShownOnce
<1>11. CASE PeerSetsUp \/ \E m \in out[Im] : PeerReceives(m)
  BY <1>1, <1>11 DEF PeerSetsUp, PeerReceives, ImKept
<1>12. CASE \E o : PeerSends(o)
  <2>1. PICK o : PeerSends(o)
    BY <1>12
  <2>2. /\ o.m.body = Sent + 1 /\ out'[Peer] = out[Peer] \cup {o} /\ Sent \in Nat
        /\ ImKept
    BY <1>0, <2>1, NextNumber, SentType DEF PeerSends
  <2>3. o.m.body \notin taken
    BY <2>2 DEF Numbered
  <2>4. Saved'
    BY <2>2, <2>3 DEF Saved, ImKept
  <2> QED BY <2>2, <2>4 DEF ShownOnce, ImKept
<1> QED BY <1>3, <1>4, <1>5, <1>6, <1>7, <1>8, <1>9, <1>10, <1>11, <1>12 DEF Effect

----------------------------------------------------------------------------
(* Every message of the peer is of the secret its session is of.           *)

Rooted ==
  /\ peer.session.init = SESSION_UNINIT => out[Peer] = {}
  /\ \A e \in out[Peer] :
       /\ Len(e.m.mk.root) >= 5
       /\ Secrets(e.m.mk.root) = Secrets(peer.session.state.rk)

LEMMA StepKeepsRooted == ASSUME Base, Effect, Rooted PROVE Rooted'
<1>0. Shapes /\ Sound(peer.session) /\ peer.session \in Session
  BY DEF Base, Sound
<1>1. CASE PeerKept
  BY <1>1 DEF PeerKept, Rooted
<1>2. CASE PeerSetsUp
  <2>1. out'[Peer] = {}
    BY <1>2 DEF PeerSetsUp, Rooted
  <2> QED BY <2>1 DEF Rooted
<1>3. CASE \E o : PeerSends(o)
  <2>1. PICK o : PeerSends(o)
    BY <1>3
  <2>2. /\ out'[Peer] = out[Peer] \cup {o}
        /\ peer.session.init # SESSION_UNINIT /\ peer'.session = After(peer.session)
        /\ o.m.mk = peer.session.state.cks
    <3>1. out'[Peer] = out[Peer] \cup {o}
      BY <1>0, <2>1, Members, Joined DEF PeerSends
    <3> QED BY <2>1, <3>1 DEF PeerSends, NextMessage
  <2>3. peer'.session.init = peer.session.init /\ peer'.session.state.rk = peer.session.state.rk
    BY <1>0, <2>2, AfterIs
  <2>4. o.m.mk.root = peer.session.state.rk /\ Len(o.m.mk.root) >= 5
    BY <1>0, <2>2 DEF Sound
  <2> QED BY <2>2, <2>3, <2>4 DEF Rooted
<1>4. CASE \E m \in out[Im] : PeerReceives(m)
  <2>1. PICK m \in out[Im] : PeerReceives(m)
    BY <1>4
  <2>2. out'[Peer] = out[Peer] /\ Took(Peer, peer.session, m.m, NewKey(Peer), peer'.session)
    BY <2>1 DEF PeerReceives
  <2>3. peer'.session.init # SESSION_UNINIT
    BY <2>2, InitValues DEF Took
  <2>4. CASE peer.session.init = SESSION_UNINIT
    BY <2>2, <2>3, <2>4 DEF Rooted
  <2>5. CASE peer.session.init # SESSION_UNINIT
    <3>1. Secrets(peer'.session.state.rk) = Secrets(peer.session.state.rk)
      <4>1. m.m \in Message /\ NewKey(Peer) \in PubKey
        BY <1>0, Members, BaseMessage, NewKeyType
      <4>2. \/ Onward(peer.session.state, m.m, peer'.session.state)
            \/ Turn(peer.session.state.rk, peer.session.state.dhs, peer.session.state.ns,
                    m.m, NewKey(Peer), peer'.session.state)
        BY <2>2, <2>5 DEF Took
      <4>3. CASE Onward(peer.session.state, m.m, peer'.session.state)
        BY <4>3 DEF Onward
      <4>4. CASE Turn(peer.session.state.rk, peer.session.state.dhs, peer.session.state.ns,
                      m.m, NewKey(Peer), peer'.session.state)
        <5>1. /\ peer.session.state.rk \in RootKey /\ Len(peer.session.state.rk) >= 4
              /\ peer.session.state.dhs \in PubKey
          BY <1>0, <2>5, RootLength DEF Sound, Session, State
        <5> QED BY <4>1, <4>4, <5>1, TurnRoots
      <4> QED BY <4>2, <4>3, <4>4
    <3> QED BY <2>2, <2>3, <3>1 DEF Rooted
  <2> QED BY <2>4, <2>5
<1> QED BY <1>0, <1>1, <1>2, <1>3, <1>4, PeerEffect

(* A message opens only in a session of its secret.                        *)
LEMMA TookSecret ==
  ASSUME NEW d \in Both, NEW s, Sound(s), s.init # SESSION_UNINIT, NEW m \in Message,
         NEW new \in PubKey, NEW s1, Took(d, s, m, new, s1), Len(m.mk.root) >= 5
  PROVE  Secrets(m.mk.root) = Secrets(s.state.rk)
<1>1. CASE Onward(s.state, m, s1.state)
  <2>1. m.mk.root = s.state.ckr.root
    BY <1>1 DEF Onward
  <2>2. m.mk.root # Zero
    BY ZeroTypes
  <2> QED BY <2>1, <2>2 DEF Sound
<1>2. CASE Turn(s.state.rk, s.state.dhs, s.state.ns, m, new, s1.state)
  <2>1. s.state.rk \in RootKey /\ Len(s.state.rk) >= 4 /\ s.state.dhs \in PubKey
    BY RootLength DEF Sound, Session, State
  <2> QED BY <1>2, <2>1, TurnRoots
<1>3. \/ Onward(s.state, m, s1.state)
      \/ Turn(s.state.rk, s.state.dhs, s.state.ns, m, new, s1.state)
  BY DEF Took
<1> QED BY <1>1, <1>2, <1>3

LEMMA DeafWhenCrossed == ASSUME Base, AsInIm, Rooted PROVE CrossedIsDeaf
<1> SUFFICES ASSUME Crossed, NEW m \in out[Peer], Decrypt(m, "none").ret = 0 PROVE FALSE
  BY DEF CrossedIsDeaf
<1> DEFINE r == Decrypt(m, "none")
<1>1. /\ Shapes /\ Sound(im.session) /\ im.session.init # SESSION_UNINIT
      /\ Secrets(im.session.state.rk) # Secrets(peer.session.state.rk)
  BY DEF Base, Crossed, SharedSecret, Secrets
<1>2. m.m \in Message /\ m.m.dh # Zero /\ NewKey(Im) \in PubKey /\ disk.mkskipped = {}
  BY <1>1, Members, BaseMessage, NewKeyType DEF Base
<1>3. Took(Im, im.session, m.m, NewKey(Im), r.session)
  BY <1>1, <1>2, Members, TookOutcome DEF AsInIm, Decrypt, Sound
<1>4. Len(m.m.mk.root) >= 5 /\ Secrets(m.m.mk.root) = Secrets(peer.session.state.rk)
  BY DEF Rooted
<1> HIDE DEF r
<1>5. Secrets(m.m.mk.root) = Secrets(im.session.state.rk)
  BY <1>1, <1>2, <1>3, <1>4, Members, TookSecret
<1> QED BY <1>1, <1>4, <1>5

----------------------------------------------------------------------------
(* The message that opens next.                                            *)

(* The next message of the chain, or the first of a new one after the end  *)
(* of the one before.                                                      *)
IsNext(t, m) ==
  \/ t.dhr = m.dh /\ m.n = t.nr /\ m.mk = t.ckr
  \/ /\ t.dhr # m.dh /\ m.n = 0 /\ m.pn <= t.nr
     /\ m.mk = FirstChain(DeriveRootKey(t.rk, t.dhs, m.dh))

LEMMA NextIsOpened ==
  ASSUME NEW s \in Session, s.init # SESSION_UNINIT, NEW m \in Message, NEW new \in PubKey,
         s.identity = Identity(Im), m.ad = <<s.remoteidentity, s.identity>>,
         s.init = SESSION_INIT => ~m.isprekey, IsNext(s.state, m)
  PROVE  omemoDecryptKey(Im, s, store, {}, m, new, "none").ret = 0
<1> DEFINE r == omemoDecryptKey(Im, s, store, {}, m, new, "none")
           t == s.state
<1>1. m \in Incoming
  BY DEF Message, Incoming, ChainKey
<1>2. DecryptOutcomes(Im, s, store, {}, m, new, "none", r)
  BY <1>1, StoreType, Members, DecryptOutcome
<1> HIDE DEF r
<1>3. /\ t.nr \in Nat /\ m.n \in Nat /\ m.pn \in Nat /\ t.ckr \in ChainKey
  BY DEF Session, State, Message
<1>4. ASSUME NEW s0, SessionOf(Im, s, store, m, s0)
      PROVE  /\ s0.state = t /\ s0.identity = s.identity
             /\ s0.remoteidentity = s.remoteidentity /\ s0.init = s.init
  BY <1>1, <1>4, StoreType, Members, SessionOfType
<1>5. Loaded({}, m) = {}
  BY DEF Loaded, omemoLoadMessageKey
<1>6. ASSUME NEW s0, SessionOf(Im, s, store, m, s0), RefusedOnTheWay(s0, {}, m, new)
      PROVE  FALSE
  <2>1. s0.state = t
    BY <1>4, <1>6
  <2>2. WithState(s0, s0.init, Ratcheted(s0.state, m.dh, new)).state.nr = 0
    BY DEF WithState, Ratcheted
  <2>3. ~(t.dhr = m.dh /\ t.nr < m.n) /\ (t.dhr # m.dh => ~(t.nr < m.pn) /\ m.n = 0)
    BY <1>3 DEF IsNext
  <2> QED BY <1>3, <1>6, <2>1, <2>2, <2>3 DEF RefusedOnTheWay, RefusedIn
<1>7. ~NoSessionFor(s, store, m)
  BY DEF NoSessionFor
<1>8. ASSUME NEW s0, SessionOf(Im, s, store, m, s0)
      PROVE  s0.identity = Pub(Im, "ik", store.identity) /\ ~Misses(s0, {}, m, new, "none")
  <2>1. /\ s0.state = t /\ s0.identity = s.identity
        /\ s0.remoteidentity = s.remoteidentity
    BY <1>4, <1>8
  <2>2. t.dhr = m.dh => ~(m.n < t.nr) /\ m.mk = KeyAt(t, m.n)
    BY <1>3 DEF IsNext, KeyAt, ChainKey
  <2>3. t.dhr # m.dh => m.mk = KeyAt(Ratcheted(t, m.dh, new), m.n)
    <3> DEFINE t2 == Ratcheted(t, m.dh, new)
               rk1 == DeriveRootKey(t.rk, t.dhs, m.dh)
    <3>1. t2.ckr = [root |-> rk1, i |-> 0] /\ t2.nr = 0
      BY DEF Ratcheted, FirstChain
    <3> HIDE DEF t2, rk1
    <3>2. KeyAt(t2, 0) = [root |-> rk1, i |-> 0]
      BY <3>1 DEF KeyAt
    <3>3. t.dhr # m.dh => m.n = 0 /\ m.mk = [root |-> rk1, i |-> 0]
      BY DEF IsNext, FirstChain, rk1
    <3> QED BY <3>2, <3>3 DEF t2
  <2> HIDE DEF t
  <2> QED BY <1>5, <2>1, <2>2, <2>3 DEF Misses, Identity
<1>9. ~RefusedAny(Im, s, store, {}, m, new)
  BY <1>6 DEF RefusedAny
<1>10. ~MissesAny(Im, s, store, {}, m, new, "none")
  BY <1>7, <1>8 DEF MissesAny
<1>11. r.ret = 0
  BY <1>2, <1>9, <1>10 DEF DecryptOutcomes, LoadFails
<1> QED BY <1>11 DEF r

(* Both name themselves and each other, in sessions and in messages.       *)
Met(d, s) ==
  s.init # SESSION_UNINIT =>
    s.identity = Identity(d) /\ s.remoteidentity = Identity(Other(d))

Named ==
  /\ Met(Im, im.session) /\ Met(Im, disk.session) /\ Met(Peer, peer.session)
  /\ \A d \in Both : \A e \in out[d] : e.m.ad = <<Identity(d), Identity(Other(d))>>

LEMMA ZeroMet == ASSUME NEW d PROVE Met(d, ZeroSession)
  BY DEF Met, ZeroSession

LEMMA TookMet ==
  ASSUME Named, NEW d \in Both, NEW e \in out[Other(d)], NEW s, NEW new, NEW s1,
         Took(d, s, e.m, new, s1)
  PROVE  Met(d, s1)
<1>1. Other(d) \in Both /\ Other(Other(d)) = d
  BY Members DEF Both
<1>2. e.m.ad = <<Identity(Other(d)), Identity(d)>>
  BY <1>1 DEF Named
<1> QED BY <1>2 DEF Took, Met

LEMMA SentNamed ==
  ASSUME Base, Named, NEW d \in Both, NEW s, Met(d, s), s.init # SESSION_UNINIT, NEW body,
         NEW o, o.m = NextMessage(s, body), out' = [out EXCEPT ![d] = @ \cup {o}]
  PROVE  \A e \in Both : \A f \in out'[e] : f.m.ad = <<Identity(e), Identity(Other(e))>>
<1>1. o.m.ad = <<Identity(d), Identity(Other(d))>>
  BY DEF NextMessage, Met
<1>2. /\ out'[d] = out[d] \cup {o}
      /\ \A e \in Both : e # d => out'[e] = out[e]
  BY Joined DEF Base
<1> QED BY <1>1, <1>2 DEF Named

LEMMA NamedKept ==
  ASSUME Met(Im, im'.session), Met(Im, disk'.session), Met(Peer, peer'.session),
         \A d \in Both : \A e \in out'[d] : e.m.ad = <<Identity(d), Identity(Other(d))>>
  PROVE  Named'
  BY DEF Named, Met, Identity, Other

LEMMA StepKeepsNamed == ASSUME Base, Effect, Named PROVE Named'
<1>1. /\ Met(Im, im.session) /\ Met(Im, disk.session) /\ Met(Peer, peer.session)
      /\ \A d \in Both : \A e \in out[d] : e.m.ad = <<Identity(d), Identity(Other(d))>>
      /\ Met(Im, ZeroSession)
      /\ im.session \in Session /\ peer.session \in Session
  BY ZeroMet DEF Named, Base, Sound
<1>2. CASE Idle \/ Saves \/ Closes \/ Stops \/ Starts
  <2>1. /\ im'.session \in {im.session, disk.session, ZeroSession}
        /\ disk'.session \in {im.session, disk.session, ZeroSession}
        /\ peer'.session = peer.session /\ out' = out
    BY <1>2 DEF Idle, Saves, Closes, Stops, Starts, RestKept
  <2>2. Met(Im, im'.session) /\ Met(Im, disk'.session) /\ Met(Peer, peer'.session)
    BY <1>1, <2>1
  <2> QED BY <1>1, <2>1, <2>2, NamedKept
<1>4. CASE SetsUp
  <2>1. Met(Im, im'.session)
    BY <1>4, Members DEF SetsUp, SetUp, Met
  <2> QED BY <1>1, <1>4, <2>1, NamedKept DEF SetsUp
<1>8. CASE PeerSetsUp
  <2>1. Met(Peer, peer'.session)
    BY <1>1, <1>8, Members DEF PeerSetsUp, SetUp, Met
  <2> QED BY <1>1, <1>8, <2>1, NamedKept DEF PeerSetsUp, ImKept
<1>9. CASE \E m \in out[Peer], s1 \in Session, stop \in Stop : Receives(m, s1, stop)
  <2>1. PICK m \in out[Peer], s1 \in Session, stop \in Stop : Receives(m, s1, stop)
    BY <1>9
  <2>2. Met(Im, s1)
    BY <2>1, Members, TookMet DEF Receives
  <2>3. /\ im'.session \in {s1, ZeroSession} /\ disk'.session \in {s1, disk.session}
        /\ peer'.session = peer.session /\ out' = out
    BY <2>1 DEF Receives
  <2>4. Met(Im, im'.session) /\ Met(Im, disk'.session) /\ Met(Peer, peer'.session)
    BY <1>1, <2>2, <2>3
  <2> QED BY <1>1, <2>3, <2>4, NamedKept
<1>10. CASE \E o, stop : Sends(o, stop)
  <2>1. PICK o, stop : Sends(o, stop)
    BY <1>10
  <2>2. Met(Im, After(im.session))
    BY <1>1, AfterIs DEF Met
  <2>3. \A d \in Both : \A e \in out'[d] : e.m.ad = <<Identity(d), Identity(Other(d))>>
    <3>1. CASE out' = out
      BY <1>1, <3>1
    <3>2. CASE out' = [out EXCEPT ![Im] = @ \cup {o}]
      <4>1. im.session.init # SESSION_UNINIT /\ o.m = NextMessage(im.session, Body(Im))
        BY <2>1 DEF Sends
      <4>2. Im \in Both /\ Met(Im, im.session)
        BY <1>1, Members
      <4> QED BY <3>2, <4>1, <4>2, SentNamed
    <3> QED BY <2>1, <3>1, <3>2 DEF Sends
  <2>4. /\ im'.session \in {After(im.session), ZeroSession}
        /\ disk'.session = After(im.session) /\ peer'.session = peer.session
    BY <2>1 DEF Sends
  <2>5. Met(Im, im'.session) /\ Met(Im, disk'.session) /\ Met(Peer, peer'.session)
    BY <1>1, <2>2, <2>4
  <2> QED BY <2>3, <2>5, NamedKept
<1>11. CASE \E o : PeerSends(o)
  <2>1. PICK o : PeerSends(o)
    BY <1>11
  <2>2. Met(Peer, After(peer.session))
    BY <1>1, AfterIs DEF Met
  <2>3. \A d \in Both : \A e \in out'[d] : e.m.ad = <<Identity(d), Identity(Other(d))>>
    BY <1>1, <2>1, Members, SentNamed DEF PeerSends
  <2> QED BY <1>1, <2>1, <2>2, <2>3, NamedKept DEF PeerSends, ImKept
<1>12. CASE \E m \in out[Im] : PeerReceives(m)
  <2>1. PICK m \in out[Im] : PeerReceives(m)
    BY <1>12
  <2>2. Met(Peer, peer'.session)
    BY <2>1, Members, TookMet DEF PeerReceives
  <2> QED BY <1>1, <2>1, <2>2, NamedKept DEF PeerReceives, ImKept
<1> QED BY <1>2, <1>4, <1>8, <1>9, <1>10, <1>11, <1>12 DEF Effect

(* The peer never stops, so it counts the keys of its sending chain right. *)
Counted ==
  /\ peer.session.state.cks.i = peer.session.state.ns
  /\ Known(Peer, peer.session.state.dhs, fresh[Peer])

LEMMA StepKeepsCounted == ASSUME Base, Effect, Counted PROVE Counted'
<1>0. Shapes /\ Sound(peer.session) /\ peer.session \in Session
      /\ Known(Peer, NewKey(Peer), fresh[Peer] + 1)
  BY Members, NewKeyKnown DEF Base, Sound
<1>1. CASE PeerKept
  BY <1>1 DEF PeerKept, Counted
<1>2. CASE PeerSetsUp
  <2>1. fresh'[Peer] = fresh[Peer] + 1 /\ fresh[Peer] \in Nat
    BY <1>0, <1>2, Members, FreshGrows DEF PeerSetsUp
  <2>2. CASE peer'.session = peer.session
    <3>1. Known(Peer, peer.session.state.dhs, fresh[Peer] + 1)
      BY <2>1, KnownLater DEF Counted
    <3> QED BY <2>1, <2>2, <3>1 DEF Counted
  <2>3. CASE SetUp(Peer, NewKey(Peer), peer'.session)
    BY <1>0, <2>1, <2>3 DEF SetUp, FirstChain, Counted
  <2> QED BY <1>2, <2>2, <2>3 DEF PeerSetsUp
<1>3. CASE \E o : PeerSends(o)
  <2>1. peer'.session = After(peer.session) /\ fresh' = fresh
    BY <1>3 DEF PeerSends
  <2>2. /\ peer'.session.state.dhs = peer.session.state.dhs
        /\ peer'.session.state.cks.i = peer.session.state.cks.i + 1
        /\ peer'.session.state.ns = peer.session.state.ns + 1
    BY <1>0, <2>1, AfterIs
  <2> QED BY <2>1, <2>2 DEF Counted
<1>4. CASE \E m \in out[Im] : PeerReceives(m)
  <2>1. PICK m \in out[Im] : PeerReceives(m)
    BY <1>4
  <2>2. /\ Took(Peer, peer.session, m.m, NewKey(Peer), peer'.session)
        /\ fresh' = fresh \/ Generates(Peer)
        /\ peer'.session.state.dhs = NewKey(Peer) => Generates(Peer)
    BY <2>1 DEF PeerReceives
  <2>3. /\ fresh[Peer] \in Nat /\ fresh'[Peer] \in Nat /\ fresh[Peer] <= fresh'[Peer]
        /\ Generates(Peer) => fresh'[Peer] = fresh[Peer] + 1
    BY <1>0, <2>2, Members, FreshGrows
  <2>4. CASE Onward(peer.session.state, m.m, peer'.session.state)
    <3>1. Known(Peer, peer.session.state.dhs, fresh'[Peer])
      BY <2>3, KnownLater DEF Counted
    <3> QED BY <2>4, <3>1 DEF Onward, Counted
  <2>5. CASE \E rk, dhs, ns : Turn(rk, dhs, ns, m.m, NewKey(Peer), peer'.session.state)
    <3>1. /\ peer'.session.state.dhs = NewKey(Peer)
          /\ peer'.session.state.cks.i = 0 /\ peer'.session.state.ns = 0
      BY <2>5 DEF Turn, FirstChain
    <3> QED BY <1>0, <2>2, <2>3, <3>1 DEF Counted
  <2>6. \/ Onward(peer.session.state, m.m, peer'.session.state)
        \/ \E rk, dhs, ns : Turn(rk, dhs, ns, m.m, NewKey(Peer), peer'.session.state)
    BY <2>2 DEF Took
  <2> QED BY <2>4, <2>5, <2>6
<1> QED BY <1>0, <1>1, <1>2, <1>3, <1>4, PeerEffect

----------------------------------------------------------------------------
(* How the two ends agree.  "t" is the state of the session the client has *)
(* saved, of which it took the first "T" messages of the peer, and "p" the *)
(* state of the peer's, who sent K of them; "mine" and "theirs" are the    *)
(* messages of the two.                                                    *)

(* Message m is number j of the chain p sends on.                          *)
FromChain(m, p, j) ==
  m.mk = [root |-> p.cks.root, i |-> j] /\ m.n = j /\ m.dh = p.dhs /\ m.pn = p.pn

(* Where the message of the peer is, counted from the start of the chain   *)
(* that t receives on.                                                     *)
PlaceOf(t, T, m) == t.nr + (m.body - T - 1)

(* The client receives on the chain the peer sends on, and answered it.    *)
Level(t, p, T, K, mine, theirs) ==
  /\ t.dhr = p.dhs /\ t.ckr.root = p.cks.root /\ t.ckr.i = t.nr
  /\ t.rk = DeriveRootKey(p.rk, t.dhs, p.dhs)
  /\ K + t.nr = T + p.ns
  /\ \A e \in theirs : e.m.body > T => FromChain(e.m, p, PlaceOf(t, T, e.m))
  /\ \A e \in mine : /\ Len(e.m.mk.root) <= Len(t.rk)
                     /\ Len(e.m.mk.root) = Len(t.rk) => e.m.dh = t.dhs

(* The peer received an answer and sends on a new chain; the client may    *)
(* have the rest of the old one to receive before it.                      *)
Ahead(t, p, T, K, mine, theirs) ==
  /\ p.rk = DeriveRootKey(t.rk, p.dhs, t.dhs) /\ p.dhr = t.dhs /\ t.dhr # p.dhs
  /\ t.nr <= p.pn /\ t.ckr.i = t.nr
  /\ K + t.nr = T + p.pn + p.ns
  /\ \A e \in theirs : e.m.body > T =>
       /\ PlaceOf(t, T, e.m) < p.pn =>
            /\ e.m.n = PlaceOf(t, T, e.m) /\ e.m.dh = t.dhr
            /\ e.m.mk = [root |-> t.ckr.root, i |-> PlaceOf(t, T, e.m)]
       /\ PlaceOf(t, T, e.m) >= p.pn => FromChain(e.m, p, PlaceOf(t, T, e.m) - p.pn)
  /\ \A e \in mine : Len(e.m.mk.root) <= Len(t.rk)

(* All of it is of the peer's first chain.                                 *)
First(p, K, theirs) ==
  p.pn = 0 /\ K = p.ns /\ \A e \in theirs : FromChain(e.m, p, e.m.body - 1)

(* What sending leaves of a receiver, and receiving on a chain of a sender.*)
SameReceiver(t, t1) ==
  /\ t1.dhs = t.dhs /\ t1.dhr = t.dhr /\ t1.rk = t.rk /\ t1.ckr = t.ckr /\ t1.nr = t.nr

SameSender(p, p1) ==
  /\ p1.dhs = p.dhs /\ p1.dhr = p.dhr /\ p1.rk = p.rk /\ p1.cks.root = p.cks.root
  /\ p1.pn = p.pn /\ p1.ns = p.ns

LEMMA SenderKept ==
  ASSUME NEW t, NEW p, NEW p1, SameSender(p, p1), NEW T, NEW K, NEW mine, NEW theirs
  PROVE  /\ Level(t, p, T, K, mine, theirs) => Level(t, p1, T, K, mine, theirs)
         /\ Ahead(t, p, T, K, mine, theirs) => Ahead(t, p1, T, K, mine, theirs)
         /\ First(p, K, theirs) => First(p1, K, theirs)
<1>1. \A m, j : FromChain(m, p1, j) <=> FromChain(m, p, j)
  BY DEF FromChain, SameSender
<1>2. Level(t, p, T, K, mine, theirs) => Level(t, p1, T, K, mine, theirs)
  BY <1>1 DEF Level, SameSender
<1>3. Ahead(t, p, T, K, mine, theirs) => Ahead(t, p1, T, K, mine, theirs)
  BY <1>1 DEF Ahead, SameSender
<1>4. First(p, K, theirs) => First(p1, K, theirs)
  BY <1>1 DEF First, SameSender
<1> QED BY <1>2, <1>3, <1>4

(* The client sends.                                                       *)
LEMMA MineSent ==
  ASSUME NEW t \in State, NEW t1, SameReceiver(t, t1), NEW p, NEW T, NEW K,
         NEW mine, NEW mine1, NEW theirs,
         \A e \in mine1 : e \in mine \/ (e.m.mk.root = t.rk /\ e.m.dh = t.dhs)
  PROVE  /\ Level(t, p, T, K, mine, theirs) => Level(t1, p, T, K, mine1, theirs)
         /\ Ahead(t, p, T, K, mine, theirs) => Ahead(t1, p, T, K, mine1, theirs)
<1>0. Len(t.rk) \in Nat
  BY RootLength DEF State
<1>1. \A m : PlaceOf(t1, T, m) = PlaceOf(t, T, m)
  BY DEF PlaceOf, SameReceiver
<1>2. ASSUME Level(t, p, T, K, mine, theirs) PROVE Level(t1, p, T, K, mine1, theirs)
  <2>1. \A e \in mine1 : /\ Len(e.m.mk.root) <= Len(t.rk)
                         /\ Len(e.m.mk.root) = Len(t.rk) => e.m.dh = t.dhs
    BY <1>0, <1>2 DEF Level
  <2> QED BY <1>1, <1>2, <2>1 DEF Level, SameReceiver
<1>3. ASSUME Ahead(t, p, T, K, mine, theirs) PROVE Ahead(t1, p, T, K, mine1, theirs)
  <2>1. \A e \in mine1 : Len(e.m.mk.root) <= Len(t.rk)
    BY <1>0, <1>3 DEF Ahead
  <2> QED BY <1>1, <1>3, <2>1 DEF Ahead, SameReceiver
<1> QED BY <1>2, <1>3

(* The peer sends.                                                         *)
LEMMA TheirsSent ==
  ASSUME NEW t \in State, NEW p \in State, p.cks.i = p.ns,
         NEW p1, p1.dhs = p.dhs, p1.dhr = p.dhr, p1.rk = p.rk, p1.cks.root = p.cks.root,
         p1.pn = p.pn, p1.ns = p.ns + 1,
         NEW T \in Nat, NEW K \in Nat, NEW mine, NEW theirs,
         NEW o, o.m.body = K + 1, o.m.mk = p.cks, o.m.n = p.ns, o.m.dh = p.dhs, o.m.pn = p.pn
  PROVE  /\ Level(t, p, T, K, mine, theirs) => Level(t, p1, T, K + 1, mine, theirs \cup {o})
         /\ Ahead(t, p, T, K, mine, theirs) => Ahead(t, p1, T, K + 1, mine, theirs \cup {o})
         /\ First(p, K, theirs) => First(p1, K + 1, theirs \cup {o})
<1>0. /\ t.nr \in Nat /\ p.ns \in Nat /\ p.pn \in Nat
      /\ p.cks = [root |-> p.cks.root, i |-> p.ns]
  BY DEF State, ChainKey
<1>1. \A m, j : FromChain(m, p1, j) <=> FromChain(m, p, j)
  BY DEF FromChain
<1>2. FromChain(o.m, p, p.ns)
  BY <1>0 DEF FromChain
<1>3. PlaceOf(t, T, o.m) = t.nr + K - T
  BY <1>0 DEF PlaceOf
<1>4. ASSUME Level(t, p, T, K, mine, theirs)
      PROVE  Level(t, p1, T, K + 1, mine, theirs \cup {o})
  <2>0. K + t.nr = T + p.ns
    BY <1>4 DEF Level
  <2>1. PlaceOf(t, T, o.m) = p.ns
    BY <1>0, <1>3, <2>0
  <2>2. \A e \in theirs \cup {o} : e.m.body > T => FromChain(e.m, p1, PlaceOf(t, T, e.m))
    BY <1>1, <1>2, <1>4, <2>1 DEF Level
  <2>3. (K + 1) + t.nr = T + p1.ns
    BY <1>0, <2>0
  <2> QED BY <1>4, <2>2, <2>3 DEF Level
<1>5. ASSUME Ahead(t, p, T, K, mine, theirs)
      PROVE  Ahead(t, p1, T, K + 1, mine, theirs \cup {o})
  <2>0. K + t.nr = T + p.pn + p.ns
    BY <1>5 DEF Ahead
  <2>1. PlaceOf(t, T, o.m) = p.pn + p.ns
    BY <1>0, <1>3, <2>0
  <2>2. ~(PlaceOf(t, T, o.m) < p.pn) /\ FromChain(o.m, p1, PlaceOf(t, T, o.m) - p.pn)
    BY <1>0, <1>1, <1>2, <2>1
  <2>3. \A e \in theirs \cup {o} : e.m.body > T =>
       /\ PlaceOf(t, T, e.m) < p1.pn =>
            /\ e.m.n = PlaceOf(t, T, e.m) /\ e.m.dh = t.dhr
            /\ e.m.mk = [root |-> t.ckr.root, i |-> PlaceOf(t, T, e.m)]
       /\ PlaceOf(t, T, e.m) >= p1.pn => FromChain(e.m, p1, PlaceOf(t, T, e.m) - p1.pn)
    BY <1>1, <1>5, <2>2 DEF Ahead
  <2>4. (K + 1) + t.nr = T + p1.pn + p1.ns
    BY <1>0, <2>0
  <2> QED BY <1>5, <2>3, <2>4 DEF Ahead
<1>6. ASSUME First(p, K, theirs) PROVE First(p1, K + 1, theirs \cup {o})
  <2>1. FromChain(o.m, p1, o.m.body - 1)
    <3>1. o.m.body - 1 = p.ns
      BY <1>0, <1>6 DEF First
    <3> QED BY <1>1, <1>2, <3>1
  <2> QED BY <1>1, <1>6, <2>1 DEF First
<1> QED BY <1>4, <1>5, <1>6

(* The client takes a message: it is the next one.                         *)
LEMMA LevelReceives ==
  ASSUME NEW t \in State, NEW p \in State, NEW T \in Nat, NEW K \in Nat, NEW mine, NEW theirs,
         \A f \in theirs : f.m \in Message,
         NEW e \in theirs, e.m.body > T, Level(t, p, T, K, mine, theirs),
         NEW t1, Onward(t, e.m, t1) \/ t.dhr # e.m.dh
  PROVE  e.m.body = T + 1 /\ Level(t1, p, T + 1, K, mine, theirs)
<1>0. t.nr \in Nat /\ p.ns \in Nat /\ \A f \in theirs : f.m.body \in Nat
  BY DEF State, Message
<1>1. FromChain(e.m, p, PlaceOf(t, T, e.m)) /\ t.dhr = p.dhs /\ t.ckr.i = t.nr
  BY DEF Level
<1>2. Onward(t, e.m, t1)
  BY <1>1 DEF FromChain
<1>3. e.m.body = T + 1
  <2>1. PlaceOf(t, T, e.m) = t.nr
    BY <1>1, <1>2 DEF FromChain, Onward
  <2> QED BY <1>0, <2>1 DEF PlaceOf
<1>4. /\ t1.dhs = t.dhs /\ t1.dhr = t.dhr /\ t1.rk = t.rk /\ t1.ckr.root = t.ckr.root
      /\ t1.ckr.i = t.nr + 1 /\ t1.nr = t.nr + 1
  BY <1>1, <1>2 DEF Onward
<1>5. \A f \in theirs : PlaceOf(t1, T + 1, f.m) = PlaceOf(t, T, f.m)
  BY <1>0, <1>4 DEF PlaceOf
<1>6. K + t1.nr = T + 1 + p.ns
  <2>1. K + t.nr = T + p.ns
    BY DEF Level
  <2> QED BY <1>0, <1>4, <2>1
<1>7. \A f \in theirs : f.m.body > T + 1 => FromChain(f.m, p, PlaceOf(t1, T + 1, f.m))
  <2>1. \A f \in theirs : f.m.body > T + 1 => f.m.body > T
    BY <1>0
  <2> QED BY <1>5, <2>1 DEF Level
<1> QED BY <1>3, <1>4, <1>6, <1>7 DEF Level

LEMMA AheadReceives ==
  ASSUME NEW t \in State, NEW p \in State, p.cks.root = p.rk, NEW T \in Nat, NEW K \in Nat,
         NEW mine, NEW theirs, \A f \in theirs : f.m \in Message,
         \A f \in mine : f.m \in Message,
         NEW e \in theirs, e.m.body > T, Ahead(t, p, T, K, mine, theirs),
         NEW new \in PubKey, NEW t1,
         \/ Onward(t, e.m, t1)
         \/ /\ t.dhr # e.m.dh /\ e.m.pn <= t.nr
            /\ Turn(t.rk, t.dhs, t.ns, e.m, new, t1)
  PROVE  /\ e.m.body = T + 1
         /\ Ahead(t1, p, T + 1, K, mine, theirs) \/ Level(t1, p, T + 1, K, mine, theirs)
<1> DEFINE at == PlaceOf(t, T, e.m)
<1>0. t.nr \in Nat /\ p.ns \in Nat /\ p.pn \in Nat /\ \A f \in theirs : f.m.body \in Nat
  BY DEF State, Message
<1>1. /\ at \in Int /\ t.nr <= p.pn /\ t.ckr.i = t.nr /\ t.dhr # p.dhs
      /\ at < p.pn => /\ e.m.n = at /\ e.m.dh = t.dhr
                      /\ e.m.mk = [root |-> t.ckr.root, i |-> at]
      /\ at >= p.pn => FromChain(e.m, p, at - p.pn)
  <2>1. at \in Int
    BY <1>0 DEF PlaceOf
  <2> QED BY SMTT(30), <2>1 DEF Ahead
<1>2. K + t.nr = T + p.pn + p.ns
  BY DEF Ahead
<1>3. CASE at < p.pn
  <2>1. Onward(t, e.m, t1)
    BY <1>1, <1>3
  <2>2. at = t.nr
    BY <1>1, <1>3, <2>1 DEF Onward
  <2>3. e.m.body = T + 1
    BY <1>0, <2>2 DEF PlaceOf
  <2>4. /\ t1.dhs = t.dhs /\ t1.dhr = t.dhr /\ t1.rk = t.rk /\ t1.ckr.root = t.ckr.root
        /\ t1.ckr.i = t.nr + 1 /\ t1.nr = t.nr + 1
    BY <1>1, <2>1 DEF Onward
  <2>5. \A f \in theirs : PlaceOf(t1, T + 1, f.m) = PlaceOf(t, T, f.m)
    BY <1>0, <2>4 DEF PlaceOf
  <2>6. K + t1.nr = T + 1 + p.pn + p.ns /\ t1.nr <= p.pn
    BY <1>0, <1>2, <1>3, <2>2, <2>4
  <2>7. \A f \in theirs : f.m.body > T + 1 => f.m.body > T
    BY <1>0
  <2>8. Ahead(t1, p, T + 1, K, mine, theirs)
    <3> HIDE DEF at
    <3> QED BY <2>4, <2>5, <2>6, <2>7 DEF Ahead
  <2> QED BY <2>3, <2>8
<1>4. CASE ~(at < p.pn)
  <2>1. FromChain(e.m, p, at - p.pn)
    BY <1>0, <1>1, <1>4
  <2>2. /\ e.m.pn <= t.nr /\ Turn(t.rk, t.dhs, t.ns, e.m, new, t1)
    BY <1>1, <2>1 DEF FromChain, Onward
  <2>3. at = p.pn /\ t.nr = p.pn
    <3>1. e.m.n = 0 /\ e.m.n = at - p.pn /\ e.m.pn = p.pn
      BY <2>1, <2>2 DEF FromChain, Turn
    <3> HIDE DEF at
    <3> QED BY <1>0, <1>1, <2>2, <3>1
  <2>4. e.m.body = T + 1
    BY <1>0, <2>3 DEF PlaceOf
  <2>5. e.m.mk.root = p.rk /\ e.m.dh = p.dhs
    BY <2>1 DEF FromChain
  <2>6. /\ t1.dhs = new /\ t1.dhr = p.dhs /\ t1.rk = DeriveRootKey(p.rk, new, p.dhs)
        /\ t1.ckr.root = p.cks.root /\ t1.ckr.i = 1 /\ t1.nr = 1
    BY <2>2, <2>5 DEF Turn
  <2>7. K + t1.nr = T + 1 + p.ns
    BY <1>0, <1>2, <2>3, <2>6
  <2>8. ASSUME NEW f \in theirs, f.m.body > T + 1
        PROVE  FromChain(f.m, p, PlaceOf(t1, T + 1, f.m))
    <3>1. f.m.body \in Nat /\ f.m.body > T
      BY <1>0, <2>8
    <3>2. PlaceOf(t1, T + 1, f.m) = PlaceOf(t, T, f.m) - p.pn /\ PlaceOf(t, T, f.m) >= p.pn
      BY <1>0, <2>3, <2>6, <2>8, <3>1 DEF PlaceOf
    <3> QED BY <3>1, <3>2 DEF Ahead
  <2>9. \A f \in mine : Len(f.m.mk.root) < Len(t1.rk)
    <3>1. /\ t.rk \in RootKey /\ t.dhs \in PubKey /\ e.m \in Message
      BY DEF State
    <3>2. Len(t.rk) \in Nat /\ Len(t1.rk) = Len(t.rk) + 2
      BY <2>2, <3>1, TurnRoots
    <3>3. \A f \in mine : Len(f.m.mk.root) \in Nat /\ Len(f.m.mk.root) <= Len(t.rk)
      BY RootLength DEF Ahead, Message, ChainKey
    <3> QED BY <3>2, <3>3
  <2>10. \A f \in mine : /\ Len(f.m.mk.root) <= Len(t1.rk)
                         /\ Len(f.m.mk.root) = Len(t1.rk) => f.m.dh = t1.dhs
    <3>1. \A f \in mine : Len(f.m.mk.root) \in Nat
      BY RootLength DEF Message, ChainKey
    <3>2. Len(t1.rk) \in Nat
      <4>1. t.rk \in RootKey /\ t.dhs \in PubKey /\ e.m \in Message
        BY DEF State
      <4> QED BY <2>2, <4>1, TurnRoots
    <3> QED BY <2>9, <3>1, <3>2
  <2>11. Level(t1, p, T + 1, K, mine, theirs)
    BY <2>6, <2>7, <2>8, <2>10 DEF Level
  <2> QED BY <2>4, <2>11
<1> QED BY <1>3, <1>4

(* The client's session is opened by a message of the peer.                *)
LEMMA FirstReceives ==
  ASSUME NEW p \in State, p.cks.root = p.rk, NEW K \in Nat, NEW theirs,
         \A f \in theirs : f.m \in Message, First(p, K, theirs), NEW e \in theirs,
         NEW rk, NEW dhs, NEW ns, NEW new, NEW t1, Turn(rk, dhs, ns, e.m, new, t1)
  PROVE  e.m.body = 1 /\ Level(t1, p, 1, K, {}, theirs)
<1>0. p.ns \in Nat /\ \A f \in theirs : f.m.body \in Nat
  BY DEF State, Message
<1>1. FromChain(e.m, p, e.m.body - 1) /\ K = p.ns
  BY DEF First
<1>2. e.m.body = 1
  <2>1. e.m.body - 1 = 0
    BY <1>1 DEF FromChain, Turn
  <2> QED BY <1>0, <2>1
<1>3. e.m.mk.root = p.rk /\ e.m.dh = p.dhs
  BY <1>1 DEF FromChain
<1>4. /\ t1.dhs = new /\ t1.dhr = p.dhs /\ t1.rk = DeriveRootKey(p.rk, new, p.dhs)
      /\ t1.ckr.root = p.cks.root /\ t1.ckr.i = 1 /\ t1.nr = 1
  BY <1>3 DEF Turn
<1>5. \A f \in theirs : PlaceOf(t1, 1, f.m) = f.m.body - 1
  BY <1>0, <1>4 DEF PlaceOf
<1>6. \A f \in theirs : FromChain(f.m, p, PlaceOf(t1, 1, f.m))
  BY <1>5 DEF First
<1>7. K + t1.nr = 1 + p.ns
  BY <1>0, <1>1, <1>4
<1> QED BY <1>2, <1>4, <1>6, <1>7 DEF Level

(* The peer takes a message that starts a new chain: it answers the        *)
(* client's newest key.                                                    *)
LEMMA LevelAnswered ==
  ASSUME NEW t \in State, NEW p \in State, p.cks.root = p.rk, NEW T \in Nat, NEW K \in Nat,
         NEW mine, NEW theirs, \A f \in theirs : f.m \in Message,
         \A f \in mine : f.m \in Message, T <= K, \A f \in theirs : f.m.body <= K,
         Level(t, p, T, K, mine, theirs), NEW e \in mine,
         NEW new \in PubKey, t.dhr # new, NEW p1, Turn(p.rk, p.dhs, p.ns, e.m, new, p1)
  PROVE  Ahead(t, p1, T, K, mine, theirs)
<1>0. /\ t.nr \in Nat /\ p.ns \in Nat /\ \A f \in theirs : f.m.body \in Nat
      /\ p.rk \in RootKey /\ p.dhs \in PubKey /\ t.dhs \in PubKey /\ e.m \in Message
      /\ e.m.dh \in PubKey
  BY DEF State, Message
<1>1. /\ t.dhr = p.dhs /\ t.ckr.root = p.cks.root /\ t.ckr.i = t.nr
      /\ t.rk = DeriveRootKey(p.rk, t.dhs, p.dhs)
      /\ Len(e.m.mk.root) = Len(t.rk) => e.m.dh = t.dhs
  BY DEF Level
<1>2. K + t.nr = T + p.ns
  BY DEF Level
<1>3. e.m.mk.root = DeriveRootKey(p.rk, p.dhs, e.m.dh)
      /\ Len(e.m.mk.root) = Len(p.rk) + 1
  BY <1>0, TurnRoots
<1>4. Len(DeriveRootKey(p.rk, t.dhs, p.dhs)) = Len(p.rk) + 1
  BY <1>0, DeriveType
<1>5. e.m.dh = t.dhs
  BY <1>1, <1>3, <1>4
<1>6. e.m.mk.root = t.rk
  BY <1>1, <1>3, <1>5, DHSymmetric DEF DeriveRootKey
<1>7. /\ p1.dhs = new /\ p1.dhr = t.dhs /\ p1.rk = DeriveRootKey(t.rk, new, t.dhs)
      /\ p1.ns = 0 /\ p1.pn = p.ns
  BY <1>5, <1>6 DEF Turn
<1>8. t.nr <= p1.pn /\ K + t.nr = T + p1.pn + p1.ns
  BY <1>0, <1>2, <1>7
<1>9. ASSUME NEW f \in theirs, f.m.body > T
      PROVE  /\ PlaceOf(t, T, f.m) < p1.pn
             /\ f.m.n = PlaceOf(t, T, f.m) /\ f.m.dh = t.dhr
             /\ f.m.mk = [root |-> t.ckr.root, i |-> PlaceOf(t, T, f.m)]
             /\ PlaceOf(t, T, f.m) \in Int /\ p1.pn \in Int
  <2>1. FromChain(f.m, p, PlaceOf(t, T, f.m))
    BY <1>9 DEF Level
  <2>2. f.m.body \in Nat /\ f.m.body <= K
    BY <1>0
  <2>3. /\ PlaceOf(t, T, f.m) < p1.pn /\ PlaceOf(t, T, f.m) \in Int /\ p1.pn \in Int
    BY <1>0, <1>2, <1>7, <2>2 DEF PlaceOf
  <2> QED BY <1>1, <2>1, <2>3 DEF FromChain
<1>10. \A f \in theirs : f.m.body > T =>
       /\ PlaceOf(t, T, f.m) < p1.pn =>
            /\ f.m.n = PlaceOf(t, T, f.m) /\ f.m.dh = t.dhr
            /\ f.m.mk = [root |-> t.ckr.root, i |-> PlaceOf(t, T, f.m)]
       /\ PlaceOf(t, T, f.m) >= p1.pn => FromChain(f.m, p1, PlaceOf(t, T, f.m) - p1.pn)
  <2>1. \A a, b \in Int : a < b => ~(a >= b)
    OBVIOUS
  <2> QED BY <1>9, <2>1
<1>11. \A f \in mine : Len(f.m.mk.root) <= Len(t.rk)
  BY DEF Level
<1> QED BY <1>1, <1>7, <1>8, <1>10, <1>11 DEF Ahead

LEMMA AheadNotAnswered ==
  ASSUME NEW t \in State, NEW p \in State, NEW T, NEW K, NEW mine, NEW theirs,
         Ahead(t, p, T, K, mine, theirs), NEW e \in mine, e.m \in Message,
         NEW new \in PubKey, NEW p1, Turn(p.rk, p.dhs, p.ns, e.m, new, p1)
  PROVE  FALSE
<1>0. /\ p.rk \in RootKey /\ p.dhs \in PubKey /\ t.rk \in RootKey /\ t.dhs \in PubKey
  BY DEF State
<1>1. /\ p.rk = DeriveRootKey(t.rk, p.dhs, t.dhs) /\ Len(e.m.mk.root) <= Len(t.rk)
  BY DEF Ahead
<1>2. Len(DeriveRootKey(t.rk, p.dhs, t.dhs)) = Len(t.rk) + 1 /\ Len(t.rk) \in Nat
  BY <1>0, DeriveType, RootLength
<1>3. Len(e.m.mk.root) = Len(p.rk) + 1
  BY <1>0, TurnRoots
<1> QED BY <1>1, <1>2, <1>3

(* The peer's session is opened by a message of the client.                *)
LEMMA PeerOpened ==
  ASSUME NEW t, t.nr = 0, t.ckr.i = 0, NEW mine,
         \A f \in mine : f.m.mk.root = t.rk /\ f.m.dh = t.dhs /\ Len(f.m.mk.root) \in Nat,
         NEW e \in mine, NEW new, t.dhr # new,
         NEW rk, NEW dhs, NEW p1, Turn(rk, dhs, 0, e.m, new, p1)
  PROVE  Ahead(t, p1, 0, 0, mine, {})
<1>1. e.m.mk.root = t.rk /\ e.m.dh = t.dhs
  OBVIOUS
<1>2. /\ p1.dhs = new /\ p1.dhr = t.dhs /\ p1.rk = DeriveRootKey(t.rk, new, t.dhs)
      /\ p1.ns = 0 /\ p1.pn = 0
  BY <1>1 DEF Turn
<1>3. \A f \in mine : Len(f.m.mk.root) <= Len(t.rk)
  OBVIOUS
<1> QED BY <1>2, <1>3 DEF Ahead

PreKeys(sent) == \A e \in sent : e.m.isprekey

(* The client has no session: it sent nothing, and the peer may have set   *)
(* one up and announced it.                                                *)
Awaits(ds, ps, T, K, mine, theirs) ==
  /\ ds.init = SESSION_UNINIT /\ T = 0 /\ mine = {}
  /\ \/ ps.init = SESSION_UNINIT
     \/ /\ ps.init = SESSION_INIT /\ First(ps.state, K, theirs) /\ PreKeys(theirs)

(* The client set one up, and the peer has none, one of its own, or the    *)
(* client's.                                                               *)
Offers(ds, ps, T, K, mine, theirs) ==
  /\ ds.init = SESSION_INIT /\ T = 0
  /\ ds.state.nr = 0 /\ ds.state.ckr = ZeroChain /\ ds.state.dhr = SignedKey(Peer)
  /\ \A e \in mine : e.m.isprekey /\ e.m.dh = ds.state.dhs /\ e.m.mk.root = ds.state.rk
  /\ \/ ps.init = SESSION_UNINIT
     \/ ps.init = SESSION_INIT /\ PreKeys(theirs)
     \/ /\ ps.init = SESSION_READY /\ Ahead(ds.state, ps.state, T, K, mine, theirs)
        /\ \A e \in theirs : ~e.m.isprekey

(* The client received something, in a session of both.                    *)
Talks(ds, ps, T, K, mine, theirs) ==
  /\ ds.init = SESSION_READY /\ ps.init # SESSION_UNINIT
  /\ \/ Level(ds.state, ps.state, T, K, mine, theirs)
     \/ Ahead(ds.state, ps.state, T, K, mine, theirs)

Together(ds, ps, T, K, mine, theirs) ==
  \/ Awaits(ds, ps, T, K, mine, theirs)
  \/ Offers(ds, ps, T, K, mine, theirs)
  \/ Talks(ds, ps, T, K, mine, theirs)

LEMMA SoundState ==
  ASSUME NEW s, Sound(s)
  PROVE  /\ s \in Session /\ s.state \in State
         /\ s.init # SESSION_UNINIT => s.state.cks.root = s.state.rk
  BY DEF Sound, Session

LEMMA NextFields ==
  ASSUME NEW s, NEW body, NEW m, m = NextMessage(s, body)
  PROVE  /\ m.body = body /\ m.mk = s.state.cks /\ m.n = s.state.ns
         /\ m.dh = s.state.dhs /\ m.pn = s.state.pn
         /\ s.init = SESSION_INIT => m.isprekey
         /\ s.init # SESSION_INIT => ~m.isprekey
<1>1. /\ m.body = body /\ m.mk = s.state.cks /\ m.n = s.state.ns
      /\ m.dh = s.state.dhs /\ m.pn = s.state.pn
  BY DEF NextMessage
<1>2. m.isprekey = (s.init = SESSION_INIT)
  BY Zenon DEF NextMessage
<1> QED BY <1>1, <1>2

(* The client takes a message.                                             *)
LEMMA TookTogether ==
  ASSUME NEW ds, Sound(ds), NEW ps, Sound(ps), NEW T \in Nat, NEW K \in Nat,
         NEW mine, NEW theirs, \A f \in mine : f.m \in Message, \A f \in theirs : f.m \in Message,
         ps.init = SESSION_UNINIT => theirs = {}, Together(ds, ps, T, K, mine, theirs),
         NEW e \in theirs, e.m.body > T, NEW new \in PubKey, NEW s1,
         Took(Im, ds, e.m, new, s1)
  PROVE  e.m.body = T + 1 /\ Together(s1, ps, T + 1, K, mine, theirs)
<1>1. /\ ds.state \in State /\ ps.state \in State /\ ps.init # SESSION_UNINIT
      /\ ps.state.cks.root = ps.state.rk
  BY SoundState
<1>2. s1.init = SESSION_READY /\ (ds.init = SESSION_INIT => ~e.m.isprekey)
  BY DEF Took
<1>3. ds.init # SESSION_UNINIT =>
        \/ Onward(ds.state, e.m, s1.state)
        \/ /\ ds.state.dhr # e.m.dh /\ e.m.pn <= ds.state.nr
           /\ Turn(ds.state.rk, ds.state.dhs, ds.state.ns, e.m, new, s1.state)
  BY DEF Took
<1>4. ASSUME \/ Level(s1.state, ps.state, T + 1, K, mine, theirs)
             \/ Ahead(s1.state, ps.state, T + 1, K, mine, theirs)
      PROVE  Together(s1, ps, T + 1, K, mine, theirs)
  BY <1>1, <1>2, <1>4 DEF Together, Talks
<1>5. CASE Awaits(ds, ps, T, K, mine, theirs)
  <2>1. T = 0 /\ mine = {} /\ First(ps.state, K, theirs) /\ ds.init = SESSION_UNINIT
    BY <1>1, <1>5 DEF Awaits
  <2>2. PICK sk, spk : Turn(sk, spk, ds.state.ns, e.m, new, s1.state)
    BY <2>1 DEF Took
  <2>3. e.m.body = 1 /\ Level(s1.state, ps.state, 1, K, {}, theirs)
    BY <1>1, <2>1, <2>2, FirstReceives
  <2>4. e.m.body = T + 1 /\ Level(s1.state, ps.state, T + 1, K, mine, theirs)
    BY <2>1, <2>3
  <2> QED BY <1>4, <2>4
<1>6. ASSUME ds.init # SESSION_UNINIT, Ahead(ds.state, ps.state, T, K, mine, theirs)
      PROVE  e.m.body = T + 1 /\ Together(s1, ps, T + 1, K, mine, theirs)
  <2>1. /\ e.m.body = T + 1
        /\ \/ Ahead(s1.state, ps.state, T + 1, K, mine, theirs)
           \/ Level(s1.state, ps.state, T + 1, K, mine, theirs)
    BY <1>1, <1>3, <1>6, AheadReceives
  <2> QED BY <1>4, <2>1
<1>7. CASE Offers(ds, ps, T, K, mine, theirs)
  <2>1. ds.init = SESSION_INIT /\ ~e.m.isprekey
    BY <1>2, <1>7 DEF Offers
  <2>2. Ahead(ds.state, ps.state, T, K, mine, theirs)
    BY <1>1, <1>7, <2>1 DEF Offers, PreKeys
  <2> QED BY <1>6, <2>1, <2>2, InitValues
<1>8. CASE Talks(ds, ps, T, K, mine, theirs)
  <2>0. ds.init # SESSION_UNINIT
    BY <1>8, InitValues DEF Talks
  <2>1. CASE Level(ds.state, ps.state, T, K, mine, theirs)
    <3>1. e.m.body = T + 1 /\ Level(s1.state, ps.state, T + 1, K, mine, theirs)
      BY <1>1, <1>3, <2>0, <2>1, LevelReceives
    <3> QED BY <1>4, <3>1
  <2> QED BY <1>6, <1>8, <2>0, <2>1 DEF Talks
<1> QED BY <1>5, <1>7, <1>8 DEF Together

(* The client sets up a session.                                           *)
LEMMA SetUpTogether ==
  ASSUME NEW ds, ds.init = SESSION_UNINIT, NEW ps, NEW T, NEW K, NEW mine, NEW theirs,
         Together(ds, ps, T, K, mine, theirs), NEW key, NEW s1, SetUp(Im, key, s1)
  PROVE  Together(s1, ps, T, K, mine, theirs)
<1>1. Awaits(ds, ps, T, K, mine, theirs)
  BY InitValues DEF Together, Offers, Talks
<1>2. /\ s1.init = SESSION_INIT /\ s1.state.nr = 0 /\ s1.state.ckr = ZeroChain
      /\ s1.state.dhr = SignedKey(Peer)
  BY Members DEF SetUp
<1>3. Offers(s1, ps, T, K, mine, theirs)
  BY <1>1, <1>2 DEF Awaits, Offers
<1> QED BY <1>3 DEF Together

(* The client encrypts, and may send what it encrypted.                    *)
LEMMA SentTogether ==
  ASSUME NEW ds, Sound(ds), ds.init # SESSION_UNINIT, NEW ps, NEW T, NEW K,
         NEW mine, NEW mine1, NEW theirs, Together(ds, ps, T, K, mine, theirs),
         NEW o, NEW body, o.m = NextMessage(ds, body), mine1 = mine \/ mine1 = mine \cup {o}
  PROVE  Together(After(ds), ps, T, K, mine1, theirs)
<1> DEFINE s1 == After(ds)
<1>1. /\ ds.state \in State /\ ds.state.cks.root = ds.state.rk
      /\ s1.init = ds.init /\ SameReceiver(ds.state, s1.state)
  BY SoundState, AfterIs DEF SameReceiver
<1>2. /\ o.m.mk.root = ds.state.rk /\ o.m.dh = ds.state.dhs
      /\ ds.init = SESSION_INIT => o.m.isprekey
  BY <1>1, NextFields
<1>3. \A e \in mine1 : e \in mine \/ (e.m.mk.root = ds.state.rk /\ e.m.dh = ds.state.dhs)
  BY <1>2
<1> HIDE DEF s1
<1>4. /\ Level(ds.state, ps.state, T, K, mine, theirs) =>
           Level(s1.state, ps.state, T, K, mine1, theirs)
      /\ Ahead(ds.state, ps.state, T, K, mine, theirs) =>
           Ahead(s1.state, ps.state, T, K, mine1, theirs)
  BY <1>1, <1>3, MineSent
<1>5. CASE Offers(ds, ps, T, K, mine, theirs)
  <2>1. \A e \in mine1 : e.m.isprekey /\ e.m.dh = s1.state.dhs /\ e.m.mk.root = s1.state.rk
    <3>1. ds.init = SESSION_INIT /\ s1.state.dhs = ds.state.dhs /\ s1.state.rk = ds.state.rk
      BY <1>1, <1>5 DEF Offers, SameReceiver
    <3>2. \A e \in mine : e.m.isprekey /\ e.m.dh = ds.state.dhs /\ e.m.mk.root = ds.state.rk
      BY <1>5 DEF Offers
    <3> QED BY <1>2, <3>1, <3>2
  <2>2. Offers(s1, ps, T, K, mine1, theirs)
    BY <1>1, <1>4, <1>5, <2>1 DEF Offers, SameReceiver
  <2> QED BY <2>2 DEF Together, s1
<1>6. CASE Talks(ds, ps, T, K, mine, theirs)
  <2>1. Talks(s1, ps, T, K, mine1, theirs)
    BY <1>1, <1>4, <1>6 DEF Talks
  <2> QED BY <2>1 DEF Together, s1
<1>7. ~Awaits(ds, ps, T, K, mine, theirs)
  BY DEF Awaits
<1> QED BY <1>5, <1>6, <1>7 DEF Together

(* The peer sets up a session.                                             *)
LEMMA PeerSetUpTogether ==
  ASSUME NEW ds, NEW ps, ps.init = SESSION_UNINIT, NEW T, NEW mine,
         Together(ds, ps, T, 0, mine, {}), NEW key, NEW p1, SetUp(Peer, key, p1)
  PROVE  Together(ds, p1, T, 0, mine, {})
<1>1. p1.init = SESSION_INIT /\ First(p1.state, 0, {}) /\ PreKeys({})
  BY DEF SetUp, First, PreKeys
<1>2. CASE Awaits(ds, ps, T, 0, mine, {})
  <2>1. Awaits(ds, p1, T, 0, mine, {})
    BY <1>1, <1>2 DEF Awaits
  <2> QED BY <2>1 DEF Together
<1>3. CASE Offers(ds, ps, T, 0, mine, {})
  <2>1. Offers(ds, p1, T, 0, mine, {})
    BY <1>1, <1>3 DEF Offers
  <2> QED BY <2>1 DEF Together
<1>4. ~Talks(ds, ps, T, 0, mine, {})
  BY DEF Talks
<1> QED BY <1>2, <1>3, <1>4 DEF Together

(* The peer sends.                                                         *)
LEMMA PeerSentTogether ==
  ASSUME NEW ds, Sound(ds), NEW ps, Sound(ps), ps.init # SESSION_UNINIT,
         ps.state.cks.i = ps.state.ns, NEW T \in Nat, NEW K \in Nat, NEW mine, NEW theirs,
         Together(ds, ps, T, K, mine, theirs), NEW o, o.m = NextMessage(ps, K + 1)
  PROVE  Together(ds, After(ps), T, K + 1, mine, theirs \cup {o})
<1> DEFINE p1 == After(ps)
           next == theirs \cup {o}
<1>1. /\ ds.state \in State /\ ps.state \in State
      /\ p1.init = ps.init /\ p1.state.dhs = ps.state.dhs /\ p1.state.dhr = ps.state.dhr
      /\ p1.state.rk = ps.state.rk /\ p1.state.cks.root = ps.state.cks.root
      /\ p1.state.pn = ps.state.pn /\ p1.state.ns = ps.state.ns + 1
  BY SoundState, AfterIs
<1>2. /\ o.m.body = K + 1 /\ o.m.mk = ps.state.cks /\ o.m.n = ps.state.ns
      /\ o.m.dh = ps.state.dhs /\ o.m.pn = ps.state.pn
      /\ ps.init = SESSION_INIT => o.m.isprekey
      /\ ps.init # SESSION_INIT => ~o.m.isprekey
  BY NextFields
<1> HIDE DEF p1
<1>3. /\ Level(ds.state, ps.state, T, K, mine, theirs) =>
           Level(ds.state, p1.state, T, K + 1, mine, next)
      /\ Ahead(ds.state, ps.state, T, K, mine, theirs) =>
           Ahead(ds.state, p1.state, T, K + 1, mine, next)
      /\ First(ps.state, K, theirs) => First(p1.state, K + 1, next)
  BY <1>1, <1>2, TheirsSent
<1>4. CASE Awaits(ds, ps, T, K, mine, theirs)
  <2>1. ps.init = SESSION_INIT /\ First(p1.state, K + 1, next) /\ PreKeys(next)
    BY <1>2, <1>3, <1>4 DEF Awaits, PreKeys
  <2>2. Awaits(ds, p1, T, K + 1, mine, next)
    BY <1>1, <1>4, <2>1 DEF Awaits
  <2> QED BY <2>2 DEF Together, p1
<1>5. CASE Offers(ds, ps, T, K, mine, theirs)
  <2>1. CASE ps.init = SESSION_INIT
    <3>1. PreKeys(next)
      BY <1>2, <1>5, <2>1, InitValues DEF Offers, PreKeys
    <3>2. Offers(ds, p1, T, K + 1, mine, next)
      BY <1>1, <1>5, <2>1, <3>1 DEF Offers
    <3> QED BY <3>2 DEF Together, p1
  <2>2. CASE ps.init # SESSION_INIT
    <3>1. /\ ps.init = SESSION_READY /\ Ahead(ds.state, p1.state, T, K + 1, mine, next)
          /\ \A e \in next : ~e.m.isprekey
      BY <1>2, <1>3, <1>5, <2>2 DEF Offers
    <3>2. Offers(ds, p1, T, K + 1, mine, next)
      BY <1>1, <1>5, <3>1 DEF Offers
    <3> QED BY <3>2 DEF Together, p1
  <2> QED BY <2>1, <2>2
<1>6. CASE Talks(ds, ps, T, K, mine, theirs)
  <2>1. Talks(ds, p1, T, K + 1, mine, next)
    BY <1>1, <1>3, <1>6 DEF Talks
  <2> QED BY <2>1 DEF Together, p1
<1> QED BY <1>4, <1>5, <1>6 DEF Together

(* The peer takes a message.                                               *)
LEMMA PeerTookTogether ==
  ASSUME NEW ds, Sound(ds), NEW ps, Sound(ps), NEW T \in Nat, NEW K \in Nat, T <= K,
         NEW mine, NEW theirs, \A f \in mine : f.m \in Message,
         \A f \in theirs : f.m \in Message, \A f \in theirs : f.m.body <= K,
         ps.init = SESSION_UNINIT => theirs = {} /\ K = 0,
         Together(ds, ps, T, K, mine, theirs),
         NEW new \in PubKey, SignedKey(Peer) # new, ps.state.dhs # new,
         NEW e \in mine, NEW p1, Took(Peer, ps, e.m, new, p1)
  PROVE  Together(ds, p1, T, K, mine, theirs)
<1>1. /\ ds.state \in State /\ ps.state \in State
      /\ ps.init # SESSION_UNINIT => ps.state.cks.root = ps.state.rk
  BY SoundState
<1>2. p1.init = SESSION_READY /\ (ps.init = SESSION_INIT => ~e.m.isprekey)
  BY DEF Took
<1>3. ps.init # SESSION_UNINIT =>
        \/ Onward(ps.state, e.m, p1.state)
        \/ Turn(ps.state.rk, ps.state.dhs, ps.state.ns, e.m, new, p1.state)
  BY DEF Took
<1>4. ASSUME Onward(ps.state, e.m, p1.state)
      PROVE  /\ Level(ds.state, ps.state, T, K, mine, theirs) =>
                  Level(ds.state, p1.state, T, K, mine, theirs)
             /\ Ahead(ds.state, ps.state, T, K, mine, theirs) =>
                  Ahead(ds.state, p1.state, T, K, mine, theirs)
  <2>1. SameSender(ps.state, p1.state)
    BY <1>4 DEF Onward, SameSender
  <2> QED BY <2>1, SenderKept
<1>5. ASSUME ps.init # SESSION_UNINIT, Ahead(ds.state, ps.state, T, K, mine, theirs)
      PROVE  Ahead(ds.state, p1.state, T, K, mine, theirs)
  <2>1. ~Turn(ps.state.rk, ps.state.dhs, ps.state.ns, e.m, new, p1.state)
    BY <1>1, <1>5, AheadNotAnswered
  <2> QED BY <1>3, <1>4, <1>5, <2>1
<1>6. CASE Offers(ds, ps, T, K, mine, theirs)
  <2>1. e.m.isprekey
    BY <1>6 DEF Offers
  <2>2. Ahead(ds.state, p1.state, T, K, mine, theirs) /\ \A f \in theirs : ~f.m.isprekey
    <3>1. CASE ps.init = SESSION_UNINIT
      <4>1. PICK sk, spk : Turn(sk, spk, ps.state.ns, e.m, new, p1.state)
        BY <3>1 DEF Took
      <4>2. ps.state.ns = 0
        BY <3>1 DEF Sound, ZeroState
      <4>3. /\ ds.state.nr = 0 /\ ds.state.ckr.i = 0 /\ ds.state.dhr # new
            /\ T = 0 /\ K = 0 /\ theirs = {}
        BY <1>6, <3>1 DEF Offers, ZeroChain
      <4>4. \A f \in mine : /\ f.m.mk.root = ds.state.rk /\ f.m.dh = ds.state.dhs
                            /\ Len(f.m.mk.root) \in Nat
        BY <1>1, <1>6, RootLength DEF Offers, State
      <4>5. Turn(sk, spk, 0, e.m, new, p1.state)
        BY <4>1, <4>2
      <4>6. Ahead(ds.state, p1.state, 0, 0, mine, {})
        BY <4>3, <4>4, <4>5, PeerOpened
      <4> QED BY <4>3, <4>6
    <3>2. CASE ps.init # SESSION_UNINIT
      <4>1. Ahead(ds.state, ps.state, T, K, mine, theirs) /\ \A f \in theirs : ~f.m.isprekey
        BY <1>2, <1>6, <2>1, <3>2 DEF Offers
      <4> QED BY <1>5, <3>2, <4>1
    <3> QED BY <3>1, <3>2
  <2>3. Offers(ds, p1, T, K, mine, theirs)
    BY <1>2, <1>6, <2>2 DEF Offers
  <2> QED BY <2>3 DEF Together
<1>7. CASE Talks(ds, ps, T, K, mine, theirs)
  <2>0. ps.init # SESSION_UNINIT
    BY <1>7 DEF Talks
  <2>1. \/ Level(ds.state, p1.state, T, K, mine, theirs)
        \/ Ahead(ds.state, p1.state, T, K, mine, theirs)
    <3>1. CASE Level(ds.state, ps.state, T, K, mine, theirs)
      <4>1. ds.state.dhr # new
        BY <3>1 DEF Level
      <4>2. ASSUME Turn(ps.state.rk, ps.state.dhs, ps.state.ns, e.m, new, p1.state)
            PROVE  Ahead(ds.state, p1.state, T, K, mine, theirs)
        BY <1>1, <2>0, <3>1, <4>1, <4>2, LevelAnswered
      <4> QED BY <1>3, <1>4, <2>0, <3>1, <4>2
    <3>2. CASE Ahead(ds.state, ps.state, T, K, mine, theirs)
      BY <1>5, <2>0, <3>2
    <3> QED BY <1>7, <3>1, <3>2 DEF Talks
  <2>2. p1.init # SESSION_UNINIT /\ ds.init = SESSION_READY
    BY <1>2, <1>7, InitValues DEF Talks
  <2> QED BY <2>1, <2>2 DEF Together, Talks
<1>8. ~Awaits(ds, ps, T, K, mine, theirs)
  BY DEF Awaits
<1> QED BY <1>6, <1>7, <1>8 DEF Together

(* As long as the session is not given up, the client took the messages of *)
(* the peer from the first on, and what it saved agrees with the peer's.   *)
Sync ==
  ~forgot =>
    /\ taken = 1..Cardinality(taken)
    /\ Together(disk.session, peer.session, Cardinality(taken), Sent, out[Im], out[Peer])

LEMMA TakenType ==
  ASSUME Shapes, Numbered PROVE Cardinality(taken) \in Nat /\ Cardinality(taken) <= Sent
<1>1. Sent \in Nat /\ taken \subseteq 1..Sent
  BY SentType DEF Numbered
<1>2. IsFiniteSet(1..Sent) /\ Cardinality(1..Sent) = Sent
  BY <1>1, FS_Interval
<1>3. /\ IsFiniteSet(taken) /\ Cardinality(taken) <= Cardinality(1..Sent)
  BY <1>1, <1>2, FS_Subset
<1>4. Cardinality(taken) \in Nat
  BY <1>3, FS_CardinalityType
<1> QED BY <1>2, <1>3, <1>4

LEMMA TakenGrows ==
  ASSUME NEW T \in Nat
  PROVE  (1..T) \cup {T + 1} = 1..(T + 1) /\ Cardinality(1..(T + 1)) = T + 1
<1>1. (1..T) \cup {T + 1} = 1..(T + 1)
  OBVIOUS
<1>2. Cardinality(1..(T + 1)) = T + 1
  BY FS_Interval
<1> QED BY <1>1, <1>2

(* What the agreement of the two ends rests on.                            *)
LEMMA SyncFacts ==
  ASSUME Base, Numbered, Rooted
  PROVE  /\ Shapes /\ Sound(im.session) /\ Sound(disk.session) /\ Sound(peer.session)
         /\ Cardinality(taken) \in Nat /\ Sent \in Nat /\ Cardinality(taken) <= Sent
         /\ \A f \in out[Im] : f.m \in Message
         /\ \A f \in out[Peer] : f.m \in Message /\ f.m.body \in 1..Sent
         /\ peer.session.init = SESSION_UNINIT => out[Peer] = {} /\ Sent = 0
         /\ NewKey(Im) \in PubKey /\ NewKey(Peer) \in PubKey
<1>1. Shapes /\ Sound(im.session) /\ Sound(disk.session) /\ Sound(peer.session)
  BY DEF Base
<1>2. Cardinality(taken) \in Nat /\ Sent \in Nat /\ Cardinality(taken) <= Sent
  BY <1>1, TakenType, SentType
<1>3. \A d \in Both : \A f \in out[d] : f.m \in Message
  BY BaseMessage
<1>4. peer.session.init = SESSION_UNINIT => out[Peer] = {} /\ Sent = 0
  BY FS_EmptySet DEF Rooted, Sent
<1>5. NewKey(Im) \in PubKey /\ NewKey(Peer) \in PubKey
  BY <1>1, Members, NewKeyType
<1>6. \A f \in out[Peer] : f.m.body \in 1..Sent
  BY DEF Numbered
<1> QED BY <1>1, <1>2, <1>3, <1>4, <1>5, <1>6, Members

LEMMA ReceivesSync ==
  ASSUME Base, Numbered, Rooted, Saved, Sync,
         NEW m \in out[Peer], NEW s1, NEW stop, Receives(m, s1, stop)
  PROVE  Sync'
<1> SUFFICES ASSUME ~forgot'
             PROVE  /\ taken' = 1..Cardinality(taken')
                    /\ Together(disk'.session, peer'.session, Cardinality(taken'), Sent',
                                out'[Im], out'[Peer])
  BY DEF Sync
<1> DEFINE T == Cardinality(taken)
           K == Sent
           mine == out[Im]
           theirs == out[Peer]
           ds == disk.session
           ps == peer.session
           new == NewKey(Im)
<1>1. /\ ~forgot /\ running /\ out' = out /\ peer'.session = ps
      /\ disk'.session = (IF SavedBy(stop) THEN s1 ELSE ds)
      /\ taken' = (IF SavedBy(stop) THEN taken \cup {m.m.body} ELSE taken)
  BY DEF Receives
<1>2. Took(Im, im.session, m.m, new, s1)
  BY DEF Receives
<1>3. /\ im.session = ds
      /\ taken # {} => ds.init # SESSION_UNINIT
      /\ \A e \in theirs : e.m.body \in taken => Past(ds, e.m)
  BY <1>1 DEF Saved
<1>4. taken = 1..T /\ Together(ds, ps, T, K, mine, theirs)
  BY <1>1 DEF Sync
<1>5. Sent' = K
  BY <1>1 DEF Sent
<1>6. /\ Sound(ds) /\ Sound(ps) /\ T \in Nat /\ K \in Nat
      /\ \A f \in mine : f.m \in Message
      /\ \A f \in theirs : f.m \in Message
      /\ ps.init = SESSION_UNINIT => theirs = {}
      /\ new \in PubKey /\ m.m.body \in 1..K
  BY SyncFacts
<1> HIDE DEF T, K, mine, theirs, ds, ps, new
<1>7. m \in theirs /\ m.m \in Message
  BY <1>6 DEF theirs
<1>8. m.m.body \notin taken
  <2>1. ds.init # SESSION_UNINIT => ~Past(ds, m.m)
    BY <1>2, <1>3, <1>6, <1>7, Members, TookPast
  <2> QED BY <1>3, <1>7, <2>1
<1>9. m.m.body > T
  BY <1>4, <1>6, <1>8
<1>10. Took(Im, ds, m.m, new, s1)
  BY <1>2, <1>3
<1>11. m.m.body = T + 1 /\ Together(s1, ps, T + 1, K, mine, theirs)
  BY <1>4, <1>6, <1>7, <1>9, <1>10, TookTogether
<1>12. CASE SavedBy(stop)
  <2>1. taken' = 1..(T + 1) /\ Cardinality(taken') = T + 1
    BY <1>1, <1>4, <1>6, <1>11, <1>12, TakenGrows
  <2> QED BY <1>1, <1>5, <1>11, <1>12, <2>1 DEF mine, theirs
<1>13. CASE ~SavedBy(stop)
  <2>1. taken' = taken /\ Cardinality(taken') = T
    BY <1>1, <1>13 DEF T
  <2> QED BY <1>1, <1>4, <1>5, <1>13, <2>1 DEF mine, theirs
<1> QED BY <1>12, <1>13

LEMMA PeerReceivesSync ==
  ASSUME Base, Numbered, Rooted, Counted, Sync, NEW m \in out[Im], PeerReceives(m)
  PROVE  Sync'
<1> SUFFICES ASSUME ~forgot'
             PROVE  /\ taken' = 1..Cardinality(taken')
                    /\ Together(disk'.session, peer'.session, Cardinality(taken'), Sent',
                                out'[Im], out'[Peer])
  BY DEF Sync
<1> DEFINE T == Cardinality(taken)
           K == Sent
           mine == out[Im]
           theirs == out[Peer]
           ds == disk.session
           ps == peer.session
           p1 == peer'.session
           new == NewKey(Peer)
<1>1. ~forgot /\ out' = out /\ disk' = disk /\ taken' = taken
  BY DEF PeerReceives, ImKept
<1>2. Took(Peer, ps, m.m, new, p1)
  BY DEF PeerReceives
<1>3. taken = 1..T /\ Together(ds, ps, T, K, mine, theirs)
  BY <1>1 DEF Sync
<1>4. Sent' = K
  BY <1>1 DEF Sent
<1>5. /\ Sound(ds) /\ Sound(ps) /\ T \in Nat /\ K \in Nat /\ T <= K
      /\ \A f \in mine : f.m \in Message
      /\ \A f \in theirs : f.m \in Message /\ f.m.body \in 1..K
      /\ ps.init = SESSION_UNINIT => theirs = {} /\ K = 0
      /\ new \in PubKey
  BY SyncFacts
<1>6. SignedKey(Peer) # new /\ ps.state.dhs # new
  <2>1. SignedKey(Peer) \in Settled(Peer)
    BY Members, StoreType, PubSettled DEF SignedKey, Store, PreKey
  <2>2. Known(Peer, SignedKey(Peer), fresh[Peer])
    BY <2>1, SettledNotOf, NotOfKnown
  <2>3. Known(Peer, ps.state.dhs, fresh[Peer])
    BY DEF Counted
  <2>4. \A k : Known(Peer, k, fresh[Peer]) => k # new
    BY Members, NewKeyKnown DEF Base
  <2> QED BY <2>2, <2>3, <2>4
<1> HIDE DEF T, K, mine, theirs, ds, ps, p1, new
<1>7. m \in mine /\ \A f \in theirs : f.m \in Message /\ f.m.body <= K
  BY <1>5 DEF mine
<1>8. Together(ds, p1, T, K, mine, theirs)
  BY <1>2, <1>3, <1>5, <1>6, <1>7, PeerTookTogether
<1> QED BY <1>1, <1>3, <1>4, <1>8 DEF T, mine, theirs, ds, p1

LEMMA PeerSendsSync ==
  ASSUME Base, Numbered, Rooted, Counted, Sync, NEW o, PeerSends(o)
  PROVE  Sync'
<1> SUFFICES ASSUME ~forgot'
             PROVE  /\ taken' = 1..Cardinality(taken')
                    /\ Together(disk'.session, peer'.session, Cardinality(taken'), Sent',
                                out'[Im], out'[Peer])
  BY DEF Sync
<1> DEFINE T == Cardinality(taken)
           K == Sent
           mine == out[Im]
           theirs == out[Peer]
           ds == disk.session
           ps == peer.session
<1>0. Shapes
  BY DEF Base
<1>1. /\ ~forgot /\ disk' = disk /\ taken' = taken
      /\ ps.init # SESSION_UNINIT /\ peer'.session = After(ps)
      /\ o.m = NextMessage(ps, Body(Peer))
  BY DEF PeerSends, ImKept
<1>2. out'[Im] = mine /\ out'[Peer] = theirs \cup {o}
  BY <1>0, Members, Joined DEF PeerSends
<1>3. taken = 1..T /\ Together(ds, ps, T, K, mine, theirs) /\ ps.state.cks.i = ps.state.ns
  BY <1>1 DEF Sync, Counted
<1>4. Sent' = K + 1 /\ Body(Peer) = K + 1
  BY NextNumber DEF Body, Sent
<1>5. Sound(ds) /\ Sound(ps) /\ T \in Nat /\ K \in Nat
  BY SyncFacts
<1> HIDE DEF T, K, mine, theirs, ds, ps
<1>6. Together(ds, After(ps), T, K + 1, mine, theirs \cup {o})
  BY <1>1, <1>3, <1>4, <1>5, PeerSentTogether
<1> QED BY <1>1, <1>2, <1>3, <1>4, <1>6 DEF T, ds

LEMMA SendsSync ==
  ASSUME Base, Saved, Sync, NEW o, NEW stop, Sends(o, stop)
  PROVE  Sync'
<1> SUFFICES ASSUME ~forgot'
             PROVE  /\ taken' = 1..Cardinality(taken')
                    /\ Together(disk'.session, peer'.session, Cardinality(taken'), Sent',
                                out'[Im], out'[Peer])
  BY DEF Sync
<1> DEFINE T == Cardinality(taken)
           K == Sent
           mine == out[Im]
           theirs == out[Peer]
           ds == disk.session
           ps == peer.session
<1>0. Shapes /\ Sound(ds)
  BY DEF Base
<1>1. /\ ~forgot /\ taken' = taken /\ peer'.session = ps /\ running
      /\ o.m = NextMessage(im.session, Body(Im))
      /\ im.session.init # SESSION_UNINIT /\ disk'.session = After(im.session)
  BY DEF Sends
<1>2. im.session = ds
  BY <1>1 DEF Saved
<1>3. (out'[Im] = mine \/ out'[Im] = mine \cup {o}) /\ out'[Peer] = theirs
  <2>1. CASE out' = out
    BY <2>1
  <2>2. CASE out' = [out EXCEPT ![Im] = @ \cup {o}]
    BY <1>0, <2>2, Members, Joined
  <2> QED BY <2>1, <2>2 DEF Sends
<1>4. taken = 1..T /\ Together(ds, ps, T, K, mine, theirs)
  BY <1>1 DEF Sync
<1>5. Sent' = K
  BY <1>3 DEF Sent
<1> HIDE DEF T, K, mine, theirs, ds, ps
<1>6. Together(After(ds), ps, T, K, out'[Im], theirs)
  BY <1>0, <1>1, <1>2, <1>3, <1>4, SentTogether
<1> QED BY <1>1, <1>2, <1>3, <1>4, <1>5, <1>6 DEF T

LEMMA StepKeepsSync ==
  ASSUME Base, Effect, Numbered, Rooted, Saved, Counted, Sync PROVE Sync'
<1>1. ASSUME ~forgot' => ~forgot /\ disk'.session = disk.session, peer'.session = peer.session,
             out' = out, taken' = taken
      PROVE  Sync'
  BY <1>1 DEF Sync, Sent
<1>2. CASE Idle \/ Closes \/ Stops \/ Starts
  BY <1>1, <1>2 DEF Idle, Closes, Stops, Starts, RestKept
<1>3. CASE Saves
  BY <1>1, <1>3 DEF Saves, Saved
<1>4. CASE SetsUp
  <2>1. CASE forgot'
    BY <2>1 DEF Sync
  <2>2. CASE ~forgot'
    <3>1. /\ ~forgot /\ im.session.init = SESSION_UNINIT /\ out' = out /\ taken' = taken
          /\ peer'.session = peer.session /\ disk'.session = im'.session
          /\ SetUp(Im, NewKey(Im), im'.session) /\ im.session = disk.session
      BY <1>4, <2>2 DEF SetsUp, Saved
    <3>2. Together(im'.session, peer.session, Cardinality(taken), Sent, out[Im], out[Peer])
      BY <3>1, SetUpTogether DEF Sync
    <3>3. Sent' = Sent
      BY <3>1 DEF Sent
    <3> QED BY <3>1, <3>2, <3>3 DEF Sync
  <2> QED BY <2>1, <2>2
<1>5. CASE PeerSetsUp
  <2>1. CASE peer'.session = peer.session
    BY <1>1, <1>5, <2>1 DEF PeerSetsUp, ImKept
  <2>2. CASE SetUp(Peer, NewKey(Peer), peer'.session)
    <3>1. /\ peer.session.init = SESSION_UNINIT /\ out' = out /\ disk' = disk
          /\ taken' = taken /\ forgot' = forgot
      BY <1>5 DEF PeerSetsUp, ImKept
    <3>2. out[Peer] = {} /\ Sent = 0 /\ Sent' = Sent
      BY <3>1, SyncFacts DEF Sent
    <3>3. ASSUME ~forgot
          PROVE  Together(disk.session, peer'.session, Cardinality(taken), 0, out[Im], {})
      BY <2>2, <3>1, <3>2, <3>3, PeerSetUpTogether DEF Sync
    <3> QED BY <3>1, <3>2, <3>3 DEF Sync
  <2> QED BY <1>5, <2>1, <2>2 DEF PeerSetsUp
<1> QED BY <1>2, <1>3, <1>4, <1>5, ReceivesSync, SendsSync, PeerSendsSync, PeerReceivesSync
        DEF Effect

(* The message after those that were taken is the next one.                *)
LEMMA TogetherNext ==
  ASSUME NEW ds, Sound(ds), ds.init # SESSION_UNINIT, NEW ps, Sound(ps), NEW T \in Nat, NEW K,
         NEW mine, NEW theirs, ps.init = SESSION_UNINIT => theirs = {},
         {ds.init, ps.init} # {SESSION_INIT}, Together(ds, ps, T, K, mine, theirs),
         NEW e \in theirs, e.m.body = T + 1
  PROVE  /\ IsNext(ds.state, e.m)
         /\ ds.init = SESSION_INIT => ~e.m.isprekey
<1> DEFINE t == ds.state
           p == ps.state
<1>1. /\ t \in State /\ p \in State /\ ps.init # SESSION_UNINIT /\ p.cks.root = p.rk
  BY SoundState
<1>2. t.nr \in Nat /\ p.pn \in Nat /\ t.ckr = [root |-> t.ckr.root, i |-> t.ckr.i]
  BY <1>1 DEF State, ChainKey
<1>3. PlaceOf(t, T, e.m) = t.nr /\ e.m.body > T
  BY <1>2 DEF PlaceOf
<1> HIDE DEF t, p
<1>4. ASSUME Level(t, p, T, K, mine, theirs) PROVE IsNext(t, e.m)
  <2>1. FromChain(e.m, p, t.nr)
    BY <1>3, <1>4 DEF Level
  <2>2. t.ckr.root = p.cks.root /\ t.ckr.i = t.nr /\ t.dhr = p.dhs
    BY <1>4 DEF Level
  <2> QED BY <1>2, <2>1, <2>2 DEF FromChain, IsNext
<1>5. ASSUME Ahead(t, p, T, K, mine, theirs) PROVE IsNext(t, e.m)
  <2>1. /\ t.nr < p.pn => /\ e.m.n = t.nr /\ e.m.dh = t.dhr
                          /\ e.m.mk = [root |-> t.ckr.root, i |-> t.nr]
        /\ t.nr >= p.pn => FromChain(e.m, p, t.nr - p.pn)
    BY <1>3, <1>5 DEF Ahead
  <2>2. /\ t.ckr.i = t.nr /\ t.nr <= p.pn /\ t.dhr # p.dhs
        /\ p.rk = DeriveRootKey(t.rk, p.dhs, t.dhs)
    BY <1>5 DEF Ahead
  <2>3. CASE t.nr < p.pn
    BY <1>2, <2>1, <2>2, <2>3 DEF IsNext
  <2>4. CASE ~(t.nr < p.pn)
    <3>1. t.nr = p.pn /\ t.nr - p.pn = 0 /\ t.nr >= p.pn
      BY <1>2, <2>2, <2>4
    <3>2. FromChain(e.m, p, 0)
      BY <2>1, <3>1
    <3>3. e.m.dh = p.dhs /\ e.m.n = 0 /\ e.m.pn = t.nr /\ e.m.mk = [root |-> p.rk, i |-> 0]
      BY <1>1, <3>1, <3>2 DEF FromChain
    <3>4. p.rk = DeriveRootKey(t.rk, t.dhs, e.m.dh)
      BY <2>2, <3>3, DHSymmetric DEF DeriveRootKey
    <3> QED BY <1>2, <2>2, <3>3, <3>4 DEF IsNext, FirstChain
  <2> QED BY <2>3, <2>4
<1>6. CASE Offers(ds, ps, T, K, mine, theirs)
  <2>1. Ahead(t, p, T, K, mine, theirs) /\ ~e.m.isprekey
    BY <1>1, <1>6 DEF Offers, t, p
  <2> QED BY <1>5, <2>1 DEF t
<1>7. CASE Talks(ds, ps, T, K, mine, theirs)
  <2>1. IsNext(t, e.m)
    BY <1>4, <1>5, <1>7 DEF Talks, t, p
  <2>2. ds.init # SESSION_INIT
    BY <1>7, InitValues DEF Talks
  <2> QED BY <2>1, <2>2 DEF t
<1>8. ~Awaits(ds, ps, T, K, mine, theirs)
  BY DEF Awaits
<1> QED BY <1>6, <1>7, <1>8 DEF Together

LEMMA OpensNext ==
  ASSUME Base, Numbered, Rooted, Saved, Named, Sync PROVE NextOpens
<1> SUFFICES ASSUME NEW m \in out[Peer], running, ~forgot, im.session.init # SESSION_UNINIT,
                    {im.session.init, peer.session.init} # {SESSION_INIT},
                    \A e \in Behind(m) : e.m.body \in taken, m.m.body \notin taken
             PROVE  Decrypt(m, "none").ret = 0
  BY DEF NextOpens
<1> DEFINE T == Cardinality(taken)
           s == im.session
<1>1. /\ T \in Nat /\ Sent \in Nat /\ Sound(s) /\ Sound(peer.session)
      /\ m.m \in Message /\ m.m.body \in 1..Sent
      /\ peer.session.init = SESSION_UNINIT => out[Peer] = {}
      /\ NewKey(Im) \in PubKey
  BY SyncFacts
<1>2. /\ s = disk.session /\ taken = 1..T
      /\ Together(s, peer.session, T, Sent, out[Im], out[Peer])
  BY DEF Sync, Saved
<1> HIDE DEF T, s
<1>3. m.m.body = T + 1
  <2>1. m.m.body > T
    BY <1>1, <1>2
  <2>2. ASSUME m.m.body # T + 1 PROVE FALSE
    <3>1. T + 1 \in 1..Sent /\ T + 1 < m.m.body /\ T + 1 \notin taken
      BY <1>1, <1>2, <2>1, <2>2
    <3>2. PICK e \in out[Peer] : e.m.body = T + 1
      BY <3>1 DEF Numbered
    <3>3. e \in Behind(m)
      BY <3>1, <3>2 DEF Behind
    <3> QED BY <3>1, <3>2, <3>3
  <2> QED BY <2>2
<1>4. s.init # SESSION_UNINIT /\ {s.init, peer.session.init} # {SESSION_INIT}
  BY DEF s
<1>5. /\ IsNext(s.state, m.m)
      /\ s.init = SESSION_INIT => ~m.m.isprekey
  BY <1>1, <1>2, <1>3, <1>4, TogetherNext
<1>6. s.identity = Identity(Im) /\ m.m.ad = <<s.remoteidentity, s.identity>>
  BY <1>4, Members DEF Named, Met, s
<1>7. s \in Session
  BY <1>1 DEF Sound
<1>8. omemoDecryptKey(Im, s, store, {}, m.m, NewKey(Im), "none").ret = 0
  BY <1>1, <1>4, <1>5, <1>6, <1>7, NextIsOpened
<1>9. disk.mkskipped = {}
  BY DEF Base
<1> QED BY <1>8, <1>9 DEF Decrypt, s

----------------------------------------------------------------------------
(* The invariant, and what follows from it.                                *)

Inv ==
  /\ Base /\ OfPeer /\ OfIm /\ Numbered /\ Saved /\ Rooted
  /\ Named /\ Counted /\ Sync

LEMMA InitInv == ASSUME Init PROVE Inv
<1>1. Base
  BY InitBase
<1>2. out[Im] = {} /\ out[Peer] = {} /\ taken = {} /\ shown = {}
  BY DEF Init
<1>3. im.session = ZeroSession /\ disk.session = ZeroSession /\ peer.session = ZeroSession
  BY DEF Init, Started
<1>4. OfPeer
  BY <1>2, <1>3, ZeroNotOf DEF OfPeer, ZeroSession, ZeroState
<1>5. OfIm
  <2>1. Own(ZeroSession, fresh[Im], {})
    BY ZeroOwn
  <2> QED BY <1>2, <1>3, <2>1 DEF OfIm
<1>6. Numbered
  <2>1. Sent = 0
    BY <1>2, FS_EmptySet DEF Sent
  <2> QED BY <1>2, <2>1 DEF Numbered
<1>7. Saved
  BY <1>2, <1>3 DEF Saved
<1>8. Rooted
  BY <1>2 DEF Rooted
<1>9. Named
  BY <1>2, <1>3, ZeroMet DEF Named, Both
<1>10. Counted
  <2>1. Known(Peer, Zero, fresh[Peer])
    BY ZeroNotOf, NotOfKnown
  <2> QED BY <1>3, <2>1 DEF Counted, ZeroSession, ZeroState, ZeroChain
<1>11. Sync
  <2>1. Cardinality(taken) = 0 /\ taken = 1..0
    BY <1>2, FS_EmptySet
  <2>2. Awaits(ZeroSession, ZeroSession, 0, Sent, {}, {})
    BY DEF Awaits, ZeroSession
  <2> QED BY <1>2, <1>3, <2>1, <2>2 DEF Sync, Together
<1> QED BY <1>1, <1>4, <1>5, <1>6, <1>7, <1>8, <1>9, <1>10, <1>11 DEF Inv

LEMMA StepInv == ASSUME Inv, AsInIm, [Next]_vars PROVE Inv'
<1>1. Base' /\ Effect
  BY StepKeepsBase DEF Inv
<1> QED BY <1>1, StepKeepsOfPeer, StepKeepsOfIm, StepKeepsNumbered, StepKeepsSaved,
           StepKeepsRooted, StepKeepsNamed, StepKeepsCounted, StepKeepsSync DEF Inv

(* What the client keeps across stops and restarts: sessions stay sound,   *)
(* keys are never older than the next, and the session that is saved is    *)
(* ahead of what was taken from the peer and agrees with the peer's.       *)
THEOREM ImStateInv == ASSUME AsInIm PROVE Spec => []Inv
<1>1. Init => Inv
  BY InitInv
<1>2. Inv /\ [Next]_vars => Inv'
  BY StepInv
<1> QED BY <1>1, <1>2, PTL DEF Spec

(* No two messages the client sent are encrypted under one key, wherever   *)
(* the program was stopped and whatever it loaded when it was started: the *)
(* session is saved before its message is handed to the stream.            *)
THEOREM ImKeysNeverReused == ASSUME AsInIm PROVE Spec => []KeysNeverReused
<1>1. Init => KeysNeverReused
  BY DEF Init, KeysNeverReused
<1>2. Inv /\ KeysNeverReused /\ [Next]_vars => KeysNeverReused'
  BY StepKeepsBase, StepKeepsOfIm DEF Inv
<1> QED BY <1>1, <1>2, ImStateInv, PTL DEF Spec

(* No message of the peer is printed twice in the life of a session,       *)
(* however often the server hands it over and wherever the program was     *)
(* stopped in its handler.                                                 *)
THEOREM ImShownOnce == ASSUME AsInIm PROVE Spec => []ShownOnce
<1>1. Init => ShownOnce
  BY DEF Init, ShownOnce
<1>2. Inv /\ ShownOnce /\ [Next]_vars => ShownOnce'
  BY StepKeepsBase, StepKeepsSaved DEF Inv
<1> QED BY <1>1, <1>2, ImStateInv, PTL DEF Spec

(* Two sessions that crossed never come together: nothing the peer sent    *)
(* opens in the client's session.                                          *)
THEOREM ImCrossedIsDeaf == ASSUME AsInIm PROVE Spec => []CrossedIsDeaf
<1>1. Inv => CrossedIsDeaf
  BY DeafWhenCrossed DEF Inv
<1> QED BY <1>1, ImStateInv, PTL

(* As long as the session is not given up, the next message of the peer    *)
(* opens in the client's session, wherever the program was stopped, also   *)
(* between the two transactions in which a message is saved.               *)
THEOREM ImNextOpens == ASSUME AsInIm PROVE Spec => []NextOpens
<1>1. Inv => NextOpens
  BY OpensNext DEF Inv
<1> QED BY <1>1, ImStateInv, PTL
=============================================================================
