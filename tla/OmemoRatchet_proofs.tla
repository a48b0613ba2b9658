------------------------- MODULE OmemoRatchet_proofs -------------------------
(***************************************************************************)
(* Proofs about two devices that talk: for any length of a conversation,   *)
(* any number of prekeys, any capacity of the store of skipped keys and    *)
(* any messages the network loses, delays, reorders, repeats or damages.   *)
(*                                                                         *)
(* They are about programs that undo, on a failed decryption, what the     *)
(* callbacks did to the skipped keys (Rollback), as omemo.h asks for.      *)
(***************************************************************************)
EXTENDS OmemoRatchet, OmemoSession_proofs

----------------------------------------------------------------------------
(* The two devices.                                                        *)
LEMMA TwoDevices ==
  \A d \in Device :
    /\ Peer(d) \in Device /\ Peer(d) # d /\ Peer(Peer(d)) = d
    /\ \A e \in Device : e = d \/ e = Peer(d)
<1> SUFFICES ASSUME NEW d \in Device
             PROVE  /\ Peer(d) \in Device /\ Peer(d) # d /\ Peer(Peer(d)) = d
                    /\ \A e \in Device : e = d \/ e = Peer(d)
  OBVIOUS
<1>1. PICK p : Device \ {d} = {p}
  <2>1. IsFiniteSet(Device \ {d}) /\ Cardinality(Device \ {d}) = 1
    BY RatchetAssumption, FS_RemoveElement
  <2> QED BY <2>1, FS_Singleton
<1>2. p \in Device /\ p # d /\ \A e \in Device : e = d \/ e = p
  BY <1>1
<1>3. Peer(d) = p
  BY <1>2 DEF Peer
<1>4. Peer(p) = d
  BY <1>2 DEF Peer
<1> QED BY <1>2, <1>3, <1>4

LEMMA SomeDevice == \E d \in Device : TRUE
<1>1. Device # {}
  BY RatchetAssumption, FS_EmptySet
<1> QED BY <1>1

----------------------------------------------------------------------------
(* Types.                                                                  *)

(* A device keeps the identity it set its store up with.                   *)
OwnKey(d) == <<d, "ik", 1, 1>>

Entry == [m : Message, hb : BOOLEAN]

Types ==
  /\ session \in [Device -> Session] /\ skipped \in [Device -> SUBSET SkippedKeys]
  /\ fresh \in [Device -> Nat] /\ sent \in [Device -> SUBSET Entry]
  /\ accepted \in [Device -> SUBSET Nat] /\ replayed \in [Device -> SUBSET Nat]
  /\ \A d \in Device : /\ IsFiniteSet(skipped[d]) /\ IsFiniteSet(sent[d])
                       /\ IsFiniteSet(accepted[d]) /\ replayed[d] \subseteq accepted[d]

Announces(d, b) ==
  /\ b.signed /\ b.ik = OwnKey(d)
  /\ b.spk = Zero \/ b.spk \in {d} \X {"spk"} \X Nat \X Nat

Stores ==
  /\ store \in [Device -> Store] /\ offered \in [Device -> SUBSET AnyBundle]
  /\ \A d \in Device : /\ GoodStore(store[d]) /\ store[d].init
                       /\ store[d].identity = [seq |-> 1, boot |-> 1]
                       /\ \A b \in offered[d] : Announces(d, b)

TypeInv == Types /\ Stores

LEMMA OwnKeyIs ==
  ASSUME NEW d \in Device, NEW st, st.identity = [seq |-> 1, boot |-> 1]
  PROVE  Pub(d, "ik", st.identity) = OwnKey(d)
  BY DEF Pub, OwnKey, NoKey

(* With enough randomness the store is set up whole.                       *)
LEMMA NewStoreGood ==
  /\ GoodStore(NewStore) /\ NewStore.init
  /\ NewStore.identity = [seq |-> 1, boot |-> 1]
<1> DEFINE rnd == NumPreKeys + 3
<1>1. rnd \in Nat /\ rnd >= 3 /\ 1 \in Nat /\ rnd - 3 = NumPreKeys
  BY StoreAssumption
<1>2. GoodStore(NewStore)
  BY <1>1, GoodSetup DEF NewStore
<1>3. NewStore # ZeroStore
  <2> DEFINE spk == [id |-> 1, kp |-> [seq |-> 1, boot |-> 1]]
             st == [ZeroStore EXCEPT !.identity = [seq |-> 1, boot |-> 1],
                                     !.cursignedprekey = spk]
             refill == omemoRefillPreKeys(st, 1, rnd - 3)
  <2>1. st \in Store /\ st.identity = [seq |-> 1, boot |-> 1]
    <3>1. [seq |-> 1, boot |-> 1] \in Key /\ spk \in PreKey
      BY StoreAssumption DEF Key, PreKey
    <3> HIDE DEF spk
    <3> QED BY <3>1, ZeroStoreType DEF Store
  <2>2. omemoSetupStoreImpl(1, rnd)
          = IF refill.ret # 0 THEN refill
            ELSE [ret |-> 0, store |-> [refill.store EXCEPT !.init = TRUE]]
    BY <1>1 DEF omemoSetupStoreImpl, GenerateSignedPreKey
  <2> HIDE DEF st
  <2>3. refill.ret = 0
    <3>1. \A i \in EmptySlots(st.prekeys) : Rank(EmptySlots(st.prekeys), i) <= rnd - 3
      <4>1. EmptySlots(st.prekeys) \subseteq Slot
        BY DEF EmptySlots
      <4>2. TAKE i \in EmptySlots(st.prekeys)
      <4>3. i \in Slot /\ EmptySlots(st.prekeys) \in SUBSET Slot
        BY <4>1
      <4>4. Rank(EmptySlots(st.prekeys), i) \in 0..NumPreKeys
        BY <4>3, RankBounds
      <4> QED BY <1>1, <4>4, StoreAssumption
    <3>2. {i \in EmptySlots(st.prekeys) : Rank(EmptySlots(st.prekeys), i) <= rnd - 3}
            = EmptySlots(st.prekeys)
      BY <3>1
    <3> HIDE DEF rnd
    <3> QED BY <3>2 DEF omemoRefillPreKeys
  <2>4. refill.store \in Store /\ refill.store.identity = st.identity
    <3>1. rnd - 3 \in Int /\ rnd - 3 \in Nat
      BY <1>1, StoreAssumption
    <3> HIDE DEF rnd
    <3> QED BY <1>1, <2>1, <3>1, RefillType, RefillKeeps
  <2> HIDE DEF refill
  <2>5. NewStore.identity = [seq |-> 1, boot |-> 1]
    <3> DEFINE setup == omemoSetupStoreImpl(1, rnd)
               whole == [refill.store EXCEPT !.init = TRUE]
    <3>1. setup = [ret |-> 0, store |-> whole]
      BY <2>2, <2>3
    <3>2. omemoSetupStore(1, rnd) = IF setup.ret = 0 THEN setup
                                    ELSE [ret |-> setup.ret, store |-> ZeroStore]
      BY DEF omemoSetupStore
    <3> HIDE DEF setup, whole
    <3>3. NewStore = whole
      BY <3>1, <3>2 DEF NewStore
    <3>4. NewStore = [refill.store EXCEPT !.init = TRUE]
      BY <3>3 DEF whole
    <3> QED BY <2>1, <2>4, <3>4 DEF Store
  <2>6. ZeroStore.identity = NoKey
    BY DEF ZeroStore
  <2> QED BY <2>5, <2>6 DEF NoKey
<1>4. NewStore.identity = [seq |-> 1, boot |-> 1]
  BY <1>1, <1>3, SetupSigned DEF NewStore
<1>5. NewStore.init
  BY <1>2, <1>3 DEF GoodStore, Whole
<1> QED BY <1>2, <1>4, <1>5

LEMMA BundlesType ==
  ASSUME NEW d \in Device, NEW st, GoodStore(st), st.identity = [seq |-> 1, boot |-> 1]
  PROVE  /\ Bundles(d, st) \subseteq AnyBundle
         /\ \A b \in Bundles(d, st) : Announces(d, b)
<1>1. st \in Store
  BY DEF GoodStore
<1>2. /\ st.cursignedprekey \in PreKey
      /\ \A i \in Slot : st.prekeys[i] \in PreKey
  BY <1>1 DEF Store
<1>3. Pub(d, "ik", st.identity) = OwnKey(d) /\ OwnKey(d) \in PubKey
  BY OwnKeyIs DEF OwnKey, PubKey
<1> DEFINE spk == Pub(d, "spk", st.cursignedprekey.kp)
<1>4. spk \in PubKey /\ (spk = Zero \/ spk \in {d} \X {"spk"} \X Nat \X Nat)
  BY <1>2 DEF Pub, PubKey, PreKey, Key
<1>5. \A i \in Slot : Pub(d, "pk", st.prekeys[i].kp) \in PubKey
  BY <1>2, PubType DEF PreKey, KeyKind
<1> HIDE DEF spk
<1> SUFFICES ASSUME NEW b \in Bundles(d, st) PROVE b \in AnyBundle /\ Announces(d, b)
  OBVIOUS
<1>6. PICK i \in Slot :
        b = [signed |-> TRUE, ik |-> OwnKey(d), spk |-> spk,
             spk_id |-> st.cursignedprekey.id,
             pk |-> Pub(d, "pk", st.prekeys[i].kp), pk_id |-> st.prekeys[i].id]
  BY <1>3 DEF Bundles, spk
<1> QED BY <1>2, <1>3, <1>4, <1>5, <1>6 DEF AnyBundle, Announces, PreKey

LEMMA InitTypes == Init => TypeInv
<1> SUFFICES ASSUME Init PROVE TypeInv
  OBVIOUS
<1>1. Types
  BY ZeroSessionType, FS_EmptySet DEF Init, Types
<1>2. Stores
  BY NewStoreGood, BundlesType DEF Init, Stores, GoodStore
<1> QED BY <1>1, <1>2 DEF TypeInv

(* The calls that keep the store keep it good, and its identity.           *)
LEMMA StoresKept == TypeInv /\ [Next]_vars => Stores'
<1> SUFFICES ASSUME TypeInv, [Next]_vars PROVE Stores'
  OBVIOUS
<1>1. Stores
  BY DEF TypeInv
<1>2. ASSUME NEW d \in Device, NEW new, store' = [store EXCEPT ![d] = new],
             offered' = offered, GoodStore(new), new.init,
             new.identity = store[d].identity
      PROVE  Stores'
  BY <1>1, <1>2 DEF Stores, GoodStore
<1>3. ASSUME UNCHANGED <<store, offered>> PROVE Stores'
  BY <1>1, <1>3 DEF Stores
<1>4. ASSUME NEW d \in Device, RemovePreKey(d) PROVE Stores'
  <2>1. PICK i \in Slot : /\ store' = [store EXCEPT ![d].prekeys[i] = NoPreKey]
                          /\ offered' = offered
    BY <1>4 DEF RemovePreKey
  <2> DEFINE new == [store[d] EXCEPT !.prekeys[i] = NoPreKey]
  <2>2. GoodStore(store[d]) /\ store[d].init /\ store[d] \in Store
    BY <1>1 DEF Stores, GoodStore
  <2>3. GoodStore(new)
    BY <2>2, GoodRemove
  <2>4. new.init = store[d].init /\ new.identity = store[d].identity
    BY <2>2 DEF Store
  <2>5. store' = [store EXCEPT ![d] = new]
    BY <2>1
  <2> HIDE DEF new
  <2> QED BY <1>2, <2>1, <2>2, <2>3, <2>4, <2>5
<1>5. ASSUME NEW d \in Device, RefillPreKeys(d) PROVE Stores'
  <2> DEFINE new == omemoRefillPreKeys(store[d], 1, NumPreKeys).store
  <2>1. store' = [store EXCEPT ![d] = new] /\ offered' = offered
    BY <1>5 DEF RefillPreKeys
  <2>2. GoodStore(store[d]) /\ store[d].init /\ store[d] \in Store
    BY <1>1 DEF Stores, GoodStore
  <2>3. NumPreKeys \in Nat /\ NumPreKeys \in Int /\ 1 \in Nat
    BY StoreAssumption
  <2>4. GoodStore(new)
    BY <2>2, <2>3, GoodRefill
  <2>5. new.init = store[d].init /\ new.identity = store[d].identity
    BY <2>2, <2>3, RefillKeeps
  <2> HIDE DEF new
  <2> QED BY <1>2, <2>1, <2>2, <2>4, <2>5
<1>6. ASSUME NEW d \in Device, RotateSignedPreKey(d) PROVE Stores'
  <2> DEFINE new == omemoRotateSignedPreKey(store[d], 1, 2).store
  <2>1. store' = [store EXCEPT ![d] = new] /\ offered' = offered
    BY <1>6 DEF RotateSignedPreKey
  <2>2. GoodStore(store[d]) /\ store[d].init /\ store[d] \in Store
    BY <1>1 DEF Stores, GoodStore
  <2>3. GoodStore(new)
    BY <2>2, GoodRotate
  <2>4. new.init = store[d].init /\ new.identity = store[d].identity
    <3>1. 1 \in Nat /\ 2 \in Nat
      OBVIOUS
    <3> QED BY <2>2, <3>1, RotateOutcome
  <2> HIDE DEF new
  <2> QED BY <1>2, <2>1, <2>2, <2>3, <2>4
<1>7. ASSUME NEW d \in Device, Announce(d) PROVE Stores'
  <2>1. /\ offered' = [offered EXCEPT ![d] = @ \cup Bundles(d, store[d])]
        /\ store' = store
    BY <1>7 DEF Announce
  <2>2. /\ Bundles(d, store[d]) \subseteq AnyBundle
        /\ \A b \in Bundles(d, store[d]) : Announces(d, b)
    BY <1>1, BundlesType DEF Stores
  <2> QED BY <1>1, <2>1, <2>2 DEF Stores
<1>8. ASSUME NEW d \in Device,
             InitiateSession(d) \/ EncryptKey(d) \/ Heartbeat(d) \/ DecryptKey(d)
      PROVE  Stores'
  <2>1. UNCHANGED <<store, offered>>
    BY <1>8 DEF InitiateSession, Initiated, EncryptKey, Heartbeat, Emit, DecryptKey,
                DecryptMessage, Received
  <2> QED BY <1>3, <2>1
<1>9. CASE UNCHANGED vars
  BY <1>3, <1>9 DEF vars
<1> QED BY <1>4, <1>5, <1>6, <1>7, <1>8, <1>9 DEF Next

----------------------------------------------------------------------------
(* What a step does to the conversation.                                   *)

Started(d) == session[d].init # SESSION_UNINIT

T(d) == session[d].state

(* A device without a session has sent and received nothing.               *)
Unstarted(d) ==
  ~Started(d) => /\ session[d] = ZeroSession /\ skipped[d] = {}
                 /\ sent[d] = {} /\ accepted[d] = {}

Updates(d) ==
  /\ session' = [session EXCEPT ![d] = session'[d]]
  /\ skipped' = [skipped EXCEPT ![d] = skipped'[d]]
  /\ fresh' = [fresh EXCEPT ![d] = fresh'[d]]
  /\ sent' = [sent EXCEPT ![d] = sent'[d]]
  /\ accepted' = [accepted EXCEPT ![d] = accepted'[d]]
  /\ replayed' = [replayed EXCEPT ![d] = replayed'[d]]

(* A call that fails, or that is about the store, can at most use up a     *)
(* name for a key pair.                                                    *)
Silent(d) ==
  /\ UNCHANGED <<session, skipped, sent, accepted, replayed>>
  /\ fresh'[d] \in {fresh[d], fresh[d] + 1}

Settled(d) ==
  /\ session[d].init = SESSION_HEARTBEAT /\ T(d).nr < HeartbeatAt
  /\ session'[d] = WithState(session[d], SESSION_READY, T(d))
  /\ UNCHANGED <<skipped, fresh, sent, accepted, replayed>>

FirstState(eka, b, rk) ==
  [dhs |-> eka, dhr |-> b.spk, rk |-> rk, cks |-> [root |-> rk, i |-> 0],
   ckr |-> [root |-> Zero, i |-> 0], ns |-> 0, nr |-> 0, pn |-> 0]

FirstRoot(d, b, eka) == DeriveRootKey(BundleSecret(OwnKey(d), b, eka), eka, b.spk)

FirstSession(d, b, eka) ==
  [init |-> SESSION_INIT, identity |-> OwnKey(d), remoteidentity |-> b.ik,
   state |-> FirstState(eka, b, FirstRoot(d, b, eka)),
   usedek |-> eka, usedpk_id |-> b.pk_id, usedspk_id |-> b.spk_id]

Begun(d) ==
  /\ ~Started(d)
  /\ \E b \in offered[Peer(d)] : /\ Zero \notin {b.spk, b.pk}
                                 /\ session'[d] = FirstSession(d, b, NewKey(d))
  /\ fresh'[d] = fresh[d] + 1
  /\ UNCHANGED <<skipped, sent, accepted, replayed>>

Spoke(d, hb) ==
  /\ Started(d) /\ Body(d) <= MaxSend
  /\ hb => session[d].init = SESSION_READY /\ T(d).nr >= HeartbeatAt
  /\ sent'[d] = sent[d] \cup {[m |-> NextMessage(session[d], Body(d)), hb |-> hb]}
  /\ session'[d] = WithState(session[d],
                             IF hb THEN SESSION_HEARTBEAT ELSE session[d].init,
                             StateAfterSend(T(d)))
  /\ UNCHANGED <<skipped, fresh, accepted, replayed>>

Heard(d, m) ==
  /\ Received0(d, session[d], store[d], skipped[d], m, NewKey(d), session'[d], skipped'[d])
  /\ fresh'[d] = IF T(d)'.dhs = NewKey(d) THEN fresh[d] + 1 ELSE fresh[d]
  /\ accepted'[d] = accepted[d] \cup {m.body}
  /\ replayed'[d] = IF m.body \in accepted[d] THEN replayed[d] \cup {m.body} ELSE replayed[d]
  /\ UNCHANGED sent

Acts(d) ==
  /\ Updates(d)
  /\ \/ Silent(d) \/ Settled(d) \/ Begun(d)
     \/ \E hb \in BOOLEAN : Spoke(d, hb)
     \/ \E m \in Genuine(d) : Heard(d, m)

LEMMA PassedKeysFinite ==
  ASSUME NEW t \in State, NEW n \in Nat
  PROVE  /\ IsFiniteSet(PassedKeys(t, n)) /\ PassedKeys(t, n) \subseteq SkippedKeys
         /\ Cardinality(PassedKeys(t, n)) <= GetAmountSkipped(t.nr, n)
<1> DEFINE P == PassedKeys(t, n)
           Q == t.nr .. n - 1
<1>1. /\ IsFiniteSet(Q) /\ Cardinality(Q) <= n
      /\ t.nr <= n => Cardinality(Q) = n - t.nr
      /\ t.nr >= n => Cardinality(Q) = 0
  <2>1. t.nr \in Int /\ n - 1 \in Int /\ t.nr >= 0
    BY DEF State
  <2>2. /\ IsFiniteSet(Q)
        /\ Cardinality(Q) = IF t.nr > n - 1 THEN 0 ELSE (n - 1) - t.nr + 1
    BY <2>1, FS_Interval
  <2> HIDE DEF Q
  <2> QED BY <2>1, <2>2
<1>2. \A k \in P : k.nr \in Q /\ k = [dh |-> t.dhr, nr |-> k.nr, mk |-> KeyAt(t, k.nr)]
  <2>1. CASE Callbacks = "none"
    BY <2>1 DEF PassedKeys
  <2>2. CASE Callbacks # "none"
    <3>1. SUFFICES ASSUME NEW k \in P
                   PROVE  k.nr \in Q /\ k = [dh |-> t.dhr, nr |-> k.nr, mk |-> KeyAt(t, k.nr)]
      OBVIOUS
    <3>2. PICK j \in Q : k = [dh |-> t.dhr, nr |-> j, mk |-> KeyAt(t, j)]
      BY <2>2 DEF PassedKeys
    <3> QED BY <3>2
  <2> QED BY <2>1, <2>2
<1>3. \A k1, k2 \in P : k1.nr = k2.nr => k1 = k2
  BY <1>2
<1> HIDE DEF P, Q
<1>4. [k \in P |-> k.nr] \in Injection(P, Q)
  BY <1>2, <1>3 DEF Injection, IsInjective
<1>5. IsFiniteSet(P) /\ Cardinality(P) <= Cardinality(Q)
  <2>1. IsFiniteSet(Q)
    BY <1>1
  <2> QED BY <2>1, <1>4, FS_Injection
<1>6. Cardinality(P) \in Nat /\ Cardinality(Q) \in Nat
  <2>1. IsFiniteSet(P)
    BY <1>5
  <2>2. IsFiniteSet(Q)
    BY <1>1
  <2> QED BY <2>1, <2>2, FS_CardinalityType
<1>7. P \subseteq SkippedKeys
  BY PassedKeysType DEF P
<1>8. t.nr \in Nat
  BY DEF State
<1>9. /\ IsFiniteSet(P) /\ P \subseteq SkippedKeys
      /\ Cardinality(P) <= GetAmountSkipped(t.nr, n)
  <2>1. CASE t.nr <= n
    BY <2>1, <1>1, <1>5, <1>6, <1>7, <1>8 DEF GetAmountSkipped
  <2>2. CASE t.nr > n
    BY <2>2, <1>1, <1>5, <1>6, <1>7, <1>8 DEF GetAmountSkipped
  <2> QED BY <1>8, <2>1, <2>2
<1> QED BY <1>9 DEF P

(* Whatever opens a message has a key for it, and leaves a session.        *)
LEMMA FollowsType ==
  ASSUME NEW t \in State, NEW skp \in SUBSET SkippedKeys, IsFiniteSet(skp),
         NEW m \in Incoming, NEW t1, NEW skp1, Follows(t, skp, m, t1, skp1)
  PROVE  /\ t1 \in State /\ m.mk.i \in Nat
         /\ skp1 \in SUBSET SkippedKeys /\ IsFiniteSet(skp1)
<1>1. m.n \in Nat /\ m.n + 1 \in Nat
  BY DEF Incoming
<1>2. /\ t.nr <= m.n /\ m.mk = KeyAt(t, m.n) /\ t1 = SteppedTo(t, m.n + 1)
      /\ skp1 = skp \cup PassedKeys(t, m.n)
  BY DEF Follows
<1>3. m.mk \in ChainKey
  BY <1>1, <1>2, KeyAtType
<1>4. t1 \in State
  BY <1>1, <1>2, SteppedToType
<1>5. IsFiniteSet(PassedKeys(t, m.n)) /\ PassedKeys(t, m.n) \subseteq SkippedKeys
  BY <1>1, PassedKeysFinite
<1>6. IsFiniteSet(skp1)
  BY <1>2, <1>5, FS_Union
<1> QED BY <1>2, <1>3, <1>4, <1>5, <1>6 DEF ChainKey

LEMMA OpensType ==
  ASSUME NEW s \in Session, NEW skp \in SUBSET SkippedKeys, IsFiniteSet(skp),
         NEW m \in Incoming, NEW new \in PubKey, NEW s1, NEW skp1,
         Opens(s, skp, m, new, s1, skp1)
  PROVE  /\ s1 \in Session /\ s1.init = SESSION_READY /\ m.mk.i \in Nat
         /\ skp1 \in SUBSET SkippedKeys /\ IsFiniteSet(skp1)
<1>1. s.state \in State /\ m.dh \in PubKey /\ m.pn \in Nat
  BY DEF Session, Incoming
<1>2. /\ s1.state \in State /\ m.mk.i \in Nat
      /\ skp1 \in SUBSET SkippedKeys /\ IsFiniteSet(skp1)
  <2>1. CASE ByKept(s.state, skp, m, s1.state, skp1)
    <3>1. Loaded(skp, m) \subseteq skp
      BY DEF Loaded, omemoLoadMessageKey
    <3>2. PICK k \in skp : k.mk = m.mk
      BY <2>1, <3>1 DEF ByKept
    <3>3. k.mk \in ChainKey
      BY DEF SkippedKeys
    <3>4. IsFiniteSet(skp1) /\ skp1 \subseteq skp
      BY <2>1, FS_Difference DEF ByKept
    <3> QED BY <1>1, <2>1, <3>2, <3>3, <3>4 DEF ByKept, ChainKey
  <2>2. CASE InChain(s.state, skp, m, s1.state, skp1)
    BY <1>1, <2>2, FollowsType DEF InChain
  <2>3. CASE InNewChain(s.state, skp, m, new, s1.state, skp1)
    <3> DEFINE t == Ratcheted(s.state, m.dh, new)
               kept == skp \cup PassedKeys(s.state, m.pn)
    <3>1. t \in State
      BY <1>1, RatchetedType
    <3>2. kept \in SUBSET SkippedKeys /\ IsFiniteSet(kept)
      BY <1>1, PassedKeysFinite, FS_Union
    <3>3. Follows(t, kept, m, s1.state, skp1)
      BY <2>3 DEF InNewChain
    <3> HIDE DEF t, kept
    <3> QED BY <3>1, <3>2, <3>3, FollowsType
  <2> QED BY <2>1, <2>2, <2>3 DEF Opens
<1>3. s1 = WithState(s, SESSION_READY, s1.state)
  BY DEF Opens
<1>4. SESSION_READY \in SESSION_UNINIT .. SESSION_HEARTBEAT
  BY DEF SESSION_READY, SESSION_UNINIT, SESSION_HEARTBEAT
<1>5. s1 \in Session
  BY <1>2, <1>3, <1>4, WithStateType
<1>6. WithState(s, SESSION_READY, s1.state).init = SESSION_READY
  BY DEF WithState
<1> QED BY <1>2, <1>3, <1>5, <1>6

LEMMA ReceivedType ==
  ASSUME NEW d \in Device, NEW s \in Session, NEW st \in Store,
         NEW skp \in SUBSET SkippedKeys, IsFiniteSet(skp),
         NEW m \in Incoming, NEW new \in PubKey, NEW s1, NEW skp1,
         Received0(d, s, st, skp, m, new, s1, skp1)
  PROVE  /\ s1 \in Session /\ s1.init = SESSION_READY /\ m.mk.i \in Nat
         /\ skp1 \in SUBSET SkippedKeys /\ IsFiniteSet(skp1)
  BY OpensType DEF Received0

(* What the network hands over, and that only an undamaged message opens.  *)
LEMMA HandedOver ==
  ASSUME TypeInv, NEW d \in Device, NEW m \in Genuine(d) \cup Damaged(d)
  PROVE  m \in Incoming /\ (m \in Genuine(d) \/ m.mk.i = -1)
<1>1. Peer(d) \in Device /\ sent[Peer(d)] \subseteq Entry
  BY TwoDevices DEF TypeInv, Types
<1>2. Genuine(d) \subseteq Message
  BY <1>1 DEF Genuine, Entry
<1>3. \A g \in Message : g \in Incoming
  BY DEF Message, Incoming, ChainKey
<1>4. CASE m \in Genuine(d)
  BY <1>2, <1>3, <1>4
<1>5. CASE m \notin Genuine(d)
  <2>1. NoChain \in [root : RootKey, i : Int] /\ NoChain.i = -1
    BY ZeroTypes DEF NoChain
  <2>2. PICK g \in Message : \/ m = [g EXCEPT !.mk = NoChain]
                             \/ m = [g EXCEPT !.mk = NoChain, !.n = @ + 1]
    BY <1>2, <1>5 DEF Damaged
  <2> DEFINE g1 == [g EXCEPT !.mk = NoChain]
  <2>3. g1 \in Incoming /\ g1.mk = NoChain /\ g1.n \in Nat
    <3>1. g \in Incoming
      BY <1>3
    <3> HIDE DEF NoChain
    <3> QED BY <2>1, <3>1 DEF Incoming
  <2>4. CASE m = g1
    BY <2>1, <2>3, <2>4
  <2>5. CASE m # g1
    <3>1. m = [g1 EXCEPT !.n = @ + 1]
      BY <2>2, <2>5
    <3> HIDE DEF g1
    <3>2. m \in Incoming /\ m.mk = g1.mk
      BY <2>3, <3>1 DEF Incoming
    <3> QED BY <2>1, <2>3, <3>2
  <2> QED BY <2>4, <2>5
<1> QED BY <1>4, <1>5

LEMMA FirstStateIs ==
  ASSUME NEW eka, NEW b, NEW rk
  PROVE  [ZeroState EXCEPT !.dhs = eka, !.dhr = b.spk, !.rk = rk, !.cks = FirstChain(rk)]
           = FirstState(eka, b, rk)
<1> DEFINE e1 == [ZeroState EXCEPT !.dhs = eka]
           e2 == [e1 EXCEPT !.dhr = b.spk]
           e3 == [e2 EXCEPT !.rk = rk]
           e4 == [e3 EXCEPT !.cks = FirstChain(rk)]
<1>1. e1 = [dhs |-> eka, dhr |-> Zero, rk |-> Zero, cks |-> ZeroChain, ckr |-> ZeroChain,
            ns |-> 0, nr |-> 0, pn |-> 0]
  BY DEF ZeroState
<1>5. [ZeroState EXCEPT !.dhs = eka, !.dhr = b.spk, !.rk = rk, !.cks = FirstChain(rk)] = e4
  OBVIOUS
<1> HIDE DEF e1
<1>2. e2 = [dhs |-> eka, dhr |-> b.spk, rk |-> Zero, cks |-> ZeroChain, ckr |-> ZeroChain,
            ns |-> 0, nr |-> 0, pn |-> 0]
  BY <1>1
<1> HIDE DEF e2
<1>3. e3 = [dhs |-> eka, dhr |-> b.spk, rk |-> rk, cks |-> ZeroChain, ckr |-> ZeroChain,
            ns |-> 0, nr |-> 0, pn |-> 0]
  BY <1>2
<1> HIDE DEF e3
<1>4. e4 = [dhs |-> eka, dhr |-> b.spk, rk |-> rk, cks |-> FirstChain(rk),
            ckr |-> ZeroChain, ns |-> 0, nr |-> 0, pn |-> 0]
  BY <1>3
<1> HIDE DEF e4
<1> QED BY <1>4, <1>5 DEF FirstState, FirstChain, ZeroChain

(* Every step is one of these, by one device.                              *)
LEMMA StepCases ==
  ASSUME TypeInv, \A e \in Device : Unstarted(e), Rollback, [Next]_vars
  PROVE  \E d \in Device : Acts(d)
<1>1. /\ session \in [Device -> Session] /\ skipped \in [Device -> SUBSET SkippedKeys]
      /\ fresh \in [Device -> Nat] /\ sent \in [Device -> SUBSET Entry]
      /\ accepted \in [Device -> SUBSET Nat] /\ replayed \in [Device -> SUBSET Nat]
  BY DEF TypeInv, Types
<1>2. ASSUME NEW d \in Device,
             UNCHANGED <<session, skipped, fresh, sent, accepted, replayed>>
      PROVE  Acts(d)
  BY <1>1, <1>2 DEF Acts, Updates, Silent
<1>3. ASSUME NEW d \in Device,
             RemovePreKey(d) \/ RefillPreKeys(d) \/ RotateSignedPreKey(d) \/ Announce(d)
      PROVE  Acts(d)
  BY <1>2, <1>3 DEF RemovePreKey, RefillPreKeys, RotateSignedPreKey, Announce
<1>4. CASE UNCHANGED vars
  BY <1>2, <1>4, SomeDevice DEF vars
<1>5. \A d \in Device : /\ Peer(d) \in Device /\ NewKey(d) \in PubKey
                        /\ session[d] \in Session /\ store[d] \in Store
                        /\ offered[d] \subseteq AnyBundle
                        /\ Pub(d, "ik", store[d].identity) = OwnKey(d)
  <2>1. \A d \in Device : NewKey(d) \in PubKey
    BY <1>1 DEF NewKey, PubKey
  <2>2. \A d \in Device : Pub(d, "ik", store[d].identity) = OwnKey(d)
    BY OwnKeyIs DEF TypeInv, Stores
  <2> QED BY <1>1, <2>1, <2>2, TwoDevices DEF TypeInv, Stores
<1>6. ASSUME NEW d \in Device, InitiateSession(d) PROVE Acts(d)
  <2> DEFINE p == Peer(d)
  <2>1. PICK b \in Fetched(p), fault \in Fault :
          Initiated(d, omemoInitiateSession(d, session[d], store[d], b, NewKey(d), fault))
    BY <1>6 DEF InitiateSession
  <2>2. ~Started(d) /\ session[d] = ZeroSession
    BY <1>6 DEF InitiateSession, Started, Unstarted
  <2> DEFINE r == omemoInitiateSession(d, session[d], store[d], b, NewKey(d), fault)
  <2>3. b \in AnyBundle /\ (b.signed => b \in offered[p])
    <3>1. offered[p] \subseteq AnyBundle
      BY <1>5
    <3>2. CASE b \in offered[p]
      BY <3>1, <3>2
    <3>3. CASE b \notin offered[p]
      <4>1. PICK c \in AnyBundle : b = [c EXCEPT !.signed = FALSE]
        BY <3>1, <3>3 DEF Fetched
      <4> QED BY <4>1 DEF AnyBundle
    <3> QED BY <3>2, <3>3
  <2>4. Initiates(d, session[d], store[d], b, NewKey(d), r)
    BY <1>5, <2>3, InitiateOutcome
  <2>5. /\ session' = [session EXCEPT ![d] = r.session]
        /\ fresh' = [fresh EXCEPT ![d] = IF r.ret = 0 THEN @ + 1 ELSE @]
        /\ UNCHANGED <<skipped, sent, accepted, replayed>>
    BY <2>1 DEF Initiated
  <2> HIDE DEF r
  <2>6. Updates(d)
    BY <1>1, <2>5 DEF Updates
  <2>7. CASE r.ret # 0
    <3>1. [ZeroSession EXCEPT !.state = ZeroState] = ZeroSession
      BY DEF ZeroSession
    <3>2. r.session = session[d]
      BY <2>2, <2>4, <2>7, <3>1 DEF Initiates
    <3>3. session' = session /\ fresh' = fresh
      BY <1>1, <2>5, <2>7, <3>2
    <3> QED BY <2>5, <2>6, <3>3 DEF Acts, Silent
  <2>8. CASE r.ret = 0
    <3>1. /\ b.signed /\ Zero \notin {b.ik, b.spk, b.pk}
          /\ r.session =
               [init |-> SESSION_INIT, identity |-> OwnKey(d), remoteidentity |-> b.ik,
                state |-> [ZeroState EXCEPT !.dhs = NewKey(d), !.dhr = b.spk,
                             !.rk = FirstRoot(d, b, NewKey(d)),
                             !.cks = FirstChain(FirstRoot(d, b, NewKey(d)))],
                usedek |-> NewKey(d), usedpk_id |-> b.pk_id, usedspk_id |-> b.spk_id]
      <4> HIDE DEF NewKey
      <4> QED BY <1>5, <2>4, <2>8 DEF Initiates, FirstRoot
    <3>2. r.session = FirstSession(d, b, NewKey(d))
      <4> DEFINE rk == FirstRoot(d, b, NewKey(d))
                 eka == NewKey(d)
      <4>1. r.session = [init |-> SESSION_INIT, identity |-> OwnKey(d), remoteidentity |-> b.ik,
                state |-> [ZeroState EXCEPT !.dhs = eka, !.dhr = b.spk,
                             !.rk = rk, !.cks = FirstChain(rk)],
                usedek |-> eka, usedpk_id |-> b.pk_id, usedspk_id |-> b.spk_id]
        BY <3>1
      <4>2. FirstSession(d, b, NewKey(d)) =
               [init |-> SESSION_INIT, identity |-> OwnKey(d), remoteidentity |-> b.ik,
                state |-> FirstState(eka, b, rk),
                usedek |-> eka, usedpk_id |-> b.pk_id, usedspk_id |-> b.spk_id]
        BY DEF FirstSession
      <4> HIDE DEF rk, eka
      <4>3. [ZeroState EXCEPT !.dhs = eka, !.dhr = b.spk, !.rk = rk, !.cks = FirstChain(rk)]
              = FirstState(eka, b, rk)
        BY FirstStateIs
      <4> QED BY <4>1, <4>2, <4>3
    <3>3. b \in offered[Peer(d)]
      BY <2>3, <3>1
    <3>4. session'[d] = FirstSession(d, b, NewKey(d)) /\ fresh'[d] = fresh[d] + 1
      BY <1>1, <2>5, <2>8, <3>2
    <3>5. Begun(d)
      BY <2>2, <2>5, <3>1, <3>3, <3>4 DEF Begun
    <3> QED BY <2>6, <3>5 DEF Acts
  <2> QED BY <2>7, <2>8
<1>7. ASSUME NEW d \in Device, NEW r, NEW hb \in BOOLEAN, Emit(d, r, hb),
             r.msg = NoMessage, r.session = session[d]
      PROVE  Acts(d)
  <2>1. session' = session /\ UNCHANGED <<skipped, fresh, sent, accepted, replayed>>
    BY <1>1, <1>7 DEF Emit
  <2> QED BY <1>2, <2>1
<1>8. ASSUME NEW d \in Device, NEW r, NEW hb \in BOOLEAN, Emit(d, r, hb),
             Body(d) <= MaxSend, Started(d),
             r.msg = NextMessage(session[d], Body(d)),
             hb => session[d].init = SESSION_READY /\ T(d).nr >= HeartbeatAt,
             r.session = WithState(session[d],
                                   IF hb THEN SESSION_HEARTBEAT ELSE session[d].init,
                                   StateAfterSend(T(d)))
      PROVE  Acts(d)
  <2>1. IsFiniteSet(sent[d])
    BY DEF TypeInv, Types
  <2>2. Body(d) \in Nat \ {0}
    BY <2>1, FS_CardinalityType DEF Body
  <2>3. r.msg # NoMessage
    BY <1>5, <1>8, <2>2, EncryptedType
  <2>4. /\ session' = [session EXCEPT ![d] = r.session]
        /\ sent' = [sent EXCEPT ![d] = @ \cup {[m |-> r.msg, hb |-> hb]}]
        /\ UNCHANGED <<skipped, fresh, accepted, replayed>>
    BY <1>8, <2>3 DEF Emit
  <2>5. Updates(d)
    BY <1>1, <2>4 DEF Updates
  <2>6. session'[d] = r.session /\ sent'[d] = sent[d] \cup {[m |-> r.msg, hb |-> hb]}
    BY <1>1, <2>4
  <2>7. Spoke(d, hb)
    BY <1>8, <2>4, <2>6 DEF Spoke
  <2> QED BY <2>5, <2>7 DEF Acts
<1>9. ASSUME NEW d \in Device, EncryptKey(d) PROVE Acts(d)
  <2>1. Body(d) <= MaxSend
    BY <1>9 DEF EncryptKey
  <2>2. PICK fault \in Fault : Emit(d, omemoEncryptKey(session[d], Body(d), fault), FALSE)
    BY <1>9 DEF EncryptKey
  <2> DEFINE r == omemoEncryptKey(session[d], Body(d), fault)
  <2>3. Body(d) \in Nat \ {0}
    BY FS_CardinalityType DEF Body, TypeInv, Types
  <2>4. Encrypts(session[d], Body(d), r)
    BY <1>5, <2>3, EncryptOutcome
  <2>5. Emit(d, r, FALSE)
    BY <2>2
  <2> HIDE DEF r
  <2>6. CASE r.session = session[d] /\ r.msg = NoMessage
    BY <1>7, <2>5, <2>6
  <2>7. CASE ~ (r.session = session[d] /\ r.msg = NoMessage)
    <3>1. /\ session[d].init # SESSION_UNINIT
          /\ r.msg = NextMessage(session[d], Body(d))
          /\ r.session = WithState(session[d], session[d].init, StateAfterSend(session[d].state))
      BY <2>4, <2>7 DEF Encrypts
    <3> QED BY <1>8, <2>1, <2>5, <3>1 DEF Started, T
  <2> QED BY <2>6, <2>7
<1>10. ASSUME NEW d \in Device, Heartbeat(d) PROVE Acts(d)
  <2>1. Body(d) <= MaxSend
    BY <1>10 DEF Heartbeat
  <2>2. PICK fault \in Fault : Emit(d, omemoHeartbeat(session[d], Body(d), fault), TRUE)
    BY <1>10 DEF Heartbeat
  <2> DEFINE r == omemoHeartbeat(session[d], Body(d), fault)
  <2>3. Body(d) \in Nat \ {0}
    BY FS_CardinalityType DEF Body, TypeInv, Types
  <2>4. Beats(session[d], Body(d), r)
    BY <1>5, <2>3, HeartbeatOutcome
  <2>5. Emit(d, r, TRUE)
    BY <2>2
  <2> HIDE DEF r
  <2>6. CASE r.session = session[d] /\ r.msg = NoMessage
    BY <1>7, <2>5, <2>6
  <2>7. CASE /\ session[d].init = SESSION_HEARTBEAT /\ session[d].state.nr < HeartbeatAt
             /\ r.session = WithState(session[d], SESSION_READY, session[d].state)
             /\ r.msg = NoMessage
    <3>1. /\ session' = [session EXCEPT ![d] = r.session]
          /\ UNCHANGED <<skipped, fresh, sent, accepted, replayed>>
      BY <2>5, <2>7 DEF Emit
    <3>2. Updates(d)
      BY <1>1, <3>1 DEF Updates
    <3>3. session'[d] = r.session
      BY <1>1, <3>1
    <3>4. Settled(d)
      BY <2>7, <3>1, <3>3 DEF Settled, T
    <3> QED BY <3>2, <3>4 DEF Acts
  <2>8. CASE /\ session[d].init = SESSION_READY /\ session[d].state.nr >= HeartbeatAt
             /\ r.msg = NextMessage(session[d], Body(d))
             /\ r.session = WithState(session[d], SESSION_HEARTBEAT,
                                      StateAfterSend(session[d].state))
    <3> DEFINE hb == TRUE
    <3>1. (IF hb THEN SESSION_HEARTBEAT ELSE session[d].init) = SESSION_HEARTBEAT
      OBVIOUS
    <3>2. hb \in BOOLEAN /\ Emit(d, r, hb) /\ Started(d)
      <4>1. Emit(d, r, hb)
        BY <2>5
      <4>2. Started(d)
        BY <2>8 DEF Started, SESSION_READY, SESSION_UNINIT
      <4> QED BY <4>1, <4>2
    <3>3. r.session = WithState(session[d],
                                IF hb THEN SESSION_HEARTBEAT ELSE session[d].init,
                                StateAfterSend(T(d)))
      BY <2>8, <3>1 DEF T
    <3>4. session[d].init = SESSION_READY /\ T(d).nr >= HeartbeatAt
      BY <2>8 DEF T
    <3> HIDE DEF hb
    <3>5. hb => session[d].init = SESSION_READY /\ T(d).nr >= HeartbeatAt
      BY <3>4
    <3>6. r.msg = NextMessage(session[d], Body(d))
      BY <2>8
    <3> QED BY <1>8, <2>1, <3>2, <3>3, <3>5, <3>6, Zenon
  <2> QED BY <2>4, <2>6, <2>7, <2>8 DEF Beats
<1>11. ASSUME NEW d \in Device, DecryptKey(d) PROVE Acts(d)
  <2>1. PICK m \in Genuine(d) \cup Damaged(d), fault \in Fault :
          Received(d, m, Decrypted(d, m, fault))
    BY <1>11 DEF DecryptKey, DecryptMessage
  <2> DEFINE r == Decrypted(d, m, fault)
  <2>2. m \in Incoming /\ (m \in Genuine(d) \/ m.mk.i = -1)
    BY HandedOver
  <2>3. DecryptOutcomes(d, session[d], store[d], skipped[d], m, NewKey(d), fault, r)
    BY <1>5, <2>2, DecryptOutcome DEF Decrypted
  <2>4. Received(d, m, r)
    BY <2>1
  <2> HIDE DEF r
  <2>5. /\ session' = [session EXCEPT ![d] = r.session]
        /\ skipped' = [skipped EXCEPT ![d] = IF r.ret # 0 THEN @ ELSE r.skipped]
        /\ fresh' = [fresh EXCEPT ![d] = IF r.session.state.dhs = NewKey(d) THEN @ + 1 ELSE @]
        /\ accepted' = [accepted EXCEPT ![d] = IF r.ret = 0 THEN @ \cup {m.body} ELSE @]
        /\ replayed' = [replayed EXCEPT ![d] =
                    IF r.ret = 0 /\ m.body \in accepted[d] THEN @ \cup {m.body} ELSE @]
        /\ sent' = sent
    BY <2>4 DEF Received
  <2>6. /\ session'[d] = r.session
        /\ skipped'[d] = IF r.ret # 0 THEN skipped[d] ELSE r.skipped
        /\ fresh'[d] = IF r.session.state.dhs = NewKey(d) THEN fresh[d] + 1 ELSE fresh[d]
        /\ accepted'[d] = IF r.ret = 0 THEN accepted[d] \cup {m.body} ELSE accepted[d]
        /\ replayed'[d] = IF r.ret = 0 /\ m.body \in accepted[d]
                          THEN replayed[d] \cup {m.body} ELSE replayed[d]
    BY <1>1, <2>5
  <2>7. Updates(d)
    <3> HIDE DEF NewKey
    <3> QED BY <1>1, <2>5 DEF Updates
  <2>8. CASE r.ret # 0
    <3>1. r.session = session[d]
      BY <2>3, <2>8 DEF DecryptOutcomes
    <3>2. session' = session /\ skipped' = skipped /\ accepted' = accepted
          /\ replayed' = replayed
      BY <1>1, <2>5, <2>8, <3>1
    <3> QED BY <2>5, <2>6, <2>7, <3>2 DEF Acts, Silent
  <2>9. CASE r.ret = 0
    <3>1. Received0(d, session[d], store[d], skipped[d], m, NewKey(d), r.session, r.skipped)
      BY <2>3, <2>9 DEF DecryptOutcomes, OMEMO_EUSER
    <3>2. m.mk.i \in Nat
      <4>1. skipped[d] \in SUBSET SkippedKeys /\ IsFiniteSet(skipped[d])
        BY <1>1 DEF TypeInv, Types
      <4> QED BY <1>5, <2>2, <3>1, <4>1, ReceivedType
    <3>3. m \in Genuine(d)
      BY <2>2, <3>2
    <3>4. Heard(d, m)
      BY <2>5, <2>6, <2>9, <3>1 DEF Heard, T
    <3> QED BY <2>7, <3>3, <3>4 DEF Acts
  <2> QED BY <2>8, <2>9
<1> QED BY <1>3, <1>4, <1>6, <1>9, <1>10, <1>11 DEF Next

(* The state stays one of the program's.                                   *)
LEMMA ActsType ==
  ASSUME TypeInv, NEW d \in Device, Acts(d)
  PROVE  Types'
<1>1. /\ session \in [Device -> Session] /\ skipped \in [Device -> SUBSET SkippedKeys]
      /\ fresh \in [Device -> Nat] /\ sent \in [Device -> SUBSET Entry]
      /\ accepted \in [Device -> SUBSET Nat] /\ replayed \in [Device -> SUBSET Nat]
      /\ \A e \in Device : /\ IsFiniteSet(skipped[e]) /\ IsFiniteSet(sent[e])
                           /\ IsFiniteSet(accepted[e]) /\ replayed[e] \subseteq accepted[e]
  BY DEF TypeInv, Types
<1>2. /\ Peer(d) \in Device /\ NewKey(d) \in PubKey /\ OwnKey(d) \in PubKey
      /\ store[d] \in Store /\ offered[Peer(d)] \subseteq AnyBundle
      /\ session[d] \in Session /\ T(d) \in State
  BY <1>1, TwoDevices DEF NewKey, OwnKey, PubKey, TypeInv, Stores, T, Session
<1>3. SUFFICES /\ session'[d] \in Session /\ fresh'[d] \in Nat
               /\ skipped'[d] \subseteq SkippedKeys /\ IsFiniteSet(skipped'[d])
               /\ sent'[d] \subseteq Entry /\ IsFiniteSet(sent'[d])
               /\ accepted'[d] \subseteq Nat /\ IsFiniteSet(accepted'[d])
               /\ replayed'[d] \subseteq accepted'[d]
  <2>1. Updates(d)
    BY DEF Acts
  <2>2. \A e \in Device : e # d => /\ skipped'[e] = skipped[e] /\ sent'[e] = sent[e]
                                   /\ accepted'[e] = accepted[e] /\ replayed'[e] = replayed[e]
    BY <1>1, <2>1 DEF Updates
  <2>3. session' \in [Device -> Session]
    BY <1>1, <1>3, <2>1 DEF Updates
  <2>4. skipped' \in [Device -> SUBSET SkippedKeys]
    BY <1>1, <1>3, <2>1 DEF Updates
  <2>5. fresh' \in [Device -> Nat]
    BY <1>1, <1>3, <2>1 DEF Updates
  <2>6. sent' \in [Device -> SUBSET Entry]
    BY <1>1, <1>3, <2>1 DEF Updates
  <2>7. accepted' \in [Device -> SUBSET Nat]
    BY <1>1, <1>3, <2>1 DEF Updates
  <2>8. replayed' \in [Device -> SUBSET Nat]
    BY <1>1, <1>3, <2>1 DEF Updates
  <2>9. \A e \in Device : /\ IsFiniteSet(skipped'[e]) /\ IsFiniteSet(sent'[e])
                          /\ IsFiniteSet(accepted'[e]) /\ replayed'[e] \subseteq accepted'[e]
    BY <1>1, <1>3, <2>2
  <2> QED BY <2>3, <2>4, <2>5, <2>6, <2>7, <2>8, <2>9 DEF Types
<1>4. SESSION_READY \in SESSION_UNINIT .. SESSION_HEARTBEAT
      /\ SESSION_INIT \in SESSION_UNINIT .. SESSION_HEARTBEAT
      /\ SESSION_HEARTBEAT \in SESSION_UNINIT .. SESSION_HEARTBEAT
  BY DEF SESSION_READY, SESSION_UNINIT, SESSION_INIT, SESSION_HEARTBEAT
<1>5. CASE Silent(d)
  BY <1>1, <1>5 DEF Silent
<1>6. CASE Settled(d)
  BY <1>1, <1>2, <1>4, <1>6, WithStateType DEF Settled
<1>7. CASE Begun(d)
  <2>1. PICK b \in offered[Peer(d)] : session'[d] = FirstSession(d, b, NewKey(d))
    BY <1>7 DEF Begun
  <2> DEFINE rk == FirstRoot(d, b, NewKey(d))
             eka == NewKey(d)
  <2>2. b \in AnyBundle
    BY <1>2, <2>1
  <2>3. /\ b.ik \in PubKey /\ b.spk \in PubKey /\ b.pk \in PubKey
        /\ b.pk_id \in 0..IdMax /\ b.spk_id \in 0..IdMax
    BY <2>2 DEF AnyBundle
  <2>4. BundleSecret(OwnKey(d), b, eka) \in RootKey
    <3> HIDE DEF eka
    <3>1. eka \in PubKey
      BY <1>2 DEF eka
    <3> QED BY <1>2, <2>3, <3>1, SecretType DEF BundleSecret
  <2>5. rk \in RootKey
    BY <1>2, <2>3, <2>4, DeriveType DEF FirstRoot
  <2>6. FirstState(eka, b, rk) \in State
    <3>1. eka \in PubKey
      BY <1>2
    <3> HIDE DEF eka, rk
    <3> QED BY <2>3, <2>5, <3>1, ZeroTypes DEF FirstState, State, ChainKey
  <2>7. FirstSession(d, b, NewKey(d)) \in Session
    <3>1. FirstSession(d, b, NewKey(d)) =
            [init |-> SESSION_INIT, identity |-> OwnKey(d), remoteidentity |-> b.ik,
             state |-> FirstState(eka, b, rk), usedek |-> eka, usedpk_id |-> b.pk_id,
             usedspk_id |-> b.spk_id]
      BY DEF FirstSession
    <3>2. eka \in PubKey
      BY <1>2
    <3> HIDE DEF eka, rk
    <3> QED BY <1>2, <1>4, <2>3, <2>6, <3>1, <3>2 DEF Session
  <2> QED BY <1>1, <1>7, <2>1, <2>7 DEF Begun
<1>8. ASSUME NEW hb \in BOOLEAN, Spoke(d, hb)
      PROVE  /\ session'[d] \in Session /\ sent'[d] \subseteq Entry /\ IsFiniteSet(sent'[d])
             /\ UNCHANGED <<skipped, fresh, accepted, replayed>>
  <2>1. Body(d) \in Nat \ {0}
    <3>1. IsFiniteSet(sent[d])
      BY <1>1
    <3> QED BY <3>1, FS_CardinalityType DEF Body
  <2>2. NextMessage(session[d], Body(d)) \in Message
    BY <1>2, <2>1, EncryptedType
  <2>3. session'[d] \in Session
    <3>1. session[d].init \in SESSION_UNINIT .. SESSION_HEARTBEAT
      BY <1>2 DEF Session
    <3>2. StateAfterSend(T(d)) \in State
      BY <1>2, StateAfterSendType
    <3> DEFINE init == IF hb THEN SESSION_HEARTBEAT ELSE session[d].init
    <3>3. session'[d] = WithState(session[d], init, StateAfterSend(T(d)))
      BY <1>8 DEF Spoke
    <3>4. init \in SESSION_UNINIT .. SESSION_HEARTBEAT
      BY <1>4, <3>1
    <3> HIDE DEF init
    <3> QED BY <1>2, <3>2, <3>3, <3>4, WithStateType
  <2>4. sent'[d] = sent[d] \cup {[m |-> NextMessage(session[d], Body(d)), hb |-> hb]}
        /\ UNCHANGED <<skipped, fresh, accepted, replayed>>
    BY <1>8 DEF Spoke
  <2> HIDE DEF Body
  <2>5. sent'[d] \subseteq Entry
    BY <1>1, <2>2, <2>4 DEF Entry
  <2>6. IsFiniteSet(sent'[d])
    <3> DEFINE e == [m |-> NextMessage(session[d], Body(d)), hb |-> hb]
    <3>1. sent'[d] = sent[d] \cup {e} /\ IsFiniteSet(sent[d])
      BY <1>1, <2>4
    <3> HIDE DEF e
    <3> QED BY <3>1, FS_AddElement
  <2> QED BY <2>3, <2>4, <2>5, <2>6
<1>9. ASSUME NEW m \in Genuine(d), Heard(d, m)
      PROVE  /\ session'[d] \in Session /\ fresh'[d] \in Nat
             /\ skipped'[d] \subseteq SkippedKeys /\ IsFiniteSet(skipped'[d])
             /\ accepted'[d] \subseteq Nat /\ IsFiniteSet(accepted'[d])
             /\ replayed'[d] \subseteq accepted'[d] /\ sent' = sent
  <2>1. m \in Incoming
    BY HandedOver
  <2>2. skipped[d] \in SUBSET SkippedKeys /\ IsFiniteSet(skipped[d])
    BY <1>1
  <2>3. /\ Received0(d, session[d], store[d], skipped[d], m, NewKey(d),
                     session'[d], skipped'[d])
        /\ fresh'[d] \in {fresh[d], fresh[d] + 1}
        /\ accepted'[d] = accepted[d] \cup {m.body}
        /\ replayed'[d] \subseteq replayed[d] \cup {m.body}
        /\ sent' = sent
    BY <1>9 DEF Heard
  <2>4. /\ session'[d] \in Session /\ skipped'[d] \in SUBSET SkippedKeys
        /\ IsFiniteSet(skipped'[d])
    BY <1>2, <2>1, <2>2, <2>3, ReceivedType
  <2>5. accepted'[d] \subseteq Nat /\ IsFiniteSet(accepted'[d])
    <3>1. IsFiniteSet(accepted[d]) /\ accepted[d] \subseteq Nat /\ m.body \in Nat
      BY <1>1, <2>1 DEF Incoming
    <3>2. IsFiniteSet(accepted[d] \cup {m.body})
      BY <3>1, FS_AddElement
    <3> QED BY <2>3, <3>1, <3>2
  <2> QED BY <1>1, <2>3, <2>4, <2>5
<1> QED BY <1>1, <1>5, <1>6, <1>7, <1>8, <1>9 DEF Acts

(* A step of one device leaves what the other one has.                     *)
LEMMA OtherKept ==
  ASSUME TypeInv, NEW d \in Device, Updates(d), NEW e \in Device, e # d
  PROVE  /\ session'[e] = session[e] /\ skipped'[e] = skipped[e] /\ fresh'[e] = fresh[e]
         /\ sent'[e] = sent[e] /\ accepted'[e] = accepted[e] /\ replayed'[e] = replayed[e]
  BY DEF TypeInv, Types, Updates

----------------------------------------------------------------------------
(* The invariant.  Both ends of a conversation make their root keys longer *)
(* by two outputs a step, so that one end's have an odd and the other's an *)
(* even length; a chain is behind another when its root is shorter.        *)

(* The end that set the session up from a bundle.                          *)
Leads(d) == Len(T(d).rk) % 2 = 1

Ephemeral(d) == {d} \X {"ek"} \X Nat \X {1}

Made(d) == {d} \X {"ek"} \X (1..fresh[d]) \X {1}

(* The receiving chain of t, or an earlier one, went past key mk.          *)
Behind(mk, t) ==
  /\ Len(mk.root) <= Len(t.ckr.root)
  /\ mk.root = t.ckr.root => mk.i < t.ckr.i

(* The two chains of a session and whom it is between.                     *)
Chains(d) ==
  Started(d) =>
    /\ T(d).cks = [root |-> T(d).rk, i |-> T(d).ns]
    /\ T(d).ckr.i = T(d).nr
    /\ Len(T(d).rk) >= 5 /\ Len(T(d).ckr.root) < Len(T(d).rk)
    /\ T(d).dhs \in Made(d)
    /\ session[d].identity = OwnKey(d)
    /\ session[d].remoteidentity = OwnKey(Peer(d))

(* A message that device d sent: its key is of the current sending chain   *)
(* or of an earlier, shorter one.                                          *)
SentBy(d, m) ==
  /\ m.body \in 1..Cardinality(sent[d])
  /\ m.mk.i = m.n /\ m.dh \in Made(d)
  /\ m.ad = <<OwnKey(d), OwnKey(Peer(d))>>
  /\ m.isprekey => Leads(d) /\ m.ik = OwnKey(d) /\ m.pn = 0
  /\ ~m.isprekey => Established(d)
  /\ Len(m.mk.root) % 2 = Len(T(d).rk) % 2
  /\ m.mk.root = T(d).rk \/ Len(m.mk.root) < Len(T(d).rk)
  /\ m.dh = T(d).dhs <=> m.mk.root = T(d).rk
  /\ m.dh = T(d).dhs => m.n < T(d).ns /\ m.pn = T(d).pn

Sending(d) ==
  /\ \A e \in sent[d] : SentBy(d, e.m)
  /\ \A e1, e2 \in sent[d] :
       /\ e1.m.dh = e2.m.dh => e1.m.mk.root = e2.m.mk.root
       /\ e1.m.mk = e2.m.mk => e1 = e2
       /\ e1.m.body = e2.m.body => e1 = e2

SignedKeys(d) == {d} \X {"spk"} \X Nat \X Nat

(* A session that waits for its first answer.                              *)
Waiting(d) ==
  session[d].init = SESSION_INIT =>
    /\ Len(T(d).rk) = 5
    /\ \E spk \in SignedKeys(Peer(d)) :
         T(d).rk[1] = DH(OwnKey(d), spk) /\ T(d).dhr = spk
    /\ T(d).pn = 0 /\ T(d).nr = 0 /\ T(d).ckr = [root |-> Zero, i |-> 0]
    /\ skipped[d] = {} /\ accepted[d] = {}
    /\ \A e \in sent[d] : e.m.isprekey /\ e.m.mk.root = T(d).rk

(* One end leads and the other follows, unless both wait for each other.   *)
Roles(d) ==
  /\ Started(d) /\ ~Leads(d) => Established(d) /\ Started(Peer(d)) /\ Leads(Peer(d))
  /\ Established(d) /\ Leads(d) => Established(Peer(d)) /\ ~Leads(Peer(d))

(* The receiving chain is one of the peer's sending chains.                *)
Receiving(d) ==
  Established(d) =>
    \E m \in Genuine(d) :
      m.dh = T(d).dhr /\ m.mk.root = T(d).ckr.root /\ T(d).nr = m.n + 1

Keeping(d) ==
  /\ \A k \in skipped[d] :
       /\ Behind(k.mk, T(d)) /\ k.mk.i = k.nr
       /\ k.dh \in Ephemeral(Peer(d)) =>
            \E m \in Genuine(d) : m.dh = k.dh /\ m.mk.root = k.mk.root
  /\ \A k1, k2 \in skipped[d] : k1.mk = k2.mk => k1 = k2
  /\ Callbacks = "none" => skipped[d] = {}

Accepting(d) ==
  /\ \A b \in accepted[d] : \E m \in Genuine(d) :
       m.body = b /\ Behind(m.mk, T(d)) /\ \A k \in skipped[d] : k.mk # m.mk
  /\ replayed[d] = {}

Talk(d) ==
  /\ Unstarted(d) /\ Chains(d) /\ Sending(d) /\ Waiting(d) /\ Roles(d)
  /\ Receiving(d) /\ Keeping(d) /\ Accepting(d)

Inv == TypeInv /\ \A d \in Device : Talk(d)

----------------------------------------------------------------------------
(* The three ways in which a device reads a message of its peer.           *)

Matching(d, m) == {k \in skipped[d] : k.dh = m.dh /\ k.nr = m.n}

ReadKept(d, m) ==
  /\ Established(d) /\ T(d)' = T(d)
  /\ \E k \in Matching(d, m) : k.mk = m.mk
  /\ skipped'[d] = skipped[d] \ Matching(d, m)

KeysOf(dh, root, first, n) ==
  IF Callbacks = "none" THEN {}
  ELSE {[dh |-> dh, nr |-> j, mk |-> [root |-> root, i |-> j]] : j \in first .. n - 1}

ReadNext(d, m) ==
  LET t == T(d)
  IN /\ Established(d) /\ Matching(d, m) = {}
     /\ t.dhr = m.dh /\ t.nr <= m.n /\ m.mk = [root |-> t.ckr.root, i |-> m.n]
     /\ T(d)' = [dhs |-> t.dhs, dhr |-> t.dhr, rk |-> t.rk, cks |-> t.cks,
                 ckr |-> [root |-> t.ckr.root, i |-> m.n + 1],
                 ns |-> t.ns, nr |-> m.n + 1, pn |-> t.pn]
     /\ skipped'[d] = skipped[d] \cup KeysOf(t.dhr, t.ckr.root, t.nr, m.n)

ReadNew(d, m, rk, dhs) ==
  LET t == T(d)
      rk1 == DeriveRootKey(rk, dhs, m.dh)
      rk2 == DeriveRootKey(rk1, NewKey(d), m.dh)
  IN /\ Matching(d, m) = {}
     /\ t.dhr # m.dh /\ m.mk = [root |-> rk1, i |-> m.n]
     /\ T(d)' = [dhs |-> NewKey(d), dhr |-> m.dh, rk |-> rk2,
                 cks |-> [root |-> rk2, i |-> 0], ckr |-> [root |-> rk1, i |-> m.n + 1],
                 ns |-> 0, nr |-> m.n + 1, pn |-> t.ns]
     /\ skipped'[d] = skipped[d] \cup KeysOf(t.dhr, t.ckr.root, t.nr, m.pn)
                        \cup KeysOf(m.dh, rk1, 0, m.n)
     /\ rk \in RootKey /\ dhs \in PubKey
     /\ IF Started(d) THEN rk = t.rk /\ dhs = t.dhs
        ELSE Len(rk) = 4 /\ m.isprekey

(* What becomes of the rest of the session.                                *)
Reads(d, m) ==
  /\ session'[d].init = SESSION_READY
  /\ session'[d].identity = OwnKey(d) /\ session'[d].remoteidentity = OwnKey(Peer(d))
  /\ ~Started(d) => m.isprekey /\ session'[d].usedpk_id = m.pk_id
  /\ session[d].init = SESSION_INIT => ~m.isprekey /\ session'[d].usedpk_id = 0
  /\ Established(d) => session'[d].usedpk_id = session[d].usedpk_id
  /\ accepted'[d] = accepted[d] \cup {m.body}
  /\ replayed'[d] = IF m.body \in accepted[d] THEN replayed[d] \cup {m.body} ELSE replayed[d]
  /\ fresh'[d] = IF T(d)'.dhs = NewKey(d) THEN fresh[d] + 1 ELSE fresh[d]
  /\ UNCHANGED sent
  /\ \/ ReadKept(d, m) \/ ReadNext(d, m)
     \/ \E rk \in RootKey, dhs \in PubKey : ReadNew(d, m, rk, dhs)

LEMMA PassedIs ==
  ASSUME NEW t \in State, NEW n \in Nat, t.ckr.i = t.nr
  PROVE  /\ PassedKeys(t, n) = KeysOf(t.dhr, t.ckr.root, t.nr, n)
         /\ \A j \in Nat : KeyAt(t, j) = [root |-> t.ckr.root, i |-> j]
<1>1. t.nr \in Nat
  BY DEF State
<1>2. \A j \in Int : KeyAt(t, j) = [root |-> t.ckr.root, i |-> j]
  BY <1>1 DEF KeyAt
<1>3. \A j \in t.nr .. n - 1 : j \in Int
  BY <1>1
<1>4. {[dh |-> t.dhr, nr |-> j, mk |-> KeyAt(t, j)] : j \in t.nr .. n - 1}
        = {[dh |-> t.dhr, nr |-> j, mk |-> [root |-> t.ckr.root, i |-> j]] :
             j \in t.nr .. n - 1}
  BY <1>2, <1>3
<1>5. PassedKeys(t, n) = KeysOf(t.dhr, t.ckr.root, t.nr, n)
  BY <1>4 DEF PassedKeys, KeysOf
<1> QED BY <1>2, <1>5

LEMMA FollowsIs ==
  ASSUME NEW t \in State, t.ckr.i = t.nr, NEW skp, NEW m \in Incoming, NEW t1, NEW skp1,
         Follows(t, skp, m, t1, skp1)
  PROVE  /\ t.nr <= m.n /\ m.mk = [root |-> t.ckr.root, i |-> m.n]
         /\ t1 = [dhs |-> t.dhs, dhr |-> t.dhr, rk |-> t.rk, cks |-> t.cks,
                  ckr |-> [root |-> t.ckr.root, i |-> m.n + 1],
                  ns |-> t.ns, nr |-> m.n + 1, pn |-> t.pn]
         /\ skp1 = skp \cup KeysOf(t.dhr, t.ckr.root, t.nr, m.n)
<1>1. m.n \in Nat /\ m.n + 1 \in Nat /\ t.nr \in Nat
  BY DEF Incoming, State
<1>2. /\ t.nr <= m.n /\ m.mk = KeyAt(t, m.n) /\ t1 = SteppedTo(t, m.n + 1)
      /\ skp1 = skp \cup PassedKeys(t, m.n)
  BY DEF Follows
<1>3. ~ (t.nr >= m.n + 1)
  BY <1>1, <1>2
<1>4. KeyAt(t, m.n) = [root |-> t.ckr.root, i |-> m.n]
      /\ KeyAt(t, m.n + 1) = [root |-> t.ckr.root, i |-> m.n + 1]
      /\ PassedKeys(t, m.n) = KeysOf(t.dhr, t.ckr.root, t.nr, m.n)
  BY <1>1, PassedIs
<1> QED BY <1>2, <1>3, <1>4 DEF SteppedTo

LEMMA KeysAreNotZero ==
  ASSUME NEW d
  PROVE  Zero \notin Ephemeral(d) \cup SignedKeys(d)
<1>1. \A a, b, c : <<d, a, b, c>> # <<>>
  <2>1. \A a, b, c : Len(<<d, a, b, c>>) = 4
    OBVIOUS
  <2>2. Len(<<>>) = 0
    OBVIOUS
  <2> QED BY <2>1, <2>2
<1> QED BY <1>1 DEF Zero, Ephemeral, SignedKeys

(* What a device hears was sent by its peer.                               *)
LEMMA GenuineSent ==
  ASSUME Inv, NEW d \in Device, NEW m \in Genuine(d)
  PROVE  /\ Peer(d) \in Device /\ m \in Message /\ m \in Incoming /\ SentBy(Peer(d), m)
         /\ m.dh \in Ephemeral(Peer(d)) /\ m.dh # Zero
         /\ T(d) \in State /\ session[d] \in Session /\ Peer(Peer(d)) = d
<1>1. Peer(d) \in Device /\ Peer(Peer(d)) = d
  BY TwoDevices
<1>2. PICK e \in sent[Peer(d)] : m = e.m
  BY DEF Genuine
<1>3. m \in Message
  BY <1>1, <1>2 DEF Inv, TypeInv, Types, Entry
<1>4. m \in Incoming
  BY <1>3 DEF Message, Incoming, ChainKey
<1>5. SentBy(Peer(d), m)
  BY <1>1, <1>2 DEF Inv, Talk, Sending
<1>6. m.dh \in Made(Peer(d))
  BY <1>5 DEF SentBy
<1>7. m.dh \in Ephemeral(Peer(d)) /\ m.dh # Zero
  BY <1>6, KeysAreNotZero DEF Made, Ephemeral
<1>8. T(d) \in State /\ session[d] \in Session
  BY DEF Inv, TypeInv, Types, T, Session
<1> QED BY <1>1, <1>3, <1>4, <1>5, <1>7, <1>8

LEMMA SecretLength ==
  ASSUME NEW z, NEW x, NEW y, NEW ik, NEW ek
  PROVE  Len(GetSharedSecret(TRUE, z, x, y, ik, ek, ek)) = 4
  BY DEF GetSharedSecret

LEMMA HeardReads ==
  ASSUME Inv, NEW d \in Device, NEW m \in Genuine(d), Heard(d, m)
  PROVE  Reads(d, m)
<1> DEFINE p == Peer(d)
           s == session[d]
           t == T(d)
           skp == skipped[d]
           new == NewKey(d)
           s1 == session'[d]
           t1 == T(d)'
           skp1 == skipped'[d]
<1>1. /\ p \in Device /\ Peer(p) = d /\ m \in Incoming /\ SentBy(p, m)
      /\ m.dh \in Ephemeral(p) /\ m.dh # Zero /\ s \in Session /\ t \in State
  BY GenuineSent
<1>2. /\ TypeInv /\ Unstarted(d) /\ Chains(d) /\ Waiting(d) /\ Keeping(d)
  BY DEF Inv, Talk
<1>3. skp \in SUBSET SkippedKeys /\ store[d] \in Store /\ new \in PubKey
      /\ Pub(d, "ik", store[d].identity) = OwnKey(d)
  <2>1. new \in PubKey
    BY <1>2 DEF NewKey, PubKey, TypeInv, Types
  <2>2. Pub(d, "ik", store[d].identity) = OwnKey(d)
    BY <1>2, OwnKeyIs DEF TypeInv, Stores
  <2> QED BY <1>2, <2>1, <2>2 DEF TypeInv, Types, Stores
<1>4. /\ Received0(d, s, store[d], skp, m, new, s1, skp1)
      /\ fresh'[d] = IF T(d)'.dhs = new THEN fresh[d] + 1 ELSE fresh[d]
      /\ accepted'[d] = accepted[d] \cup {m.body}
      /\ replayed'[d] = IF m.body \in accepted[d] THEN replayed[d] \cup {m.body} ELSE replayed[d]
      /\ sent' = sent
  BY DEF Heard
<1>5. PICK s0 \in Session :
        /\ SessionOf(d, s, store[d], m, s0)
        /\ s0.identity = OwnKey(d)
        /\ Opens(s0, skp, m, new, s1, skp1)
  BY <1>3, <1>4 DEF Received0
<1> DEFINE t0 == s0.state
<1>6. /\ t0 \in State /\ t0.nr = t.nr /\ t0.dhr = t.dhr /\ t0.ckr = t.ckr
      /\ t0.ns = t.ns /\ t0.pn = t.pn /\ s0.init = s.init
      /\ Started(d) => t0 = t /\ s0.identity = s.identity
                       /\ s0.remoteidentity = s.remoteidentity
  BY <1>1, <1>3, <1>5, SessionOfType DEF T, Started, Session
<1>7. /\ s1 = WithState(s0, SESSION_READY, s1.state)
      /\ \/ ByKept(t0, skp, m, t1, skp1)
         \/ InChain(t0, skp, m, t1, skp1)
         \/ InNewChain(t0, skp, m, new, t1, skp1)
  BY <1>5 DEF Opens, T
<1>8. /\ s1.init = SESSION_READY /\ s1.identity = s0.identity
      /\ s1.remoteidentity = s0.remoteidentity /\ s1.usedpk_id = s0.usedpk_id
  <2> DEFINE w == WithState(s0, SESSION_READY, s1.state)
  <2>1. /\ w.init = SESSION_READY /\ w.identity = s0.identity
        /\ w.remoteidentity = s0.remoteidentity /\ w.usedpk_id = s0.usedpk_id
    BY DEF WithState
  <2> QED BY <1>7, <2>1
<1>9. \/ ~Started(d) \/ s.init = SESSION_INIT \/ Established(d)
  BY <1>1 DEF Started, Established, Session, SESSION_UNINIT, SESSION_INIT, SESSION_READY,
              SESSION_HEARTBEAT
<1>10. /\ ~Started(d) => s.init = SESSION_UNINIT /\ s = ZeroSession /\ skp = {} /\ t = ZeroState
       /\ Established(d) => Started(d) /\ s.init # SESSION_INIT
       /\ s.init = SESSION_INIT => Started(d) /\ ~Established(d)
  BY <1>2 DEF Unstarted, ZeroSession, T, Started, Established, SESSION_UNINIT, SESSION_INIT,
              SESSION_READY, SESSION_HEARTBEAT
(* Who it is from, and what becomes of the prekey id.                      *)
<1>11. /\ ~Started(d) => /\ m.isprekey /\ s0 = AcceptedSession(d, s, store[d], m)
       /\ s.init = SESSION_INIT => ~m.isprekey /\ s0 = AnsweredSession(s)
       /\ Established(d) => s0 = s
  BY <1>5, <1>10 DEF SessionOf, Established, SESSION_UNINIT, SESSION_INIT, SESSION_READY,
                     SESSION_HEARTBEAT
<1>12. /\ ~Started(d) => m.isprekey /\ s1.usedpk_id = m.pk_id
       /\ s.init = SESSION_INIT => ~m.isprekey /\ s1.usedpk_id = 0
       /\ Established(d) => s1.usedpk_id = s.usedpk_id
  <2>1. AcceptedSession(d, s, store[d], m).usedpk_id = m.pk_id
    BY DEF AcceptedSession
  <2>2. AnsweredSession(s).usedpk_id = 0
    BY DEF AnsweredSession
  <2> QED BY <1>8, <1>11, <2>1, <2>2
<1>13. s1.identity = OwnKey(d) /\ s1.remoteidentity = OwnKey(p)
  <2>1. CASE Started(d)
    BY <1>2, <1>5, <1>6, <1>8, <2>1 DEF Chains
  <2>2. CASE ~Started(d)
    <3>1. s0.remoteidentity = m.ik
      BY <1>11, <2>2 DEF AcceptedSession
    <3>2. m.ik = OwnKey(p)
      BY <1>1, <1>11, <2>2 DEF SentBy
    <3> QED BY <1>5, <1>8, <3>1, <3>2
  <2> QED BY <2>1, <2>2
(* How it was read.                                                        *)
<1>14. t.dhr \notin Ephemeral(p) \/ Established(d)
  <2>1. ASSUME s.init = SESSION_INIT PROVE t.dhr \notin Ephemeral(p)
    BY <1>2, <2>1 DEF Waiting, SignedKeys, Ephemeral
  <2>2. ASSUME ~Started(d) PROVE t.dhr \notin Ephemeral(p)
    BY <1>10, <2>2, KeysAreNotZero DEF ZeroState
  <2> QED BY <1>9, <2>1, <2>2
<1>15. skp = {} \/ Established(d)
  BY <1>2, <1>9, <1>10 DEF Waiting
<1>16. Loaded(skp, m) = Matching(d, m)
  BY <1>2 DEF Keeping, Loaded, Matching, omemoLoadMessageKey
<1>17. t0.ckr.i = t0.nr
  BY <1>2, <1>6, <1>10 DEF Chains, ZeroState, ZeroChain
<1>18. CASE ByKept(t0, skp, m, t1, skp1)
  <2>1. Established(d) /\ t1 = t
    BY <1>6, <1>10, <1>15, <1>16, <1>18 DEF ByKept, Matching
  <2>2. ReadKept(d, m)
    BY <1>16, <1>18, <2>1 DEF ByKept, ReadKept
  <2> QED BY <1>4, <1>8, <1>12, <1>13, <2>2 DEF Reads
<1>19. CASE InChain(t0, skp, m, t1, skp1)
  <2>1. t0.dhr = m.dh /\ Matching(d, m) = {} /\ Follows(t0, skp, m, t1, skp1)
    BY <1>16, <1>19 DEF InChain
  <2>2. Established(d) /\ t0 = t
    BY <1>1, <1>6, <1>10, <1>14, <2>1
  <2> HIDE DEF t1, skp1, t
  <2>3. /\ t.nr <= m.n /\ m.mk = [root |-> t.ckr.root, i |-> m.n]
        /\ t1 = [dhs |-> t.dhs, dhr |-> t.dhr, rk |-> t.rk, cks |-> t.cks,
                 ckr |-> [root |-> t.ckr.root, i |-> m.n + 1],
                 ns |-> t.ns, nr |-> m.n + 1, pn |-> t.pn]
        /\ skp1 = skp \cup KeysOf(t.dhr, t.ckr.root, t.nr, m.n)
    BY <1>1, <1>17, <2>1, <2>2, FollowsIs
  <2>4. ReadNext(d, m)
    BY <2>1, <2>2, <2>3 DEF ReadNext, t, t1, skp1
  <2> QED BY <1>4, <1>8, <1>12, <1>13, <2>4 DEF Reads, t1, t
<1>20. CASE InNewChain(t0, skp, m, new, t1, skp1)
  <2> DEFINE rk == t0.rk
             dhs == t0.dhs
             rk1 == DeriveRootKey(rk, dhs, m.dh)
             rk2 == DeriveRootKey(rk1, new, m.dh)
             t2 == Ratcheted(t0, m.dh, new)
             kept == skp \cup PassedKeys(t0, m.pn)
  <2>1. t0.dhr # m.dh /\ Matching(d, m) = {} /\ Follows(t2, kept, m, t1, skp1)
    BY <1>16, <1>20 DEF InNewChain
  <2>2. t2 = [dhs |-> new, dhr |-> m.dh, rk |-> rk2, cks |-> [root |-> rk2, i |-> 0],
              ckr |-> [root |-> rk1, i |-> 0], ns |-> 0, nr |-> 0, pn |-> t0.ns]
    BY DEF Ratcheted, FirstChain
  <2>3. m.dh \in PubKey /\ m.pn \in Nat /\ m.n \in Nat
    BY <1>1 DEF Incoming
  <2>4. t2 \in State
    BY <1>3, <1>6, <2>3, RatchetedType
  <2>5. rk \in RootKey /\ dhs \in PubKey
    BY <1>6 DEF State
  <2>6. PassedKeys(t0, m.pn) = KeysOf(t.dhr, t.ckr.root, t.nr, m.pn)
    BY <1>6, <1>17, <2>3, PassedIs
  <2> HIDE DEF t1, skp1, t, t2, rk1, rk2, new, kept
  <2>7. /\ m.mk = [root |-> rk1, i |-> m.n]
        /\ t1 = [dhs |-> new, dhr |-> m.dh, rk |-> rk2, cks |-> [root |-> rk2, i |-> 0],
                 ckr |-> [root |-> rk1, i |-> m.n + 1], ns |-> 0, nr |-> m.n + 1, pn |-> t0.ns]
        /\ skp1 = kept \cup KeysOf(m.dh, rk1, 0, m.n)
    <3>1. t2.ckr.i = t2.nr
      BY <2>2
    <3>2. /\ m.mk = [root |-> t2.ckr.root, i |-> m.n]
          /\ t1 = [dhs |-> t2.dhs, dhr |-> t2.dhr, rk |-> t2.rk, cks |-> t2.cks,
                   ckr |-> [root |-> t2.ckr.root, i |-> m.n + 1],
                   ns |-> t2.ns, nr |-> m.n + 1, pn |-> t2.pn]
          /\ skp1 = kept \cup KeysOf(t2.dhr, t2.ckr.root, t2.nr, m.n)
      BY <1>1, <2>1, <2>4, <3>1, FollowsIs
    <3> QED BY <2>2, <3>2
  <2>8. IF Started(d) THEN rk = t.rk /\ dhs = t.dhs ELSE Len(rk) = 4 /\ m.isprekey
    <3>1. CASE Started(d)
      BY <1>6, <3>1
    <3>2. CASE ~Started(d)
      <4> DEFINE spk == FindSignedPreKey(store[d], m.spk_id)
                 pk == FindPreKey(store[d], m.pk_id)
      <4>1. Findable(store[d], m) /\ m.isprekey
        BY <1>5, <1>10, <1>12, <3>2 DEF SessionOf, SESSION_UNINIT, SESSION_READY,
                                        SESSION_HEARTBEAT, SESSION_INIT
      <4>2. spk.kp \in Key /\ pk.kp \in Key
        BY <1>3, <4>1, FoundType DEF Findable, PreKey
      <4>3. Pub(d, "spk", spk.kp) \in PubKey /\ Pub(d, "pk", pk.kp) \in PubKey
        BY <4>2, PubType DEF KeyKind
      <4>4. OwnKey(d) \in PubKey /\ m.ik \in PubKey /\ m.ek \in PubKey
        BY <1>1 DEF OwnKey, PubKey, Incoming
      <4>5. rk = GetSharedSecret(TRUE, OwnKey(d), Pub(d, "spk", spk.kp),
                                 Pub(d, "pk", pk.kp), m.ik, m.ek, m.ek)
        <5>1. s0 = AcceptedSession(d, s, store[d], m)
          BY <1>11, <3>2
        <5> QED BY <1>3, <5>1 DEF AcceptedSession
      <4>6. Len(rk) = 4
        BY <4>5, SecretLength
      <4> HIDE DEF rk
      <4> QED BY <3>2, <4>1, <4>6 DEF rk
    <3> QED BY <3>1, <3>2
  <2>9. ReadNew(d, m, rk, dhs)
    <3>1. skp1 = skp \cup KeysOf(t.dhr, t.ckr.root, t.nr, m.pn) \cup KeysOf(m.dh, rk1, 0, m.n)
      BY <2>6, <2>7 DEF kept
    <3>2. t.dhr # m.dh /\ t0.ns = t.ns
      BY <1>6, <2>1
    <3> HIDE DEF rk, dhs
    <3> QED BY <2>1, <2>5, <2>7, <2>8, <3>1, <3>2 DEF ReadNew, t, t1, skp1, rk1, rk2, new
  <2>10. \E rk0 \in RootKey, dhs0 \in PubKey : ReadNew(d, m, rk0, dhs0)
    BY <2>5, <2>9
  <2> QED BY <1>4, <1>8, <1>12, <1>13, <2>10 DEF Reads, t1, t, new
<1> QED BY <1>7, <1>18, <1>19, <1>20

----------------------------------------------------------------------------
(* Every step keeps the invariant.                                         *)

Quiet(d) ==
  /\ T(d)' = T(d) /\ session'[d].identity = session[d].identity
  /\ session'[d].remoteidentity = session[d].remoteidentity
  /\ session'[d].usedpk_id = session[d].usedpk_id
  /\ \/ session'[d].init = session[d].init
     \/ /\ session[d].init = SESSION_HEARTBEAT /\ T(d).nr < HeartbeatAt
        /\ session'[d].init = SESSION_READY
  /\ ~Started(d) => session'[d] = session[d]
  /\ UNCHANGED <<skipped, sent, accepted, replayed>>

SpokeOnce(d) == \E hb \in BOOLEAN : Spoke(d, hb)

ReadsOne(d) == \E m \in Genuine(d) : Reads(d, m)

LEMMA StepFacts ==
  ASSUME Inv, NEW d \in Device, Acts(d)
  PROVE  /\ Quiet(d) \/ Begun(d) \/ SpokeOnce(d) \/ ReadsOne(d)
         /\ Made(d) \subseteq Made(d)' /\ NewKey(d) \notin Made(d)
         /\ fresh'[d] = fresh[d] + 1 => NewKey(d) \in Made(d)'
         /\ Genuine(d)' = Genuine(d) /\ Genuine(Peer(d)) \subseteq Genuine(Peer(d))'
<1>1. TypeInv /\ Updates(d) /\ session[d] \in Session /\ fresh[d] \in Nat
      /\ Peer(d) \in Device /\ Peer(d) # d /\ Peer(Peer(d)) = d
  BY TwoDevices DEF Inv, TypeInv, Types, Acts
<1>2. ASSUME Silent(d) PROVE Quiet(d)
  BY <1>2 DEF Silent, Quiet, T
<1>3. ASSUME Settled(d) PROVE Quiet(d)
  <2> DEFINE w == WithState(session[d], SESSION_READY, T(d))
  <2>1. /\ w.init = SESSION_READY /\ w.state = T(d) /\ w.identity = session[d].identity
        /\ w.remoteidentity = session[d].remoteidentity
        /\ w.usedpk_id = session[d].usedpk_id
    BY DEF WithState
  <2>2. session'[d] = w /\ session[d].init = SESSION_HEARTBEAT /\ T(d).nr < HeartbeatAt
        /\ UNCHANGED <<skipped, fresh, sent, accepted, replayed>>
    BY <1>3 DEF Settled
  <2>3. Started(d)
    BY <2>2 DEF Started, SESSION_HEARTBEAT, SESSION_UNINIT
  <2> HIDE DEF w
  <2>4. T(d)' = w.state
    BY <2>2 DEF T
  <2> QED BY <2>1, <2>2, <2>3, <2>4 DEF Quiet
<1>4. Quiet(d) \/ Begun(d) \/ SpokeOnce(d) \/ ReadsOne(d)
  BY <1>2, <1>3, HeardReads DEF Acts, SpokeOnce, ReadsOne
<1>5. fresh'[d] \in {fresh[d], fresh[d] + 1}
  BY <1>1 DEF Acts, Silent, Settled, Begun, Spoke, Heard
<1>6. Made(d) \subseteq Made(d)' /\ NewKey(d) \notin Made(d)
      /\ (fresh'[d] = fresh[d] + 1 => NewKey(d) \in Made(d)')
  BY <1>1, <1>5 DEF Made, NewKey
<1>7. sent'[Peer(d)] = sent[Peer(d)]
  BY <1>1, OtherKept
<1>8. sent[d] \subseteq sent'[d]
  BY DEF Acts, Silent, Settled, Begun, Spoke, Heard
<1>9. Genuine(d)' = Genuine(d) /\ Genuine(Peer(d)) \subseteq Genuine(Peer(d))'
  BY <1>1, <1>7, <1>8 DEF Genuine
<1> QED BY <1>4, <1>6, <1>9

(* The other device: only what it can be handed grows.                     *)
LEMMA OtherTalk ==
  ASSUME Inv, NEW x \in Device, Acts(x), NEW d \in Device, d # x
  PROVE  /\ (Unstarted(d) /\ Chains(d) /\ Sending(d) /\ Waiting(d))'
         /\ (Receiving(d) /\ Keeping(d) /\ Accepting(d))'
<1>1. /\ session'[d] = session[d] /\ skipped'[d] = skipped[d] /\ fresh'[d] = fresh[d]
      /\ sent'[d] = sent[d] /\ accepted'[d] = accepted[d] /\ replayed'[d] = replayed[d]
  BY OtherKept DEF Acts, Inv
<1>2. Genuine(d) \subseteq Genuine(d)'
  BY StepFacts, TwoDevices
<1>3. Talk(d)
  BY DEF Inv
<1>4. T(d)' = T(d) /\ Started(d)' = Started(d) /\ Established(d)' = Established(d)
      /\ Made(d)' = Made(d) /\ Leads(d)' = Leads(d)
  BY <1>1 DEF T, Started, Established, Made, Leads
<1>5. Unstarted(d)' /\ Chains(d)' /\ Waiting(d)'
  BY <1>1, <1>3, <1>4 DEF Talk, Unstarted, Chains, Waiting
<1>6. Sending(d)'
  <2>1. \A m : SentBy(d, m) => SentBy(d, m)'
    BY <1>1, <1>4 DEF SentBy
  <2> QED BY <1>1, <1>3, <2>1 DEF Talk, Sending
<1>7. Receiving(d)'
  BY <1>2, <1>3, <1>4 DEF Talk, Receiving
<1>8. Keeping(d)'
  BY <1>1, <1>2, <1>3, <1>4 DEF Talk, Keeping
<1>9. Accepting(d)'
  BY <1>1, <1>2, <1>3, <1>4 DEF Talk, Accepting
<1> QED BY <1>5, <1>6, <1>7, <1>8, <1>9

LEMMA FirstKept ==
  ASSUME NEW X, NEW q \in Seq(X), NEW e \in X, NEW r, r = Append(q, e), Len(q) = 4
  PROVE  r[1] = q[1]
  BY SMT

LEMMA OneLonger ==
  ASSUME NEW X, NEW q \in Seq(X), NEW e \in X
  PROVE  Len(Append(q, e)) = Len(q) + 1
  BY SMT

(* The first root of a session set up from a bundle.                       *)
LEMMA FirstRootIs ==
  ASSUME NEW d \in Device, NEW b, NEW eka
  PROVE  Len(FirstRoot(d, b, eka)) = 5
         /\ FirstRoot(d, b, eka)[1] = DH(OwnKey(d), b.spk)
<1> DEFINE ik == OwnKey(d)
           s1 == DH(ik, b.spk)
           s2 == DH(eka, b.ik)
           s3 == DH(eka, b.spk)
           s4 == DH(eka, b.pk)
<1>1. BundleSecret(OwnKey(d), b, eka) = <<s1, s2, s3, s4>>
  BY DEF BundleSecret, GetSharedSecret
<1> DEFINE s5 == DH(eka, b.spk)
<1> DEFINE sk == <<s1, s2, s3, s4>>
<1>2. FirstRoot(d, b, eka) = Append(sk, s5)
  BY <1>1 DEF FirstRoot, DeriveRootKey
<1> HIDE DEF s1, s2, s3, s4, s5
<1> DEFINE S == {s1, s2, s3, s4, s5}
<1>3. sk \in Seq(S) /\ s5 \in S /\ Len(sk) = 4 /\ sk[1] = s1
  OBVIOUS
<1> HIDE DEF sk, S
<1>5. Len(FirstRoot(d, b, eka)) = 5 /\ FirstRoot(d, b, eka)[1] = s1
  <2> DEFINE r == FirstRoot(d, b, eka)
  <2>1. r = Append(sk, s5)
    BY <1>2
  <2>3. Len(Append(sk, s5)) = Len(sk) + 1
    BY <1>3, OneLonger
  <2> HIDE DEF r
  <2>2. Len(r) = 5 /\ r[1] = sk[1]
    BY <1>3, <2>1, <2>3, FirstKept
  <2> QED BY <1>3, <2>2 DEF r
<1> QED BY <1>5 DEF s1

(* What a new chain starts from.                                           *)
StartsChain(d, m, rk, rk1) ==
  /\ Len(rk) >= 4 /\ Len(rk) \in Nat /\ Len(rk1) = Len(rk) + 1
  /\ Len(T(d)'.rk) = Len(rk) + 2
  /\ T(d)'.ckr = [root |-> rk1, i |-> m.n + 1] /\ m.mk = [root |-> rk1, i |-> m.n]
  /\ rk1 \in RootKey /\ T(d)'.rk \in RootKey
  /\ T(d)'.dhs = NewKey(d) /\ T(d)'.dhr = m.dh /\ T(d)'.nr = m.n + 1
  /\ T(d)'.cks = [root |-> T(d)'.rk, i |-> 0] /\ T(d)'.ns = 0 /\ T(d)'.pn = T(d).ns
  /\ Started(d) => rk = T(d).rk /\ Len(rk) >= 5
  /\ ~Started(d) => Len(rk) = 4 /\ m.isprekey
  /\ fresh'[d] = fresh[d] + 1

LEMMA NewRoots ==
  ASSUME Inv, NEW d \in Device, NEW m \in Genuine(d), NEW rk \in RootKey, NEW dhs \in PubKey,
         Reads(d, m), ReadNew(d, m, rk, dhs)
  PROVE  StartsChain(d, m, rk, DeriveRootKey(rk, dhs, m.dh))
<1> DEFINE rk1 == DeriveRootKey(rk, dhs, m.dh)
           rk2 == DeriveRootKey(rk1, NewKey(d), m.dh)
<1>1. m.dh \in PubKey /\ NewKey(d) \in PubKey
  <2>1. m \in Message
    BY GenuineSent
  <2> QED BY <2>1 DEF Inv, TypeInv, Types, NewKey, PubKey, Message
<1>2. rk1 \in RootKey /\ Len(rk1) = Len(rk) + 1
  BY <1>1, DeriveType
<1> HIDE DEF rk1
<1>3. rk2 \in RootKey /\ Len(rk2) = Len(rk1) + 1
  <2>1. NewKey(d) \in PubKey
    BY <1>1
  <2> HIDE DEF NewKey
  <2> QED BY <1>1, <1>2, <2>1, DeriveType
<1> HIDE DEF rk2
<1>4. Len(rk) \in Nat
  BY RootLength
<1>5. Started(d) => Len(T(d).rk) >= 5
  BY DEF Inv, Talk, Chains
<1>6. /\ m.mk = [root |-> rk1, i |-> m.n]
      /\ T(d)' = [dhs |-> NewKey(d), dhr |-> m.dh, rk |-> rk2,
                 cks |-> [root |-> rk2, i |-> 0], ckr |-> [root |-> rk1, i |-> m.n + 1],
                 ns |-> 0, nr |-> m.n + 1, pn |-> T(d).ns]
      /\ IF Started(d) THEN rk = T(d).rk /\ dhs = T(d).dhs ELSE Len(rk) = 4 /\ m.isprekey
  BY DEF ReadNew, rk1, rk2
<1>7. /\ T(d)'.ckr = [root |-> rk1, i |-> m.n + 1] /\ T(d)'.rk = rk2
      /\ T(d)'.dhs = NewKey(d) /\ T(d)'.dhr = m.dh /\ T(d)'.nr = m.n + 1
      /\ T(d)'.cks = [root |-> rk2, i |-> 0] /\ T(d)'.ns = 0 /\ T(d)'.pn = T(d).ns
  BY <1>6
<1>8. fresh'[d] = fresh[d] + 1
  BY <1>7 DEF Reads
<1>9. /\ Len(rk) >= 4 /\ Len(rk) \in Nat /\ Len(T(d)'.rk) = Len(rk) + 2
      /\ Started(d) => Len(rk) >= 5
  <2>1. /\ T(d)'.rk = rk2 /\ Len(rk2) = Len(rk) + 2
    BY <1>2, <1>3, <1>4, <1>7
  <2>2. Len(rk) >= 4 /\ (Started(d) => Len(rk) >= 5)
    <3>1. CASE Started(d)
      <4>1. rk = T(d).rk /\ Len(T(d).rk) >= 5
        BY <1>5, <1>6, <3>1
      <4> QED BY <1>4, <4>1
    <3>2. CASE ~Started(d)
      <4>1. Len(rk) = 4
        BY <1>6, <3>2
      <4> QED BY <3>2, <4>1
    <3> QED BY <3>1, <3>2
  <2> QED BY <1>4, <2>1, <2>2
<1>10. StartsChain(d, m, rk, rk1)
  BY <1>2, <1>3, <1>6, <1>7, <1>8, <1>9 DEF StartsChain
<1> QED BY <1>10 DEF rk1

(* Reading in a chain that is known.                                       *)
LEMMA ReadOldState ==
  ASSUME NEW d \in Device, NEW m, ReadKept(d, m) \/ ReadNext(d, m)
  PROVE  /\ Established(d) /\ T(d)'.dhs = T(d).dhs /\ T(d)'.dhr = T(d).dhr
         /\ T(d)'.rk = T(d).rk /\ T(d)'.cks = T(d).cks /\ T(d)'.ns = T(d).ns
         /\ T(d)'.pn = T(d).pn /\ T(d)'.ckr.root = T(d).ckr.root
<1>1. CASE ReadKept(d, m)
  BY <1>1 DEF ReadKept
<1>2. CASE ReadNext(d, m)
  BY <1>2 DEF ReadNext
<1> QED BY <1>1, <1>2

(* What a call leaves behind.                                              *)
LEMMA SpokeState ==
  ASSUME Inv, NEW d \in Device, NEW hb \in BOOLEAN, Spoke(d, hb)
  PROVE  /\ T(d)'.dhs = T(d).dhs /\ T(d)'.dhr = T(d).dhr /\ T(d)'.rk = T(d).rk
         /\ T(d)'.cks = [root |-> T(d).cks.root, i |-> T(d).cks.i + 1]
         /\ T(d)'.ckr = T(d).ckr /\ T(d)'.ns = T(d).ns + 1 /\ T(d)'.nr = T(d).nr
         /\ T(d)'.pn = T(d).pn
         /\ session'[d].identity = session[d].identity
         /\ session'[d].remoteidentity = session[d].remoteidentity
         /\ session'[d].usedpk_id = session[d].usedpk_id
         /\ session'[d].init = IF hb THEN SESSION_HEARTBEAT ELSE session[d].init
<1>1. T(d) \in State
  BY DEF Inv, TypeInv, Types, T, Session
<1> DEFINE i == IF hb THEN SESSION_HEARTBEAT ELSE session[d].init
           t == StateAfterSend(T(d))
           w == WithState(session[d], i, t)
<1>2. session'[d] = w
  BY DEF Spoke
<1>3. /\ w.init = i /\ w.state = t /\ w.identity = session[d].identity
      /\ w.remoteidentity = session[d].remoteidentity
      /\ w.usedpk_id = session[d].usedpk_id
  BY DEF WithState
<1>4. /\ t.dhs = T(d).dhs /\ t.dhr = T(d).dhr /\ t.rk = T(d).rk
      /\ t.cks = [root |-> T(d).cks.root, i |-> T(d).cks.i + 1]
      /\ t.ckr = T(d).ckr /\ t.ns = T(d).ns + 1 /\ t.nr = T(d).nr /\ t.pn = T(d).pn
  BY <1>1 DEF StateAfterSend, NextChain, State, ChainKey
<1> HIDE DEF w, t
<1>5. T(d)' = t
  BY <1>2, <1>3 DEF T
<1> QED BY <1>2, <1>3, <1>4, <1>5

LEMMA BegunState ==
  ASSUME Inv, NEW d \in Device, Begun(d)
  PROVE  /\ session[d] = ZeroSession /\ skipped'[d] = {} /\ sent'[d] = {}
         /\ accepted'[d] = {} /\ replayed'[d] = {} /\ fresh'[d] = fresh[d] + 1
         /\ session'[d].init = SESSION_INIT
         /\ session'[d].identity = OwnKey(d) /\ session'[d].remoteidentity = OwnKey(Peer(d))
         /\ T(d)'.dhs = NewKey(d) /\ T(d)'.cks = [root |-> T(d)'.rk, i |-> 0]
         /\ T(d)'.ckr = [root |-> Zero, i |-> 0]
         /\ T(d)'.ns = 0 /\ T(d)'.nr = 0 /\ T(d)'.pn = 0
         /\ Len(T(d)'.rk) = 5
         /\ \E spk \in SignedKeys(Peer(d)) :
              T(d)'.rk[1] = DH(OwnKey(d), spk) /\ T(d)'.dhr = spk
<1>1. ~Started(d) /\ Unstarted(d) /\ Accepting(d)
  BY DEF Inv, Talk, Begun
<1>2. /\ session[d] = ZeroSession /\ skipped'[d] = {} /\ sent'[d] = {}
      /\ accepted'[d] = {} /\ replayed'[d] = {} /\ fresh'[d] = fresh[d] + 1
  BY <1>1 DEF Unstarted, Accepting, Begun
<1>3. PICK b \in offered[Peer(d)] : /\ Zero \notin {b.spk, b.pk}
                                   /\ session'[d] = FirstSession(d, b, NewKey(d))
  BY DEF Begun
<1>4. Announces(Peer(d), b)
  BY TwoDevices DEF Inv, TypeInv, Stores
<1>5. b.ik = OwnKey(Peer(d)) /\ b.spk \in SignedKeys(Peer(d))
  BY <1>3, <1>4 DEF Announces, SignedKeys
<1> DEFINE rk == FirstRoot(d, b, NewKey(d))
           t == FirstState(NewKey(d), b, rk)
           s == FirstSession(d, b, NewKey(d))
<1>6. Len(rk) = 5 /\ rk[1] = DH(OwnKey(d), b.spk)
  BY FirstRootIs
<1>7. /\ s.init = SESSION_INIT /\ s.identity = OwnKey(d) /\ s.remoteidentity = b.ik
      /\ s.state = t
  BY DEF FirstSession
<1> HIDE DEF s, rk
<1>8. /\ t.dhs = NewKey(d) /\ t.dhr = b.spk /\ t.rk = rk
      /\ t.cks = [root |-> rk, i |-> 0] /\ t.ckr = [root |-> Zero, i |-> 0]
      /\ t.ns = 0 /\ t.nr = 0 /\ t.pn = 0
  BY DEF FirstState
<1> HIDE DEF t
<1>9. T(d)' = t /\ session'[d] = s
  BY <1>3, <1>7 DEF T, s
<1> QED BY <1>2, <1>5, <1>6, <1>7, <1>8, <1>9

(* How far a session is.                                                   *)
LEMMA Phases ==
  ASSUME Inv, NEW d \in Device
  PROVE  /\ Started(d) \in BOOLEAN /\ Established(d) \in BOOLEAN
         /\ ~Started(d) <=> session[d].init = SESSION_UNINIT
         /\ \/ ~Started(d) /\ ~Established(d) /\ session[d].init # SESSION_INIT
            \/ Started(d) /\ ~Established(d) /\ session[d].init = SESSION_INIT
            \/ Started(d) /\ Established(d) /\ session[d].init # SESSION_INIT
<1>1. session[d].init \in SESSION_UNINIT .. SESSION_HEARTBEAT
  BY DEF Inv, TypeInv, Types, Session
<1> QED BY <1>1 DEF Started, Established, SESSION_UNINIT, SESSION_INIT, SESSION_READY,
                    SESSION_HEARTBEAT

LEMMA PhasesKept ==
  ASSUME Inv, NEW d \in Device
  PROVE  /\ Quiet(d) \/ SpokeOnce(d) =>
              /\ Started(d)' <=> Started(d)
              /\ Established(d)' <=> Established(d)
              /\ session'[d].init = SESSION_INIT <=> session[d].init = SESSION_INIT
         /\ Begun(d) => Started(d)' /\ ~Established(d)' /\ ~Started(d)
         /\ ReadsOne(d) => Started(d)' /\ Established(d)' /\ session'[d].init # SESSION_INIT
<1> USE DEF Started, Established, SESSION_UNINIT, SESSION_INIT, SESSION_READY, SESSION_HEARTBEAT
<1>1. ASSUME Quiet(d) PROVE \/ session'[d].init = session[d].init
                            \/ session[d].init = SESSION_HEARTBEAT
                               /\ session'[d].init = SESSION_READY
  BY <1>1 DEF Quiet
<1>2. ASSUME NEW hb \in BOOLEAN, Spoke(d, hb)
      PROVE  \/ session'[d].init = session[d].init /\ Started(d)
             \/ session[d].init = SESSION_READY /\ session'[d].init = SESSION_HEARTBEAT
  BY <1>2, SpokeState DEF Spoke
<1>3. ASSUME Begun(d) PROVE session'[d].init = SESSION_INIT /\ ~Started(d)
  BY <1>3, BegunState DEF Begun
<1>4. ASSUME ReadsOne(d) PROVE session'[d].init = SESSION_READY
  BY <1>4 DEF ReadsOne, Reads
<1> QED BY <1>1, <1>2, <1>3, <1>4 DEF SpokeOnce

LEMMA UnstartedKept ==
  ASSUME Inv, NEW d \in Device, Acts(d)
  PROVE  Unstarted(d)'
<1>1. CASE Quiet(d)
  <2>1. Unstarted(d)
    BY DEF Inv, Talk
  <2>2. (Started(d)' <=> Started(d)) /\ UNCHANGED <<skipped, sent, accepted>>
        /\ (~Started(d) => session'[d] = session[d])
    BY <1>1, PhasesKept DEF Quiet
  <2> QED BY <2>1, <2>2 DEF Unstarted
<1>2. CASE SpokeOnce(d)
  <2>1. Started(d)
    BY <1>2 DEF SpokeOnce, Spoke
  <2> QED BY <1>2, <2>1, PhasesKept DEF Unstarted
<1>3. CASE Begun(d) \/ ReadsOne(d)
  BY <1>3, PhasesKept DEF Unstarted
<1> QED BY <1>1, <1>2, <1>3, StepFacts

LEMMA ChainsKept ==
  ASSUME Inv, NEW d \in Device, Acts(d)
  PROVE  Chains(d)'
<1>1. Chains(d) /\ Made(d) \subseteq Made(d)'
      /\ (fresh'[d] = fresh[d] + 1 => NewKey(d) \in Made(d)')
  BY StepFacts DEF Inv, Talk
<1>2. T(d) \in State
  BY DEF Inv, TypeInv, Types, T, Session
<1>3. CASE Quiet(d)
  <2>1. /\ Started(d)' <=> Started(d)
        /\ T(d)' = T(d) /\ session'[d].identity = session[d].identity
        /\ session'[d].remoteidentity = session[d].remoteidentity
    BY <1>3, PhasesKept DEF Quiet
  <2> QED BY <1>1, <2>1 DEF Chains
<1>4. CASE Begun(d)
  <2>1. Len(Zero) = 0
    BY ZeroTypes
  <2>2. /\ T(d)'.cks = [root |-> T(d)'.rk, i |-> 0] /\ T(d)'.ns = 0
        /\ T(d)'.ckr = [root |-> Zero, i |-> 0] /\ T(d)'.nr = 0
        /\ Len(T(d)'.rk) = 5 /\ T(d)'.dhs \in Made(d)'
        /\ session'[d].identity = OwnKey(d) /\ session'[d].remoteidentity = OwnKey(Peer(d))
    BY <1>1, <1>4, BegunState
  <2> QED BY <2>1, <2>2 DEF Chains
<1>5. ASSUME NEW hb \in BOOLEAN, Spoke(d, hb) PROVE Chains(d)'
  <2>1. Started(d)
    BY <1>5 DEF Spoke
  <2>2. T(d).cks.root = T(d).rk /\ T(d).cks.i = T(d).ns
    BY <1>1, <2>1 DEF Chains
  <2>3. T(d)'.cks = [root |-> T(d)'.rk, i |-> T(d)'.ns]
    BY <1>5, <2>2, SpokeState
  <2> QED BY <1>1, <1>5, <2>1, <2>3, SpokeState DEF Chains
<1>6. ASSUME NEW m \in Genuine(d), Reads(d, m) PROVE Chains(d)'
  <2>1. /\ session'[d].identity = OwnKey(d) /\ session'[d].remoteidentity = OwnKey(Peer(d))
    BY <1>6 DEF Reads
  <2>2. CASE ReadKept(d, m) \/ ReadNext(d, m)
    <3>1. /\ T(d)'.cks = [root |-> T(d).rk, i |-> T(d).ns] /\ T(d)'.rk = T(d).rk
          /\ T(d)'.ns = T(d).ns /\ T(d)'.ckr.root = T(d).ckr.root
          /\ Len(T(d).rk) >= 5 /\ Len(T(d).ckr.root) < Len(T(d).rk)
          /\ T(d)'.dhs \in Made(d)'
      BY <1>1, <2>2, ReadOldState, Phases DEF Chains
    <3>2. T(d)'.ckr.i = T(d)'.nr
      <4>1. CASE ReadKept(d, m)
        BY <1>1, <4>1, Phases DEF ReadKept, Chains
      <4>2. CASE ReadNext(d, m)
        BY <4>2 DEF ReadNext
      <4> QED BY <2>2, <4>1, <4>2
    <3> QED BY <2>1, <3>1, <3>2 DEF Chains
  <2>3. ASSUME NEW rk \in RootKey, NEW dhs \in PubKey, ReadNew(d, m, rk, dhs)
        PROVE  Chains(d)'
    <3> DEFINE rk1 == DeriveRootKey(rk, dhs, m.dh)
    <3>1. StartsChain(d, m, rk, rk1)
      BY <1>6, <2>3, NewRoots
    <3> HIDE DEF rk1
    <3> QED BY <1>1, <2>1, <3>1 DEF Chains, StartsChain
  <2> QED BY <1>6, <2>2, <2>3 DEF Reads
<1> QED BY <1>3, <1>4, <1>5, <1>6, StepFacts DEF SpokeOnce, ReadsOne

LEMMA WaitingKept ==
  ASSUME Inv, NEW d \in Device, Acts(d)
  PROVE  Waiting(d)'
<1>1. Waiting(d)
  BY DEF Inv, Talk
<1>2. CASE Quiet(d)
  <2>1. T(d)' = T(d) /\ UNCHANGED <<skipped, sent, accepted>>
        /\ (session'[d].init = SESSION_INIT <=> session[d].init = SESSION_INIT)
    BY <1>2, PhasesKept DEF Quiet
  <2> QED BY <1>1, <2>1 DEF Waiting
<1>3. CASE Begun(d)
  BY <1>3, BegunState DEF Waiting
<1>4. ASSUME NEW hb \in BOOLEAN, Spoke(d, hb) PROVE Waiting(d)'
  <2>1. SUFFICES ASSUME session'[d].init = SESSION_INIT PROVE Waiting(d)'
    BY DEF Waiting
  <2>2. session[d].init = SESSION_INIT
    BY <1>4, <2>1, PhasesKept DEF SpokeOnce
  <2>3. T(d)'.rk = T(d).rk /\ T(d)'.dhr = T(d).dhr /\ T(d)'.pn = T(d).pn
        /\ T(d)'.nr = T(d).nr /\ T(d)'.ckr = T(d).ckr
    BY <1>4, SpokeState
  <2> DEFINE e == [m |-> NextMessage(session[d], Body(d)), hb |-> hb]
  <2>4. sent'[d] = sent[d] \cup {e} /\ UNCHANGED <<skipped, accepted>>
    BY <1>4 DEF Spoke
  <2>5. e.m.isprekey /\ e.m.mk.root = T(d).rk
    <3>1. e.m.isprekey /\ e.m.mk = T(d).cks
      BY <2>2 DEF NextMessage, T
    <3>2. T(d).cks = [root |-> T(d).rk, i |-> T(d).ns]
      BY <1>4 DEF Spoke, Inv, Talk, Chains
    <3> QED BY <3>1, <3>2
  <2> HIDE DEF e
  <2> QED BY <1>1, <2>2, <2>3, <2>4, <2>5 DEF Waiting
<1>5. CASE ReadsOne(d)
  BY <1>5, PhasesKept DEF Waiting
<1> QED BY <1>2, <1>3, <1>4, <1>5, StepFacts DEF SpokeOnce

LEMMA Parity ==
  /\ \A n \in Nat : (n + 2) % 2 = n % 2
  /\ 4 % 2 = 0 /\ 5 % 2 = 1 /\ 6 % 2 = 0
  OBVIOUS

(* A message stays one that its sender sent before.                        *)
LEMMA SentByKept ==
  ASSUME Inv, NEW d \in Device, Acts(d), NEW m, SentBy(d, m),
         T(d)'.rk = T(d).rk, T(d)'.dhs = T(d).dhs, T(d)'.ns >= T(d).ns, T(d)'.ns \in Nat,
         T(d)'.pn = T(d).pn, Established(d) => Established(d)', m.n \in Nat,
         sent[d] \subseteq sent'[d], IsFiniteSet(sent'[d])
  PROVE  SentBy(d, m)'
<1>1. T(d).ns \in Nat
  BY DEF Inv, TypeInv, Types, T, Session, State
<1>2. Cardinality(sent[d]) \in Nat /\ Cardinality(sent'[d]) \in Nat
      /\ Cardinality(sent[d]) <= Cardinality(sent'[d])
  <2>1. IsFiniteSet(sent[d])
    BY DEF Inv, TypeInv, Types
  <2>2. Cardinality(sent[d]) <= Cardinality(sent'[d])
    BY FS_Subset
  <2> QED BY <2>1, <2>2, FS_CardinalityType
<1>3. Made(d) \subseteq Made(d)'
  BY StepFacts
<1>4. m.body \in 1..Cardinality(sent'[d])
  BY <1>2 DEF SentBy
<1>5. Leads(d)' <=> Leads(d)
  BY DEF Leads
<1>6. m.dh = T(d)'.dhs => m.n < T(d)'.ns
  BY <1>1 DEF SentBy
<1> QED BY <1>3, <1>4, <1>5, <1>6 DEF SentBy

LEMMA SendingKept ==
  ASSUME Inv, NEW d \in Device, Acts(d), Types'
  PROVE  Sending(d)'
<1>1. Sending(d) /\ Chains(d) /\ Waiting(d) /\ Unstarted(d)
  BY DEF Inv, Talk
<1>2. /\ sent[d] \subseteq Entry /\ IsFiniteSet(sent[d]) /\ IsFiniteSet(sent'[d])
      /\ T(d) \in State /\ T(d)' \in State
  BY DEF Inv, TypeInv, Types, T, Session
<1>3. \A e \in sent[d] : SentBy(d, e.m) /\ e.m.n \in Nat /\ e.m \in Message
  BY <1>1, <1>2 DEF Sending, Entry, Message
<1>4. T(d).ns \in Nat /\ T(d)'.ns \in Nat
  BY <1>2 DEF State
<1>5. ASSUME T(d)'.rk = T(d).rk, T(d)'.dhs = T(d).dhs, T(d)'.ns = T(d).ns,
             T(d)'.pn = T(d).pn, Established(d) => Established(d)', sent'[d] = sent[d]
      PROVE  Sending(d)'
  <2>1. \A e \in sent[d] : SentBy(d, e.m)'
    BY <1>2, <1>3, <1>4, <1>5, SentByKept
  <2> QED BY <1>1, <1>5, <2>1 DEF Sending
<1>6. CASE Quiet(d)
  BY <1>5, <1>6, PhasesKept DEF Quiet
<1>7. CASE Begun(d)
  BY <1>7, BegunState DEF Sending
<1>8. ASSUME NEW hb \in BOOLEAN, Spoke(d, hb) PROVE Sending(d)'
  <2>0. PICK new : new = NextMessage(session[d], Body(d))
    OBVIOUS
  <2>a. PICK e : e = [m |-> new, hb |-> hb]
    OBVIOUS
  <2>1. sent'[d] = sent[d] \cup {e} /\ Started(d)
    BY <1>8, <2>0, <2>a DEF Spoke
  <2>2. /\ new.body = Body(d) /\ new.n = T(d).ns /\ new.pn = T(d).pn /\ new.dh = T(d).dhs
        /\ new.mk = T(d).cks /\ new.ad = <<session[d].identity, session[d].remoteidentity>>
        /\ new.isprekey <=> session[d].init = SESSION_INIT
        /\ new.isprekey => new.ik = session[d].identity
    BY <2>0 DEF NextMessage, T
  <2>3. /\ T(d).cks = [root |-> T(d).rk, i |-> T(d).ns] /\ T(d).dhs \in Made(d)
        /\ session[d].identity = OwnKey(d) /\ session[d].remoteidentity = OwnKey(Peer(d))
        /\ Len(T(d).rk) \in Nat
    BY <1>1, <1>2, <2>1, RootLength DEF Chains, State
  <2>4. /\ T(d)'.rk = T(d).rk /\ T(d)'.dhs = T(d).dhs /\ T(d)'.ns = T(d).ns + 1
        /\ T(d)'.pn = T(d).pn
    BY <1>8, SpokeState
  <2>5. Established(d)' <=> Established(d)
    BY <1>8, PhasesKept DEF SpokeOnce
  <2>6. Cardinality(sent[d]) \in Nat /\ Body(d) = Cardinality(sent[d]) + 1
    BY <1>2, FS_CardinalityType DEF Body
  <2>7. \A f \in sent[d] : f.m.dh = new.dh => f.m.mk.root = new.mk.root /\ f.m.mk # new.mk
    <3> SUFFICES ASSUME NEW f \in sent[d], f.m.dh = new.dh
                 PROVE  f.m.mk.root = new.mk.root /\ f.m.mk # new.mk
      OBVIOUS
    <3>1. SentBy(d, f.m) /\ f.m.n \in Nat
      BY <1>3
    <3>2. f.m.mk.root = T(d).rk /\ f.m.n < T(d).ns /\ f.m.mk.i = f.m.n
      BY <2>2, <3>1 DEF SentBy
    <3> QED BY <1>4, <2>2, <2>3, <3>1, <3>2
  <2>8. \A f \in sent[d] : f.m.mk # new.mk /\ f.m.body # new.body
    <3> SUFFICES ASSUME NEW f \in sent[d]
                 PROVE  f.m.mk # new.mk /\ f.m.body # new.body
      OBVIOUS
    <3>1. SentBy(d, f.m)
      BY <1>3
    <3>2. f.m.body # new.body
      BY <2>2, <2>6, <3>1 DEF SentBy
    <3>3. f.m.mk = new.mk => f.m.dh = new.dh
      BY <2>2, <2>3, <3>1 DEF SentBy
    <3> QED BY <2>7, <3>2, <3>3
  <2>9. e \notin sent[d]
    BY <2>8, <2>a
  <2>10. Cardinality(sent'[d]) = Cardinality(sent[d]) + 1
    BY <1>2, <2>1, <2>9, FS_AddElement
  <2>11. SentBy(d, new)'
    <3>1. Made(d) \subseteq Made(d)' /\ (Leads(d)' <=> Leads(d))
      BY <2>4, StepFacts DEF Leads
    <3>2. new.body \in 1..Cardinality(sent'[d])
      BY <2>2, <2>6, <2>10
    <3>3. new.isprekey => Leads(d) /\ new.pn = 0
      <4>1. session[d].init = SESSION_INIT => Len(T(d).rk) = 5 /\ T(d).pn = 0
        BY <1>1 DEF Waiting
      <4> QED BY <2>2, <4>1, Parity DEF Leads
    <3>4. ~new.isprekey => Established(d)
      BY <2>1, <2>2, Phases
    <3>5. new.mk.root = T(d).rk /\ new.mk.i = new.n
      BY <2>2, <2>3
    <3>6. new.n < T(d)'.ns
      BY <1>4, <2>2, <2>4
    <3> QED BY <2>2, <2>3, <2>4, <2>5, <3>1, <3>2, <3>3, <3>4, <3>5, <3>6 DEF SentBy
  <2>12. \A f \in sent[d] : SentBy(d, f.m)'
    <3>1. T(d)'.ns >= T(d).ns
      BY <1>4, <2>4
    <3> QED BY <1>2, <1>3, <1>4, <2>1, <2>4, <2>5, <3>1, SentByKept
  <2>13. e.m = new
    BY <2>a
  <2>14. \A f \in sent'[d] : SentBy(d, f.m)'
    BY <2>1, <2>11, <2>12, <2>13
  <2>15. \A e1, e2 \in sent'[d] :
       /\ e1.m.dh = e2.m.dh => e1.m.mk.root = e2.m.mk.root
       /\ e1.m.mk = e2.m.mk => e1 = e2
       /\ e1.m.body = e2.m.body => e1 = e2
    BY <1>1, <2>1, <2>7, <2>8, <2>13 DEF Sending
  <2> QED BY <2>14, <2>15 DEF Sending
<1>9. ASSUME NEW m \in Genuine(d), Reads(d, m) PROVE Sending(d)'
  <2>1. sent' = sent /\ Established(d)'
    BY <1>9, PhasesKept DEF Reads, ReadsOne
  <2>2. CASE ReadKept(d, m) \/ ReadNext(d, m)
    BY <1>5, <2>1, <2>2, ReadOldState
  <2>3. ASSUME NEW rk \in RootKey, NEW dhs \in PubKey, ReadNew(d, m, rk, dhs)
        PROVE  Sending(d)'
    <3> DEFINE rk1 == DeriveRootKey(rk, dhs, m.dh)
    <3>1. StartsChain(d, m, rk, rk1)
      BY <1>9, <2>3, NewRoots
    <3> HIDE DEF rk1
    <3>2. CASE ~Started(d)
      BY <1>1, <2>1, <3>2 DEF Unstarted, Sending
    <3>3. CASE Started(d)
      <4>1. /\ Len(T(d)'.rk) = Len(T(d).rk) + 2 /\ Len(T(d).rk) \in Nat
            /\ T(d)'.dhs = NewKey(d)
        BY <3>1, <3>3 DEF StartsChain
      <4>2. Made(d) \subseteq Made(d)' /\ NewKey(d) \notin Made(d)
        BY StepFacts
      <4>3. ASSUME NEW f \in sent[d] PROVE SentBy(d, f.m)'
        <5>1. SentBy(d, f.m) /\ f.m.mk.root \in RootKey
          BY <1>3 DEF Message, ChainKey
        <5>2. Len(f.m.mk.root) \in Nat
          BY <5>1, RootLength
        <5>3. Len(f.m.mk.root) <= Len(T(d).rk)
              /\ Len(f.m.mk.root) % 2 = Len(T(d).rk) % 2
          <6>1. \/ f.m.mk.root = T(d).rk
                \/ Len(f.m.mk.root) < Len(T(d).rk)
            BY <5>1 DEF SentBy
          <6>2. Len(f.m.mk.root) % 2 = Len(T(d).rk) % 2
            BY <5>1 DEF SentBy
          <6>3. CASE f.m.mk.root = T(d).rk
            BY <4>1, <6>2, <6>3
          <6>4. CASE Len(f.m.mk.root) < Len(T(d).rk)
            <7>1. Len(f.m.mk.root) <= Len(T(d).rk)
              BY <4>1, <5>2, <6>4
            <7> QED BY <6>2, <7>1
          <6> QED BY <6>1, <6>3, <6>4
        <5>4. Len(f.m.mk.root) < Len(T(d)'.rk) /\ f.m.mk.root # T(d)'.rk
          BY <4>1, <5>2, <5>3
        <5>5. Len(T(d)'.rk) % 2 = Len(T(d).rk) % 2
          BY <4>1, Parity
        <5>6. f.m.dh # T(d)'.dhs
          BY <4>1, <4>2, <5>1 DEF SentBy
        <5>7. f.m.isprekey => Leads(d)'
          BY <5>1, <5>5 DEF SentBy, Leads
        <5> QED BY <2>1, <4>2, <5>1, <5>3, <5>4, <5>5, <5>6, <5>7 DEF SentBy
      <4> QED BY <1>1, <2>1, <4>3 DEF Sending
    <3> QED BY <3>2, <3>3
  <2> QED BY <1>9, <2>2, <2>3 DEF Reads
<1> QED BY <1>6, <1>7, <1>8, <1>9, StepFacts DEF SpokeOnce, ReadsOne

LEMMA ReceivingKept ==
  ASSUME Inv, NEW d \in Device, Acts(d)
  PROVE  Receiving(d)'
<1>1. Receiving(d) /\ Genuine(d)' = Genuine(d)
  BY StepFacts DEF Inv, Talk
<1>2. CASE Quiet(d)
  <2>1. T(d)' = T(d) /\ (Established(d)' <=> Established(d))
    BY <1>2, PhasesKept DEF Quiet
  <2> QED BY <1>1, <2>1 DEF Receiving
<1>3. CASE Begun(d)
  BY <1>3, PhasesKept DEF Receiving
<1>4. CASE SpokeOnce(d)
  <2>1. T(d)'.dhr = T(d).dhr /\ T(d)'.ckr = T(d).ckr /\ T(d)'.nr = T(d).nr
    BY <1>4, SpokeState DEF SpokeOnce
  <2>2. Established(d)' <=> Established(d)
    BY <1>4, PhasesKept
  <2> QED BY <1>1, <2>1, <2>2 DEF Receiving
<1>5. ASSUME NEW m \in Genuine(d), Reads(d, m) PROVE Receiving(d)'
  <2>1. CASE ReadKept(d, m)
    BY <1>1, <2>1 DEF ReadKept, Receiving
  <2>2. CASE ReadNext(d, m)
    <3>1. m.dh = T(d)'.dhr /\ m.mk.root = T(d)'.ckr.root /\ T(d)'.nr = m.n + 1
      BY <2>2 DEF ReadNext
    <3> QED BY <1>1, <3>1 DEF Receiving
  <2>3. ASSUME NEW rk \in RootKey, NEW dhs \in PubKey, ReadNew(d, m, rk, dhs)
        PROVE  Receiving(d)'
    <3>1. StartsChain(d, m, rk, DeriveRootKey(rk, dhs, m.dh))
      BY <1>5, <2>3, NewRoots
    <3>2. m.dh = T(d)'.dhr /\ m.mk.root = T(d)'.ckr.root /\ T(d)'.nr = m.n + 1
      BY <3>1 DEF StartsChain
    <3> QED BY <1>1, <3>2 DEF Receiving
  <2> QED BY <1>5, <2>1, <2>2, <2>3 DEF Reads
<1> QED BY <1>2, <1>3, <1>4, <1>5, StepFacts DEF ReadsOne

(* Who leads, and what a message of the peer says about it.                *)
LEMMA RolesKept ==
  ASSUME Inv, NEW d \in Device, Acts(d)
  PROVE  Roles(d)' /\ Roles(Peer(d))'
<1> DEFINE p == Peer(d)
<1>1. p \in Device /\ p # d /\ Peer(p) = d /\ Roles(d) /\ Roles(p) /\ Waiting(d) /\ Chains(d)
  BY TwoDevices DEF Inv, Talk
<1>2. Started(p)' = Started(p) /\ Established(p)' = Established(p) /\ Leads(p)' = Leads(p)
  BY <1>1, OtherKept DEF Acts, Inv, Started, Established, Leads, T
<1> HIDE DEF p
<1>3. ASSUME Started(d)' <=> Started(d), Established(d)' <=> Established(d),
             Leads(d)' <=> Leads(d)
      PROVE  Roles(d)' /\ Roles(p)'
  <2>1. Roles(d)'
    BY <1>1, <1>2, <1>3 DEF Roles, p
  <2>2. Roles(p)'
    BY <1>1, <1>2, <1>3 DEF Roles, p
  <2> QED BY <2>1, <2>2
<1>4. CASE Quiet(d)
  <2>1. (Started(d)' <=> Started(d)) /\ (Established(d)' <=> Established(d))
    BY <1>4, PhasesKept
  <2>2. Leads(d)' <=> Leads(d)
    <3>1. T(d)'.rk = T(d).rk
      BY <1>4 DEF Quiet
    <3> QED BY <3>1 DEF Leads
  <2> QED BY <1>3, <2>1, <2>2 DEF p
<1>5. CASE SpokeOnce(d)
  <2>1. (Started(d)' <=> Started(d)) /\ (Established(d)' <=> Established(d))
    BY <1>5, PhasesKept
  <2>2. Leads(d)' <=> Leads(d)
    <3>1. T(d)'.rk = T(d).rk
      BY <1>5, SpokeState DEF SpokeOnce
    <3> QED BY <3>1 DEF Leads
  <2> QED BY <1>3, <2>1, <2>2 DEF p
<1>6. CASE Begun(d)
  <2>1. Len(T(d)'.rk) = 5 /\ Started(d)' /\ ~Established(d)' /\ ~Started(d) /\ ~Established(d)
    BY <1>6, BegunState, PhasesKept, Phases
  <2>2. Leads(d)'
    BY <2>1, Parity DEF Leads
  <2> QED BY <1>1, <1>2, <2>1, <2>2 DEF Roles, p
<1>7. ASSUME NEW m \in Genuine(d), Reads(d, m) PROVE Roles(d)' /\ Roles(p)'
  <2>1. Started(d)' /\ Established(d)'
    BY <1>7, PhasesKept DEF ReadsOne
  <2>2. SentBy(p, m)
    BY GenuineSent DEF p
  <2>3. /\ m.isprekey => Leads(p)
        /\ ~m.isprekey => Established(p)
    BY <2>2 DEF SentBy
  <2>4. Started(p)
    <3>1. sent[p] # {} /\ Unstarted(p)
      BY <1>1 DEF Genuine, Inv, Talk, p
    <3> QED BY <3>1 DEF Unstarted
  <2>5. CASE ReadKept(d, m) \/ ReadNext(d, m)
    <3>1. Established(d) /\ T(d)'.rk = T(d).rk
      BY <2>5, ReadOldState
    <3>2. Started(d)
      BY <3>1, Phases
    <3> QED BY <1>3, <2>1, <3>1, <3>2 DEF Leads
  <2>6. ASSUME NEW rk \in RootKey, NEW dhs \in PubKey, ReadNew(d, m, rk, dhs)
        PROVE  Roles(d)' /\ Roles(p)'
    <3>1. StartsChain(d, m, rk, DeriveRootKey(rk, dhs, m.dh))
      BY <1>7, <2>6, NewRoots
    <3>2. CASE ~Started(d)
      <4>1. Len(rk) = 4 /\ m.isprekey
        BY <3>1, <3>2 DEF StartsChain
      <4>2. Len(T(d)'.rk) = Len(rk) + 2
        BY <3>1 DEF StartsChain
      <4>3. ~Leads(d)'
        <5>1. Len(T(d)'.rk) = 4 + 2
          BY <4>1, <4>2
        <5> QED BY <5>1 DEF Leads
      <4>4. Leads(p)
        BY <2>3, <4>1
      <4> QED BY <1>1, <1>2, <2>1, <2>4, <4>3, <4>4 DEF Roles, p
    <3>3. CASE Started(d)
      <4>1. Len(T(d)'.rk) = Len(T(d).rk) + 2 /\ Len(T(d).rk) \in Nat
        BY <3>1, <3>3 DEF StartsChain
      <4>2. Leads(d)' <=> Leads(d)
        BY <4>1, Parity DEF Leads
      <4>3. CASE Established(d)
        BY <1>3, <2>1, <3>3, <4>2, <4>3
      <4>4. CASE session[d].init = SESSION_INIT
        <5>1. Leads(d) /\ ~Established(d) /\ ~m.isprekey
          <6>1. Len(T(d).rk) = 5
            BY <1>1, <4>4 DEF Waiting
          <6> QED BY <1>7, <4>4, <6>1, Parity, Phases DEF Leads, Reads
        <5>2. Established(p) /\ ~Leads(p)
          BY <1>1, <2>3, <5>1 DEF Roles, p
        <5> QED BY <1>1, <1>2, <2>1, <2>4, <4>2, <5>1, <5>2 DEF Roles, p
      <4> QED BY <3>3, <4>3, <4>4, Phases
    <3> QED BY <3>2, <3>3
  <2> QED BY <1>7, <2>5, <2>6 DEF Reads
<1> QED BY <1>4, <1>5, <1>6, <1>7, StepFacts DEF ReadsOne, p

----------------------------------------------------------------------------
(* The keys that are kept, and what was accepted.                          *)

LEMMA KeysOfAre ==
  ASSUME NEW dh, NEW root, NEW first \in Nat, NEW n \in Nat, NEW k \in KeysOf(dh, root, first, n)
  PROVE  /\ Callbacks # "none" /\ k.dh = dh /\ k.mk = [root |-> root, i |-> k.nr]
         /\ k.nr \in Nat /\ first <= k.nr /\ k.nr < n
         /\ k = [dh |-> dh, nr |-> k.nr, mk |-> [root |-> root, i |-> k.nr]]
<1>1. PICK j \in first .. n - 1 : k = [dh |-> dh, nr |-> j, mk |-> [root |-> root, i |-> j]]
  BY DEF KeysOf
<1>2. Callbacks # "none"
  BY DEF KeysOf
<1>3. j \in Nat /\ first <= j /\ j < n
  OBVIOUS
<1> QED BY <1>1, <1>2, <1>3

LEMMA KeysOfDiffer ==
  ASSUME NEW dh, NEW root, NEW first \in Nat, NEW n \in Nat,
         NEW k1 \in KeysOf(dh, root, first, n), NEW k2 \in KeysOf(dh, root, first, n),
         k1.mk = k2.mk
  PROVE  k1 = k2
<1>1. /\ k1.mk = [root |-> root, i |-> k1.nr]
      /\ k1 = [dh |-> dh, nr |-> k1.nr, mk |-> [root |-> root, i |-> k1.nr]]
  BY KeysOfAre
<1>2. /\ k2.mk = [root |-> root, i |-> k2.nr]
      /\ k2 = [dh |-> dh, nr |-> k2.nr, mk |-> [root |-> root, i |-> k2.nr]]
  BY KeysOfAre
<1>3. k1.nr = k2.nr
  <2>1. k1.mk.i = k1.nr
    BY <1>1
  <2>2. k2.mk.i = k2.nr
    BY <1>2
  <2> QED BY <2>1, <2>2
<1> QED BY <1>1, <1>2, <1>3

(* A message that no kept key opens is new, its key is that of no message  *)
(* before it, and the keys kept on the way to it are neither.              *)
NewKeys(d, m, N) ==
  /\ skipped'[d] = skipped[d] \cup N
  /\ \A k \in N :
       /\ Behind(k.mk, T(d)') /\ ~Behind(k.mk, T(d)) /\ k.mk # m.mk /\ k.mk.i = k.nr
       /\ k.dh \in Ephemeral(Peer(d)) =>
            \E g \in Genuine(d) : g.dh = k.dh /\ g.mk.root = k.mk.root
  /\ \A k1, k2 \in N : k1.mk = k2.mk => k1 = k2
  /\ Callbacks = "none" => N = {}
  /\ ~Behind(m.mk, T(d)) /\ Behind(m.mk, T(d)')
  /\ \A mk \in ChainKey : Behind(mk, T(d)) => Behind(mk, T(d)')

Advances(d, m) == \E N : NewKeys(d, m, N)

(* What the receiving chain of a device is, whatever it has done.          *)
LEMMA ReceivingChain ==
  ASSUME Inv, NEW d \in Device
  PROVE  /\ T(d) \in State /\ T(d).ckr.i = T(d).nr /\ T(d).nr \in Nat
         /\ T(d).ckr.root \in RootKey /\ Len(T(d).ckr.root) \in Nat
         /\ Started(d) => Len(T(d).ckr.root) < Len(T(d).rk)
         /\ ~Started(d) => Len(T(d).ckr.root) = 0
         /\ T(d).dhr \in Ephemeral(Peer(d)) =>
              \E g \in Genuine(d) : g.dh = T(d).dhr /\ g.mk.root = T(d).ckr.root
<1>1. Chains(d) /\ Unstarted(d) /\ Waiting(d) /\ Receiving(d)
  BY DEF Inv, Talk
<1>2. T(d) \in State
  BY DEF Inv, TypeInv, Types, T, Session
<1>3. T(d).ckr.root \in RootKey /\ T(d).nr \in Nat
  BY <1>2 DEF State, ChainKey
<1>4. Len(T(d).ckr.root) \in Nat
  BY <1>3, RootLength
<1>5. ~Started(d) => T(d) = ZeroState
  BY <1>1 DEF Unstarted, T, ZeroSession
<1>6. T(d).ckr.i = T(d).nr
  <2>1. CASE Started(d)
    BY <1>1, <2>1 DEF Chains
  <2>2. CASE ~Started(d)
    BY <1>5, <2>2 DEF ZeroState, ZeroChain
  <2> QED BY <2>1, <2>2
<1>7. Started(d) => Len(T(d).ckr.root) < Len(T(d).rk)
  BY <1>1 DEF Chains
<1>8. ~Started(d) => Len(T(d).ckr.root) = 0
  <2>1. ~Started(d) => T(d).ckr.root = Zero
    BY <1>5 DEF ZeroState, ZeroChain
  <2> QED BY <2>1, ZeroTypes
<1>9. T(d).dhr \in Ephemeral(Peer(d)) =>
        \E g \in Genuine(d) : g.dh = T(d).dhr /\ g.mk.root = T(d).ckr.root
  <2>1. CASE ~Started(d)
    BY <1>5, <2>1, KeysAreNotZero DEF ZeroState
  <2>2. CASE session[d].init = SESSION_INIT
    BY <1>1, <2>2 DEF Waiting, SignedKeys, Ephemeral
  <2>3. CASE Established(d)
    BY <1>1, <2>3 DEF Receiving
  <2> QED BY <2>1, <2>2, <2>3, Phases
<1> QED BY <1>2, <1>3, <1>4, <1>6, <1>7, <1>8, <1>9

LEMMA NextAdvances ==
  ASSUME Inv, NEW d \in Device, NEW m \in Genuine(d), Reads(d, m), ReadNext(d, m)
  PROVE  Advances(d, m)
<1> DEFINE root == T(d).ckr.root
           nr == T(d).nr
           N == KeysOf(T(d).dhr, root, nr, m.n)
<1>1. /\ skipped'[d] = skipped[d] \cup N
      /\ m.mk = [root |-> root, i |-> m.n] /\ nr <= m.n
      /\ T(d)'.ckr = [root |-> root, i |-> m.n + 1] /\ T(d).dhr = m.dh
  BY DEF ReadNext
<1>2. m.n \in Nat /\ nr \in Nat /\ T(d).ckr.i = nr /\ root \in RootKey /\ Len(root) \in Nat
  BY ReceivingChain, GenuineSent DEF Incoming
<1>3. \A k \in N : /\ Callbacks # "none" /\ k.dh = m.dh /\ k.mk = [root |-> root, i |-> k.nr]
                   /\ k.nr \in Nat /\ nr <= k.nr /\ k.nr < m.n
  BY <1>1, <1>2, KeysOfAre
<1>7. \A k1, k2 \in N : k1.mk = k2.mk => k1 = k2
  BY <1>2, KeysOfDiffer
<1> HIDE DEF N, nr
<1>4. \A i \in Nat : LET mk == [root |-> root, i |-> i]
                     IN /\ Behind(mk, T(d)) <=> i < nr
                        /\ Behind(mk, T(d)') <=> i < m.n + 1
  <2> SUFFICES ASSUME NEW i \in Nat, NEW mk, mk = [root |-> root, i |-> i]
               PROVE  /\ Behind(mk, T(d)) <=> i < nr
                      /\ Behind(mk, T(d)') <=> i < m.n + 1
    OBVIOUS
  <2>1. T(d)'.ckr.root = root /\ T(d)'.ckr.i = m.n + 1 /\ T(d).ckr.i = nr
    BY <1>1, <1>2
  <2>2. mk.root = root /\ mk.i = i
    OBVIOUS
  <2> QED BY <1>2, <2>1, <2>2 DEF Behind
<1> HIDE DEF root
<1>5. \A k \in N : Behind(k.mk, T(d)') /\ ~Behind(k.mk, T(d)) /\ k.mk # m.mk /\ k.mk.i = k.nr
  <2> SUFFICES ASSUME NEW k \in N
               PROVE  Behind(k.mk, T(d)') /\ ~Behind(k.mk, T(d)) /\ k.mk # m.mk /\ k.mk.i = k.nr
    OBVIOUS
  <2>1. k.nr \in Nat /\ nr <= k.nr /\ k.nr < m.n /\ k.mk = [root |-> root, i |-> k.nr]
    BY <1>3
  <2>2. ~(k.nr < nr) /\ k.nr < m.n + 1 /\ k.nr # m.n
    BY <1>2, <2>1
  <2> QED BY <1>1, <1>4, <2>1, <2>2
<1>6. \A k \in N : \E g \in Genuine(d) : g.dh = k.dh /\ g.mk.root = k.mk.root
  <2>1. m.mk.root = root
    BY <1>1
  <2>2. \A k \in N : k.dh = m.dh /\ k.mk.root = root
    <3> TAKE k \in N
    <3>1. k.dh = m.dh /\ k.mk = [root |-> root, i |-> k.nr]
      BY <1>3
    <3> QED BY <3>1
  <2> QED BY <2>1, <2>2
<1>8. Callbacks = "none" => N = {}
  BY <1>3
<1>9. ~Behind(m.mk, T(d)) /\ Behind(m.mk, T(d)')
  <2>1. ~(m.n < nr) /\ m.n < m.n + 1
    BY <1>1, <1>2
  <2> QED BY <1>1, <1>2, <1>4, <2>1
<1>10. \A mk \in ChainKey : Behind(mk, T(d)) => Behind(mk, T(d)')
  <2> SUFFICES ASSUME NEW mk \in ChainKey, Behind(mk, T(d)) PROVE Behind(mk, T(d)')
    OBVIOUS
  <2>1. T(d)'.ckr.root = root /\ T(d)'.ckr.i = m.n + 1 /\ T(d).ckr.i = nr /\ T(d).ckr.root = root
    BY <1>1, <1>2 DEF root
  <2>2. mk.i \in Nat
    BY DEF ChainKey
  <2>3. nr <= m.n + 1
    BY <1>1, <1>2
  <2> QED BY <1>2, <2>1, <2>2, <2>3 DEF Behind
<1>11. NewKeys(d, m, N)
  BY <1>1, <1>5, <1>6, <1>7, <1>8, <1>9, <1>10 DEF NewKeys
<1> QED BY <1>11 DEF Advances

LEMMA NewAdvances ==
  ASSUME Inv, NEW d \in Device, NEW m \in Genuine(d), Reads(d, m),
         NEW rk \in RootKey, NEW dhs \in PubKey, ReadNew(d, m, rk, dhs)
  PROVE  Advances(d, m)
<1> DEFINE root == T(d).ckr.root
           nr == T(d).nr
           rk1 == DeriveRootKey(rk, dhs, m.dh)
           A == KeysOf(T(d).dhr, root, nr, m.pn)
           B == KeysOf(m.dh, rk1, 0, m.n)
           N == A \cup B
<1>1. skipped'[d] = skipped[d] \cup N
  BY DEF ReadNew
<1>2. StartsChain(d, m, rk, rk1)
  BY NewRoots
<1>3. /\ m.n \in Nat /\ m.pn \in Nat /\ nr \in Nat /\ T(d).ckr.i = nr
      /\ root \in RootKey /\ Len(root) \in Nat /\ 0 \in Nat
      /\ Started(d) => Len(root) < Len(T(d).rk)
      /\ ~Started(d) => Len(root) = 0
      /\ T(d).dhr \in Ephemeral(Peer(d)) =>
              \E g \in Genuine(d) : g.dh = T(d).dhr /\ g.mk.root = root
  BY ReceivingChain, GenuineSent DEF Incoming
<1>4. \A k \in A : /\ Callbacks # "none" /\ k.dh = T(d).dhr
                   /\ k.mk = [root |-> root, i |-> k.nr] /\ k.nr \in Nat /\ nr <= k.nr
  BY <1>3, KeysOfAre
<1> HIDE DEF rk1
<1>5. \A k \in B : /\ Callbacks # "none" /\ k.dh = m.dh
                   /\ k.mk = [root |-> rk1, i |-> k.nr] /\ k.nr \in Nat /\ k.nr < m.n
  BY <1>3, KeysOfAre
<1>6. /\ \A k1, k2 \in A : k1.mk = k2.mk => k1 = k2
      /\ \A k1, k2 \in B : k1.mk = k2.mk => k1 = k2
  BY <1>3, KeysOfDiffer
<1> HIDE DEF A, B, nr, root
<1>7. /\ Len(rk1) \in Nat /\ Len(root) < Len(rk1) /\ root # rk1
  <2>1. Len(rk) >= 4 /\ Len(rk) \in Nat /\ Len(rk1) = Len(rk) + 1
    BY <1>2 DEF StartsChain
  <2>2. CASE Started(d)
    <3>1. rk = T(d).rk /\ Len(root) < Len(T(d).rk)
      BY <1>2, <1>3, <2>2 DEF StartsChain
    <3> QED BY <1>3, <2>1, <3>1
  <2>3. CASE ~Started(d)
    <3>1. Len(root) = 0
      BY <1>3, <2>3
    <3> QED BY <2>1, <3>1
  <2> QED BY <2>2, <2>3
<1>8. /\ m.mk = [root |-> rk1, i |-> m.n] /\ T(d)'.ckr = [root |-> rk1, i |-> m.n + 1]
  BY <1>2 DEF StartsChain
<1>9. T(d)'.ckr.root = rk1 /\ T(d)'.ckr.i = m.n + 1 /\ T(d).ckr.root = root /\ T(d).ckr.i = nr
  BY <1>3, <1>8 DEF root
<1>10. \A k \in A : Behind(k.mk, T(d)') /\ ~Behind(k.mk, T(d)) /\ k.mk # m.mk /\ k.mk.i = k.nr
                    /\ k.mk.root = root
  <2> TAKE k \in A
  <2>1. k.mk.root = root /\ k.mk.i = k.nr /\ nr <= k.nr /\ k.nr \in Nat
    <3>1. k.mk = [root |-> root, i |-> k.nr] /\ nr <= k.nr /\ k.nr \in Nat
      BY <1>4
    <3> QED BY <3>1
  <2>2. Behind(k.mk, T(d)')
    BY <1>3, <1>7, <1>9, <2>1 DEF Behind
  <2>3. ~Behind(k.mk, T(d))
    BY <1>3, <1>9, <2>1 DEF Behind
  <2>4. k.mk # m.mk
    <3>1. m.mk.root = rk1
      BY <1>8
    <3> QED BY <1>7, <2>1, <3>1
  <2> QED BY <2>1, <2>2, <2>3, <2>4
<1>11. \A k \in B : Behind(k.mk, T(d)') /\ ~Behind(k.mk, T(d)) /\ k.mk # m.mk /\ k.mk.i = k.nr
                    /\ k.mk.root = rk1
  <2> TAKE k \in B
  <2>1. k.mk.root = rk1 /\ k.mk.i = k.nr /\ k.nr < m.n /\ k.nr \in Nat
    <3>1. k.mk = [root |-> rk1, i |-> k.nr] /\ k.nr < m.n /\ k.nr \in Nat
      BY <1>5
    <3> QED BY <3>1
  <2>2. Behind(k.mk, T(d)')
    BY <1>3, <1>7, <1>9, <2>1 DEF Behind
  <2>3. ~Behind(k.mk, T(d))
    BY <1>3, <1>7, <1>9, <2>1 DEF Behind
  <2>4. k.mk # m.mk
    <3>1. m.mk.i = m.n
      BY <1>8
    <3> QED BY <1>3, <2>1, <3>1
  <2> QED BY <2>1, <2>2, <2>3, <2>4
<1>12. \A k \in N : k.dh \in Ephemeral(Peer(d)) =>
                      \E g \in Genuine(d) : g.dh = k.dh /\ g.mk.root = k.mk.root
  <2>1. \A k \in A : k.dh \in Ephemeral(Peer(d)) =>
                      \E g \in Genuine(d) : g.dh = k.dh /\ g.mk.root = k.mk.root
    BY <1>3, <1>4, <1>10
  <2>2. m.mk.root = rk1
    BY <1>8
  <2>3. \A k \in B : \E g \in Genuine(d) : g.dh = k.dh /\ g.mk.root = k.mk.root
    BY <1>5, <1>11, <2>2
  <2> QED BY <2>1, <2>3
<1>13. \A k1, k2 \in N : k1.mk = k2.mk => k1 = k2
  <2>1. \A k1 \in A, k2 \in B : k1.mk # k2.mk
    BY <1>7, <1>10, <1>11
  <2> QED BY <1>6, <2>1
<1>14. Callbacks = "none" => N = {}
  BY <1>4, <1>5
<1>15. ~Behind(m.mk, T(d)) /\ Behind(m.mk, T(d)')
  <2>1. m.mk.root = rk1 /\ m.mk.i = m.n
    BY <1>8
  <2> QED BY <1>3, <1>7, <1>9, <2>1 DEF Behind
<1>16. \A mk \in ChainKey : Behind(mk, T(d)) => Behind(mk, T(d)')
  <2> SUFFICES ASSUME NEW mk \in ChainKey, Behind(mk, T(d)) PROVE Behind(mk, T(d)')
    OBVIOUS
  <2>1. Len(mk.root) \in Nat
    BY RootLength DEF ChainKey
  <2>2. Len(mk.root) <= Len(root)
    BY <1>9 DEF Behind
  <2> QED BY <1>3, <1>7, <1>9, <2>1, <2>2 DEF Behind
<1>17. \A k \in N : Behind(k.mk, T(d)') /\ ~Behind(k.mk, T(d)) /\ k.mk # m.mk /\ k.mk.i = k.nr
  BY <1>10, <1>11
<1> HIDE DEF N
<1>18. NewKeys(d, m, N)
  BY <1>1, <1>12, <1>13, <1>14, <1>15, <1>16, <1>17 DEF NewKeys
<1> QED BY <1>18 DEF Advances

(* What reading a message does to the keys.                                *)
LEMMA ReadsKeys ==
  ASSUME Inv, NEW d \in Device, NEW m \in Genuine(d), Reads(d, m)
  PROVE  ReadKept(d, m) \/ Advances(d, m)
  BY NextAdvances, NewAdvances DEF Reads

LEMMA KeepingKept ==
  ASSUME Inv, NEW d \in Device, Acts(d), Types'
  PROVE  Keeping(d)'
<1>1. Keeping(d) /\ Genuine(d)' = Genuine(d)
  BY StepFacts DEF Inv, Talk
<1>2. ASSUME T(d)'.ckr = T(d).ckr, skipped'[d] \subseteq skipped[d]
      PROVE  Keeping(d)'
  <2>1. \A mk : Behind(mk, T(d)) => Behind(mk, T(d)')
    BY <1>2 DEF Behind
  <2> QED BY <1>1, <1>2, <2>1 DEF Keeping
<1>3. CASE Quiet(d)
  BY <1>2, <1>3 DEF Quiet
<1>4. CASE Begun(d)
  BY <1>4, BegunState DEF Keeping
<1>5. CASE SpokeOnce(d)
  <2>1. T(d)'.ckr = T(d).ckr /\ skipped' = skipped
    BY <1>5, SpokeState DEF SpokeOnce, Spoke
  <2> QED BY <1>2, <2>1
<1>6. ASSUME NEW m \in Genuine(d), ReadKept(d, m) PROVE Keeping(d)'
  BY <1>2, <1>6 DEF ReadKept
<1>7. ASSUME NEW m \in Genuine(d), NEW N, NewKeys(d, m, N) PROVE Keeping(d)'
  <2>1. /\ skipped'[d] = skipped[d] \cup N
        /\ \A k \in N : /\ Behind(k.mk, T(d)') /\ ~Behind(k.mk, T(d)) /\ k.mk.i = k.nr
                        /\ k.dh \in Ephemeral(Peer(d)) =>
                             \E g \in Genuine(d) : g.dh = k.dh /\ g.mk.root = k.mk.root
        /\ \A k1, k2 \in N : k1.mk = k2.mk => k1 = k2
        /\ Callbacks = "none" => N = {}
        /\ \A mk \in ChainKey : Behind(mk, T(d)) => Behind(mk, T(d)')
    BY <1>7 DEF NewKeys
  <2>2. \A k \in skipped[d] : k.mk \in ChainKey
    BY DEF Inv, TypeInv, Types, SkippedKeys
  <2>3. \A k \in skipped'[d] :
          /\ Behind(k.mk, T(d)') /\ k.mk.i = k.nr
          /\ k.dh \in Ephemeral(Peer(d)) =>
               \E g \in Genuine(d) : g.dh = k.dh /\ g.mk.root = k.mk.root
    BY <1>1, <2>1, <2>2 DEF Keeping
  <2>4. \A k1 \in skipped[d], k2 \in N : k1.mk # k2.mk
    BY <1>1, <2>1 DEF Keeping
  <2>5. \A k1, k2 \in skipped'[d] : k1.mk = k2.mk => k1 = k2
    BY <1>1, <2>1, <2>4 DEF Keeping
  <2>6. Callbacks = "none" => skipped'[d] = {}
    BY <1>1, <2>1 DEF Keeping
  <2> QED BY <1>1, <2>3, <2>5, <2>6 DEF Keeping
<1> QED BY <1>3, <1>4, <1>5, <1>6, <1>7, ReadsKeys, StepFacts DEF ReadsOne, Advances

(* One message, one body.                                                  *)
LEMMA BodiesDiffer ==
  ASSUME Inv, NEW d \in Device, NEW m1 \in Genuine(d), NEW m2 \in Genuine(d),
         m1.body = m2.body \/ m1.mk = m2.mk
  PROVE  m1 = m2
<1>1. PICK e1 \in sent[Peer(d)] : m1 = e1.m
  BY DEF Genuine
<1>2. PICK e2 \in sent[Peer(d)] : m2 = e2.m
  BY DEF Genuine
<1>3. Sending(Peer(d))
  BY TwoDevices DEF Inv, Talk
<1> QED BY <1>1, <1>2, <1>3 DEF Sending

LEMMA AcceptingKept ==
  ASSUME Inv, NEW d \in Device, Acts(d)
  PROVE  Accepting(d)'
<1>1. Accepting(d) /\ Keeping(d) /\ Genuine(d)' = Genuine(d)
  BY StepFacts DEF Inv, Talk
<1>2. ASSUME T(d)'.ckr = T(d).ckr, UNCHANGED <<skipped, accepted, replayed>>
      PROVE  Accepting(d)'
  <2>1. \A mk : Behind(mk, T(d)) => Behind(mk, T(d)')
    BY <1>2 DEF Behind
  <2> QED BY <1>1, <1>2, <2>1 DEF Accepting
<1>3. CASE Quiet(d)
  BY <1>2, <1>3 DEF Quiet
<1>4. CASE Begun(d)
  BY <1>4, BegunState DEF Accepting
<1>5. CASE SpokeOnce(d)
  <2>1. T(d)'.ckr = T(d).ckr /\ UNCHANGED <<skipped, accepted, replayed>>
    BY <1>5, SpokeState DEF SpokeOnce, Spoke
  <2> QED BY <1>2, <2>1
<1>6. ASSUME NEW m \in Genuine(d), Reads(d, m) PROVE Accepting(d)'
  <2>1. /\ accepted'[d] = accepted[d] \cup {m.body}
        /\ replayed'[d] = IF m.body \in accepted[d] THEN replayed[d] \cup {m.body}
                          ELSE replayed[d]
    BY <1>6 DEF Reads
  <2>2. \A b \in accepted[d] : \E g \in Genuine(d) :
          g.body = b /\ Behind(g.mk, T(d)) /\ g.mk \in ChainKey
          /\ \A k \in skipped[d] : k.mk # g.mk
    <3>1. \A g \in Genuine(d) : g.mk \in ChainKey
      BY GenuineSent DEF Message
    <3> QED BY <1>1, <3>1 DEF Accepting
  <2>3. SUFFICES /\ m.body \notin accepted[d]
                 /\ Behind(m.mk, T(d)') /\ \A k \in skipped'[d] : k.mk # m.mk
                 /\ \A g \in Genuine(d) :
                      Behind(g.mk, T(d)) /\ g.mk \in ChainKey /\ (\A k \in skipped[d] : k.mk # g.mk)
                      => Behind(g.mk, T(d)') /\ \A k \in skipped'[d] : k.mk # g.mk
    <3>1. replayed'[d] = {}
      BY <1>1, <2>1, <2>3 DEF Accepting
    <3>2. \A b \in accepted'[d] : \E g \in Genuine(d) :
            g.body = b /\ Behind(g.mk, T(d)') /\ \A k \in skipped'[d] : k.mk # g.mk
      BY <2>1, <2>2, <2>3
    <3> QED BY <1>1, <3>1, <3>2 DEF Accepting
  <2>4. CASE ReadKept(d, m)
    <3>1. /\ T(d)' = T(d) /\ skipped'[d] = skipped[d] \ Matching(d, m)
      BY <2>4 DEF ReadKept
    <3>2. PICK k \in Matching(d, m) : k.mk = m.mk
      BY <2>4 DEF ReadKept
    <3>3. k \in skipped[d] /\ Behind(m.mk, T(d))
      BY <1>1, <3>2 DEF Keeping, Matching
    <3>4. m.body \notin accepted[d]
      BY <2>2, <3>2, <3>3, BodiesDiffer
    <3>5. \A k1 \in skipped'[d] : k1.mk # m.mk
      BY <1>1, <3>1, <3>2, <3>3 DEF Keeping
    <3> QED BY <3>1, <3>3, <3>4, <3>5
  <2>5. ASSUME NEW N, NewKeys(d, m, N)
        PROVE  /\ m.body \notin accepted[d]
               /\ Behind(m.mk, T(d)') /\ \A k \in skipped'[d] : k.mk # m.mk
               /\ \A g \in Genuine(d) :
                    Behind(g.mk, T(d)) /\ g.mk \in ChainKey /\ (\A k \in skipped[d] : k.mk # g.mk)
                    => Behind(g.mk, T(d)') /\ \A k \in skipped'[d] : k.mk # g.mk
    <3>1. /\ skipped'[d] = skipped[d] \cup N
          /\ \A k \in N : ~Behind(k.mk, T(d)) /\ k.mk # m.mk
          /\ ~Behind(m.mk, T(d)) /\ Behind(m.mk, T(d)')
          /\ \A mk \in ChainKey : Behind(mk, T(d)) => Behind(mk, T(d)')
      BY <2>5 DEF NewKeys
    <3>2. m.body \notin accepted[d]
      BY <2>2, <3>1, BodiesDiffer
    <3>3. \A k \in skipped'[d] : k.mk # m.mk
      BY <1>1, <3>1 DEF Keeping
    <3>4. \A g \in Genuine(d) :
            Behind(g.mk, T(d)) /\ g.mk \in ChainKey /\ (\A k \in skipped[d] : k.mk # g.mk)
            => Behind(g.mk, T(d)') /\ \A k \in skipped'[d] : k.mk # g.mk
      BY <3>1
    <3> QED BY <3>1, <3>2, <3>3, <3>4
  <2> QED BY <1>6, <2>4, <2>5, ReadsKeys DEF Advances
<1> QED BY <1>3, <1>4, <1>5, <1>6, StepFacts DEF ReadsOne

----------------------------------------------------------------------------
LEMMA InitInv == Init => Inv
<1> SUFFICES ASSUME Init PROVE Inv
  OBVIOUS
<1>1. TypeInv
  BY InitTypes
<1>2. ASSUME NEW d \in Device PROVE Talk(d)
  <2>1. /\ session[d] = ZeroSession /\ skipped[d] = {} /\ sent[d] = {} /\ accepted[d] = {}
        /\ replayed[d] = {}
    BY DEF Init
  <2>2. ~Started(d) /\ ~Established(d) /\ session[d].init # SESSION_INIT
    BY <2>1 DEF Started, Established, ZeroSession, SESSION_UNINIT, SESSION_INIT, SESSION_READY,
                SESSION_HEARTBEAT
  <2>3. Unstarted(d) /\ Chains(d) /\ Waiting(d) /\ Roles(d) /\ Receiving(d)
    BY <2>1, <2>2 DEF Unstarted, Chains, Waiting, Roles, Receiving
  <2>4. Sending(d) /\ Keeping(d) /\ Accepting(d)
    BY <2>1 DEF Sending, Keeping, Accepting
  <2> QED BY <2>3, <2>4 DEF Talk
<1> QED BY <1>1, <1>2 DEF Inv

LEMMA NextInv == Rollback /\ Inv /\ [Next]_vars => Inv'
<1> SUFFICES ASSUME Rollback, Inv, [Next]_vars PROVE Inv'
  OBVIOUS
<1>1. Stores'
  BY StoresKept DEF Inv
<1>2. PICK x \in Device : Acts(x)
  BY StepCases DEF Inv, Talk
<1>3. Types'
  BY <1>2, ActsType DEF Inv
<1>4. Talk(x)'
  BY <1>2, <1>3, UnstartedKept, ChainsKept, SendingKept, WaitingKept, RolesKept, ReceivingKept,
     KeepingKept, AcceptingKept DEF Talk
<1>5. ASSUME NEW d \in Device, d # x PROVE Talk(d)'
  <2>1. d = Peer(x)
    BY <1>5, TwoDevices
  <2>2. Roles(d)'
    BY <1>2, <2>1, RolesKept
  <2> QED BY <1>2, <1>5, <2>2, OtherTalk DEF Talk
<1> QED BY <1>1, <1>3, <1>4, <1>5 DEF Inv, TypeInv

----------------------------------------------------------------------------
(* What follows from the invariant.                                        *)

LEMMA InvTypeOK == Inv => TypeOK
<1> SUFFICES ASSUME Inv, NEW d \in Device
             PROVE  /\ session[d] \in Session
                    /\ skipped[d] \subseteq [dh : PubKey, nr : Nat, mk : ChainKey]
                    /\ fresh[d] \in Nat
                    /\ sent[d] \subseteq [m : Message, hb : BOOLEAN]
                    /\ accepted[d] \subseteq Nat /\ replayed[d] \subseteq accepted[d]
  BY DEF TypeOK
<1> QED BY DEF Inv, TypeInv, Types, SkippedKeys, Entry

LEMMA OwnKeysDiffer ==
  ASSUME NEW d \in Device, NEW p \in Device, p # d,
         NEW x \in SignedKeys(p), NEW y \in SignedKeys(d)
  PROVE  DH(OwnKey(d), x) # DH(OwnKey(p), y)
<1>1. OwnKey(d) # OwnKey(p) /\ OwnKey(d) # y
  BY DEF OwnKey, SignedKeys
<1> QED BY <1>1 DEF DH

LEMMA InvKeysNeverReused == Inv => KeysNeverReused
<1> SUFFICES ASSUME Inv, NEW d1 \in Device, NEW d2 \in Device,
                    NEW e1 \in sent[d1], NEW e2 \in sent[d2], e1.m.mk = e2.m.mk
             PROVE  e1 = e2
  BY DEF KeysNeverReused
<1>1. CASE d1 = d2
  BY <1>1 DEF Inv, Talk, Sending
<1>2. CASE d1 # d2
  <2>1. d2 = Peer(d1) /\ d1 = Peer(d2)
    BY <1>2, TwoDevices
  <2>2. SentBy(d1, e1.m) /\ SentBy(d2, e2.m)
    BY DEF Inv, Talk, Sending
  <2>3. Started(d1) /\ Started(d2)
    BY DEF Inv, Talk, Unstarted
  <2>4. Roles(d1) /\ Roles(d2) /\ Waiting(d1) /\ Waiting(d2)
    BY DEF Inv, Talk
  <2>5. Len(T(d1).rk) % 2 = Len(T(d2).rk) % 2
    BY <2>2 DEF SentBy
  <2>6. Leads(d1) <=> Leads(d2)
    BY <2>5 DEF Leads
  <2>7. Leads(d1) /\ Leads(d2)
    BY <2>1, <2>3, <2>4, <2>6 DEF Roles
  <2>8. ~Established(d1) /\ ~Established(d2)
    BY <2>1, <2>4, <2>7 DEF Roles
  <2>9. session[d1].init = SESSION_INIT /\ session[d2].init = SESSION_INIT
    BY <2>3, <2>8, Phases
  <2>10. T(d1).rk = T(d2).rk
    BY <2>4, <2>9 DEF Waiting
  <2>11. PICK x \in SignedKeys(d2) : T(d1).rk[1] = DH(OwnKey(d1), x)
    BY <2>1, <2>4, <2>9 DEF Waiting
  <2>12. PICK y \in SignedKeys(d1) : T(d2).rk[1] = DH(OwnKey(d2), y)
    BY <2>1, <2>4, <2>9 DEF Waiting
  <2> QED BY <1>2, <2>10, <2>11, <2>12, OwnKeysDiffer
<1> QED BY <1>1, <1>2

LEMMA InvChainAgreement == Inv => ChainAgreement
<1> SUFFICES ASSUME Inv, NEW d \in Device, Established(d), T(d).dhr = T(Peer(d)).dhs
             PROVE  /\ T(d).ckr.root = T(Peer(d)).cks.root
                    /\ T(d).nr <= T(Peer(d)).ns
                    /\ T(d).ckr.i = T(d).nr /\ T(Peer(d)).cks.i = T(Peer(d)).ns
  BY DEF ChainAgreement, T
<1> DEFINE p == Peer(d)
<1>1. PICK m \in Genuine(d) : m.dh = T(d).dhr /\ m.mk.root = T(d).ckr.root /\ T(d).nr = m.n + 1
  BY DEF Inv, Talk, Receiving
<1>2. p \in Device /\ SentBy(p, m) /\ m \in Message
  BY GenuineSent
<1>3. m.mk.root = T(p).rk /\ m.n < T(p).ns /\ m.n \in Nat
  BY <1>1, <1>2 DEF SentBy, Message
<1>4. Chains(p) /\ Unstarted(p) /\ T(p).ns \in Nat
  BY <1>2 DEF Inv, Talk, TypeInv, Types, T, Session, State
<1>5. Started(p)
  BY <1>1, <1>4 DEF Unstarted, Genuine
<1>6. T(p).cks = [root |-> T(p).rk, i |-> T(p).ns]
  BY <1>4, <1>5 DEF Chains
<1>7. T(d).ckr.i = T(d).nr
  BY ReceivingChain
<1>8. T(d).nr <= T(p).ns
  BY <1>1, <1>3, <1>4
<1> QED BY <1>1, <1>3, <1>6, <1>7, <1>8

LEMMA InvSkippedKeysPending == Inv => SkippedKeysPending
<1> SUFFICES ASSUME Inv, NEW d \in Device, NEW k \in skipped[d], NEW m \in Genuine(d),
                    m.dh = k.dh, m.n = k.nr
             PROVE  m.mk = k.mk /\ m.body \notin accepted[d]
  BY DEF SkippedKeysPending
<1>1. Keeping(d) /\ Accepting(d) /\ Sending(Peer(d))
  BY TwoDevices DEF Inv, Talk
<1>2. m \in Message /\ SentBy(Peer(d), m) /\ m.dh \in Ephemeral(Peer(d))
  BY GenuineSent
<1>3. PICK g \in Genuine(d) : g.dh = k.dh /\ g.mk.root = k.mk.root
  BY <1>1, <1>2 DEF Keeping
<1>4. m.mk.root = g.mk.root
  BY <1>1, <1>3 DEF Sending, Genuine
<1>5. m.mk.i = m.n /\ k.mk.i = k.nr
  BY <1>1, <1>2 DEF SentBy, Keeping
<1>6. m.mk \in ChainKey /\ k.mk \in ChainKey
  BY <1>2 DEF Message, Inv, TypeInv, Types, SkippedKeys
<1>7. m.mk = k.mk
  BY <1>3, <1>4, <1>5, <1>6 DEF ChainKey
<1>8. m.body \notin accepted[d]
  BY <1>1, <1>7, BodiesDiffer DEF Accepting
<1> QED BY <1>7, <1>8

(* Every message is new to who reads it.                                   *)
LEMMA ReadsFresh ==
  ASSUME Inv, NEW d \in Device, Acts(d), NEW m \in Genuine(d), Reads(d, m)
  PROVE  m.body \notin accepted[d] /\ replayed'[d] = {}
<1>1. replayed'[d] = {}
  BY AcceptingKept DEF Accepting
<1> QED BY <1>1 DEF Reads

----------------------------------------------------------------------------
(* Counting: what was sent, and the heartbeats among it.                   *)

HeartbeatsOf(d) == {e \in sent[d] : e.hb}

(* Between two heartbeats a message came.                                  *)
Beating(d) ==
  LET beats == Cardinality(HeartbeatsOf(d))
      heard == Cardinality(accepted[d])
  IN /\ session[d].init = SESSION_HEARTBEAT => beats <= heard /\ T(d).nr >= HeartbeatAt
     /\ session[d].init = SESSION_READY => beats < heard
     /\ ~Established(d) => beats = 0

(* The prekey id of an established session is the peer's message's.        *)
Using(d) ==
  Established(d) /\ session[d].usedpk_id # 0 =>
    \E m \in Genuine(d) :
      m.isprekey /\ m.pk_id = session[d].usedpk_id /\ m.body \in accepted[d]

Counted(d) == Beating(d) /\ Using(d) /\ Cardinality(sent[d]) <= MaxSend

Inv2 == Inv /\ \A d \in Device : Counted(d)

LEMMA Counts ==
  ASSUME Inv, NEW d \in Device
  PROVE  /\ IsFiniteSet(HeartbeatsOf(d)) /\ Cardinality(HeartbeatsOf(d)) \in Nat
         /\ IsFiniteSet(sent[d]) /\ Cardinality(sent[d]) \in Nat
         /\ IsFiniteSet(accepted[d]) /\ Cardinality(accepted[d]) \in Nat
<1>1. IsFiniteSet(sent[d]) /\ IsFiniteSet(accepted[d])
  BY DEF Inv, TypeInv, Types
<1>2. IsFiniteSet(HeartbeatsOf(d))
  BY <1>1, FS_Subset DEF HeartbeatsOf
<1> QED BY <1>1, <1>2, FS_CardinalityType

LEMMA InitCounted == Init => \A d \in Device : Counted(d)
<1> SUFFICES ASSUME Init, NEW d \in Device PROVE Counted(d)
  OBVIOUS
<1>1. session[d] = ZeroSession /\ sent[d] = {} /\ accepted[d] = {}
  BY DEF Init
<1>2. HeartbeatsOf(d) = {} /\ Cardinality({}) = 0
  BY <1>1, FS_EmptySet DEF HeartbeatsOf
<1>3. ~Established(d) /\ session[d].init = SESSION_UNINIT
  BY <1>1 DEF Established, ZeroSession, SESSION_UNINIT, SESSION_READY, SESSION_HEARTBEAT
<1>4. 0 <= MaxSend
  BY RatchetAssumption
<1> QED BY <1>1, <1>2, <1>3, <1>4 DEF Counted, Beating, Using, SESSION_UNINIT, SESSION_READY,
                                       SESSION_HEARTBEAT

(* What a message adds to the counts.                                      *)
LEMMA SpokeCounts ==
  ASSUME Inv, NEW d \in Device, NEW hb \in BOOLEAN, Spoke(d, hb)
  PROVE  /\ Cardinality(sent'[d]) = Cardinality(sent[d]) + 1
         /\ Cardinality(sent[d]) + 1 <= MaxSend
         /\ Cardinality(HeartbeatsOf(d)') = Cardinality(HeartbeatsOf(d)) + (IF hb THEN 1 ELSE 0)
<1>0. PICK e : e = [m |-> NextMessage(session[d], Body(d)), hb |-> hb]
  OBVIOUS
<1>1. sent'[d] = sent[d] \cup {e} /\ Body(d) <= MaxSend
  BY <1>0 DEF Spoke
<1>2. Cardinality(sent[d]) \in Nat /\ Body(d) = Cardinality(sent[d]) + 1
  BY Counts DEF Body
<1>3. e \notin sent[d]
  <2>1. SUFFICES ASSUME e \in sent[d] PROVE FALSE
    OBVIOUS
  <2>2. e.m.body \in 1..Cardinality(sent[d])
    BY <2>1 DEF Inv, Talk, Sending, SentBy
  <2>3. e.m.body = Body(d)
    BY <1>0 DEF NextMessage
  <2> QED BY <1>2, <2>2, <2>3
<1>4. Cardinality(sent'[d]) = Cardinality(sent[d]) + 1
  <2>1. IsFiniteSet(sent[d])
    BY Counts
  <2> QED BY <1>1, <1>3, <2>1, FS_AddElement
<1>5. Cardinality(HeartbeatsOf(d)') = Cardinality(HeartbeatsOf(d)) + (IF hb THEN 1 ELSE 0)
  <2>1. IsFiniteSet(HeartbeatsOf(d)) /\ Cardinality(HeartbeatsOf(d)) \in Nat
    BY Counts
  <2>2. e.hb = hb
    BY <1>0
  <2>3. CASE hb
    <3>1. HeartbeatsOf(d)' = HeartbeatsOf(d) \cup {e} /\ e \notin HeartbeatsOf(d)
      BY <1>1, <1>3, <2>2, <2>3 DEF HeartbeatsOf
    <3> QED BY <2>1, <2>3, <3>1, FS_AddElement
  <2>4. CASE ~hb
    <3>1. HeartbeatsOf(d)' = HeartbeatsOf(d)
      BY <1>1, <2>2, <2>4 DEF HeartbeatsOf
    <3> QED BY <2>1, <2>4, <3>1
  <2> QED BY <2>3, <2>4
<1> QED BY <1>1, <1>2, <1>4, <1>5

LEMMA BeatingKept ==
  ASSUME Inv, NEW d \in Device, Beating(d), Acts(d)
  PROVE  Beating(d)'
<1>1. Cardinality(HeartbeatsOf(d)) \in Nat /\ IsFiniteSet(accepted[d])
      /\ Cardinality(accepted[d]) \in Nat
  BY Counts
<1> USE DEF SESSION_UNINIT, SESSION_INIT, SESSION_READY, SESSION_HEARTBEAT
<1>2. CASE Quiet(d)
  <2>1. T(d)' = T(d) /\ sent' = sent /\ accepted' = accepted /\ HeartbeatsOf(d)' = HeartbeatsOf(d)
    BY <1>2 DEF Quiet, HeartbeatsOf
  <2>2. session'[d].init = session[d].init
    <3>1. ~(session[d].init = SESSION_HEARTBEAT /\ T(d).nr < HeartbeatAt)
      <4>1. T(d).nr \in Nat /\ HeartbeatAt \in Nat
        BY ReceivingChain, SessionAssumption
      <4> QED BY <4>1 DEF Beating
    <3> QED BY <1>2, <3>1 DEF Quiet
  <2> QED BY <2>1, <2>2 DEF Beating, Established
<1>3. CASE Begun(d)
  <2>1. sent'[d] = {} /\ session'[d].init = SESSION_INIT
    BY <1>3, BegunState
  <2>2. HeartbeatsOf(d)' = {} /\ Cardinality({}) = 0
    BY <2>1, FS_EmptySet DEF HeartbeatsOf
  <2> QED BY <2>1, <2>2 DEF Beating
<1>4. ASSUME NEW hb \in BOOLEAN, Spoke(d, hb) PROVE Beating(d)'
  <2>1. /\ accepted' = accepted /\ T(d)'.nr = T(d).nr
        /\ session'[d].init = IF hb THEN SESSION_HEARTBEAT ELSE session[d].init
        /\ hb => session[d].init = SESSION_READY /\ T(d).nr >= HeartbeatAt
    BY <1>4, SpokeState DEF Spoke
  <2>2. Cardinality(HeartbeatsOf(d)') = Cardinality(HeartbeatsOf(d)) + (IF hb THEN 1 ELSE 0)
    BY <1>4, SpokeCounts
  <2>3. CASE hb
    <3>1. Cardinality(HeartbeatsOf(d)) < Cardinality(accepted[d])
      BY <2>1, <2>3 DEF Beating
    <3>2. Cardinality(HeartbeatsOf(d)') <= Cardinality(accepted'[d])
      BY <1>1, <2>1, <2>2, <2>3, <3>1
    <3> QED BY <2>1, <2>3, <3>2 DEF Beating, Established
  <2>4. CASE ~hb
    <3>1. Cardinality(HeartbeatsOf(d)') = Cardinality(HeartbeatsOf(d))
          /\ session'[d].init = session[d].init
      BY <1>1, <2>1, <2>2, <2>4
    <3> QED BY <2>1, <3>1 DEF Beating, Established
  <2> QED BY <2>3, <2>4
<1>5. ASSUME NEW m \in Genuine(d), Reads(d, m) PROVE Beating(d)'
  <2>1. m.body \notin accepted[d]
    BY <1>5, ReadsFresh
  <2>2. accepted'[d] = accepted[d] \cup {m.body} /\ sent' = sent
        /\ session'[d].init = SESSION_READY
    BY <1>5 DEF Reads
  <2>3. Cardinality(accepted'[d]) = Cardinality(accepted[d]) + 1
    BY <1>1, <2>1, <2>2, FS_AddElement
  <2>4. HeartbeatsOf(d)' = HeartbeatsOf(d)
    BY <2>2 DEF HeartbeatsOf
  <2>5. Cardinality(HeartbeatsOf(d)) <= Cardinality(accepted[d])
    BY <1>1 DEF Beating, Established
  <2>6. Cardinality(HeartbeatsOf(d)') < Cardinality(accepted'[d])
    BY <1>1, <2>3, <2>4, <2>5
  <2> QED BY <2>2, <2>6 DEF Beating, Established
<1> QED BY <1>2, <1>3, <1>4, <1>5, StepFacts DEF SpokeOnce, ReadsOne

LEMMA UsingKept ==
  ASSUME Inv, NEW d \in Device, Using(d), Acts(d)
  PROVE  Using(d)'
<1>1. Genuine(d)' = Genuine(d)
  BY StepFacts
<1>2. ASSUME Established(d)' => Established(d), session'[d].usedpk_id = session[d].usedpk_id,
             accepted[d] \subseteq accepted'[d]
      PROVE  Using(d)'
  BY <1>1, <1>2 DEF Using
<1>3. CASE Quiet(d)
  BY <1>2, <1>3, PhasesKept DEF Quiet
<1>4. CASE Begun(d)
  BY <1>4, PhasesKept DEF Using
<1>5. CASE SpokeOnce(d)
  <2>1. session'[d].usedpk_id = session[d].usedpk_id /\ accepted' = accepted
    BY <1>5, SpokeState DEF SpokeOnce, Spoke
  <2> QED BY <1>2, <1>5, <2>1, PhasesKept
<1>6. ASSUME NEW m \in Genuine(d), Reads(d, m) PROVE Using(d)'
  <2>1. /\ ~Started(d) => m.isprekey /\ session'[d].usedpk_id = m.pk_id
        /\ session[d].init = SESSION_INIT => session'[d].usedpk_id = 0
        /\ Established(d) => session'[d].usedpk_id = session[d].usedpk_id
        /\ accepted'[d] = accepted[d] \cup {m.body}
    BY <1>6 DEF Reads
  <2>2. CASE ~Started(d)
    BY <1>1, <2>1, <2>2 DEF Using
  <2>3. CASE session[d].init = SESSION_INIT
    BY <2>1, <2>3 DEF Using
  <2>4. CASE Established(d)
    BY <1>2, <2>1, <2>4
  <2> QED BY <2>2, <2>3, <2>4, Phases
<1> QED BY <1>3, <1>4, <1>5, <1>6, StepFacts DEF ReadsOne

LEMMA SentBounded ==
  ASSUME Inv, NEW d \in Device, Cardinality(sent[d]) <= MaxSend, Acts(d)
  PROVE  Cardinality(sent'[d]) <= MaxSend
<1>1. CASE Quiet(d)
  BY <1>1 DEF Quiet
<1>2. CASE Begun(d)
  BY <1>2 DEF Begun
<1>3. CASE SpokeOnce(d)
  BY <1>3, SpokeCounts DEF SpokeOnce
<1>4. CASE ReadsOne(d)
  BY <1>4 DEF ReadsOne, Reads
<1> QED BY <1>1, <1>2, <1>3, <1>4, StepFacts

LEMMA NextInv2 == Rollback /\ Inv2 /\ [Next]_vars => Inv2'
<1> SUFFICES ASSUME Rollback, Inv2, [Next]_vars PROVE Inv2'
  OBVIOUS
<1>1. Inv /\ Inv'
  BY NextInv DEF Inv2
<1>2. PICK x \in Device : Acts(x)
  BY <1>1, StepCases DEF Inv, Talk
<1>3. Counted(x)'
  <2>1. Counted(x)
    BY DEF Inv2
  <2> QED BY <1>1, <1>2, <2>1, BeatingKept, UsingKept, SentBounded DEF Counted
<1>4. ASSUME NEW d \in Device, d # x PROVE Counted(d)'
  <2>1. /\ session'[d] = session[d] /\ sent'[d] = sent[d] /\ accepted'[d] = accepted[d]
    BY <1>1, <1>2, <1>4, OtherKept DEF Acts, Inv
  <2>2. Genuine(d) \subseteq Genuine(d)'
    BY <1>1, <1>2, <1>4, StepFacts, TwoDevices
  <2>3. Counted(d)
    BY DEF Inv2
  <2>4. Using(d)'
    BY <2>1, <2>2, <2>3 DEF Counted, Using, Established
  <2>5. Beating(d)'
    BY <2>1, <2>3 DEF Counted, Beating, Established, HeartbeatsOf, T
  <2> QED BY <2>1, <2>3, <2>4, <2>5 DEF Counted
<1> QED BY <1>1, <1>3, <1>4 DEF Inv2

LEMMA InvHeartbeatsAnswered == Inv2 => HeartbeatsAnswered
<1> SUFFICES ASSUME Inv2, NEW d \in Device
             PROVE  Cardinality({e \in sent[d] : e.hb}) <= Cardinality(accepted[d])
  BY DEF HeartbeatsAnswered
<1>1. Beating(d) /\ Cardinality(HeartbeatsOf(d)) \in Nat /\ Cardinality(accepted[d]) \in Nat
  BY Counts DEF Inv2, Counted
<1>2. Cardinality(HeartbeatsOf(d)) <= Cardinality(accepted[d])
  BY <1>1 DEF Beating, Established
<1> QED BY <1>2 DEF HeartbeatsOf

----------------------------------------------------------------------------
(* The store of skipped keys refuses nothing within its limit.             *)

LEMMA NotRefused ==
  ASSUME Callbacks \in {"array", "none"}, NEW s \in Session, NEW skp, IsFiniteSet(skp),
         NEW n \in Nat, NEW full,
         s.state.nr < n => Cardinality(skp) + (n - s.state.nr) <= MaxSkip
  PROVE  ~RefusedIn(s, skp, n, full)
<1> SUFFICES ASSUME s.state.nr < n, NEW j \in s.state.nr .. n - 1,
                    StoreRefuses(Cardinality(skp) + (j - s.state.nr), full - (j - s.state.nr))
             PROVE  FALSE
  BY DEF RefusedIn, Refused
<1>1. Callbacks = "array" /\ Cardinality(skp) + (j - s.state.nr) >= MaxSkip
  BY DEF StoreRefuses
<1>2. Cardinality(skp) \in Nat /\ s.state.nr \in Nat /\ MaxSkip \in Nat
  BY FS_CardinalityType, SessionAssumption DEF Session, State
<1> QED BY <1>1, <1>2

LEMMA InvWithinLimitNotRefused ==
  Callbacks \in {"array", "none"} /\ Inv => WithinLimitNotRefused
<1> SUFFICES ASSUME Callbacks \in {"array", "none"}, Inv, NEW d \in Device,
                    NEW m \in Genuine(d),
                    Cardinality(skipped[d]) + KeysToSkip(session[d], m) <= MaxSkip
             PROVE  Decrypted(d, m, "none").ret # OMEMO_EUSER
  BY DEF WithinLimitNotRefused
<1> DEFINE s == session[d]
           skp == skipped[d]
           new == NewKey(d)
<1>1. s \in Session /\ T(d) \in State /\ m \in Incoming /\ m.n \in Nat /\ m.pn \in Nat
      /\ m.dh \in PubKey /\ new \in PubKey /\ store[d] \in Store /\ IsFiniteSet(skp)
  <2>1. m \in Incoming /\ s \in Session /\ T(d) \in State
    BY GenuineSent
  <2> QED BY <2>1 DEF Incoming, Inv, TypeInv, Types, Stores, NewKey, PubKey
<1>2. ASSUME RefusedAny(d, s, store[d], skp, m, new) PROVE FALSE
  <2>1. PICK s0 \in Session : SessionOf(d, s, store[d], m, s0)
                              /\ RefusedOnTheWay(s0, skp, m, new)
    BY <1>2 DEF RefusedAny
  <2> DEFINE t == s0.state
             old == GetAmountSkipped(t.nr, m.pn)
             s2 == WithState(s0, s0.init, Ratcheted(t, m.dh, new))
             kept == skp \cup PassedKeys(t, m.pn)
  <2>2. t.nr = s.state.nr /\ t.dhr = s.state.dhr
    BY <1>1, <2>1, SessionOfType
  <2>3. t \in State /\ t.nr \in Nat /\ s0.init \in SESSION_UNINIT .. SESSION_HEARTBEAT
    BY DEF Session, State
  <2>4. Cardinality(skp) \in Nat /\ MaxSkip \in Nat
    BY <1>1, FS_CardinalityType, SessionAssumption
  <2>5. CASE t.dhr = m.dh
    <3>1. t.nr < m.n => Cardinality(skp) + (m.n - t.nr) <= MaxSkip
      BY <2>2, <2>5 DEF KeysToSkip, GetAmountSkipped
    <3>2. ~RefusedIn(s0, skp, m.n, GetAmountSkipped(t.nr, m.n))
      BY <1>1, <3>1, NotRefused
    <3> QED BY <2>1, <2>5, <3>2 DEF RefusedOnTheWay
  <2>6. CASE t.dhr # m.dh
    <3>1. Cardinality(skp) + (old + m.n) <= MaxSkip
      BY <2>2, <2>6 DEF KeysToSkip
    <3>2. old \in Nat /\ (t.nr < m.pn => old = m.pn - t.nr)
      BY <1>1, <2>3 DEF GetAmountSkipped
    <3>3. ~RefusedIn(s0, skp, m.pn, old + m.n)
      <4>1. t.nr < m.pn => Cardinality(skp) + (m.pn - t.nr) <= MaxSkip
        BY <1>1, <2>4, <3>1, <3>2
      <4> QED BY <1>1, <4>1, NotRefused
    <3>4. IsFiniteSet(kept) /\ Cardinality(kept) <= Cardinality(skp) + old
      <4> DEFINE P == PassedKeys(t, m.pn)
      <4>1. IsFiniteSet(P) /\ Cardinality(P) <= old
        BY <1>1, <2>3, PassedKeysFinite
      <4> HIDE DEF P, old
      <4>2. /\ IsFiniteSet(skp \cup P) /\ IsFiniteSet(skp \cap P)
            /\ Cardinality(skp \cup P)
                 = Cardinality(skp) + Cardinality(P) - Cardinality(skp \cap P)
        BY <1>1, <4>1, FS_Union, FS_Intersection
      <4>3. Cardinality(P) \in Nat /\ Cardinality(skp \cap P) \in Nat
        BY <4>1, <4>2, FS_CardinalityType
      <4> QED BY <2>4, <3>2, <4>1, <4>2, <4>3 DEF P
    <3>5. s2 \in Session /\ s2.state.nr = 0
      <4>1. Ratcheted(t, m.dh, new) \in State
        BY <1>1, <2>3, RatchetedType
      <4>2. Ratcheted(t, m.dh, new).nr = 0
        BY DEF Ratcheted
      <4> HIDE DEF new
      <4> QED BY <2>3, <4>1, <4>2, WithStateType DEF WithState
    <3>6. ~RefusedIn(s2, kept, m.n, old)
      <4>1. Cardinality(kept) \in Nat
        BY <3>4, FS_CardinalityType
      <4> HIDE DEF s2, kept, old
      <4>2. s2.state.nr < m.n => Cardinality(kept) + (m.n - s2.state.nr) <= MaxSkip
        BY <1>1, <2>4, <3>1, <3>2, <3>4, <3>5, <4>1
      <4> QED BY <1>1, <3>4, <3>5, <4>2, NotRefused
    <3> QED BY <2>1, <2>6, <3>3, <3>6 DEF RefusedOnTheWay
  <2> QED BY <2>5, <2>6
<1> DEFINE r == omemoDecryptKey(d, s, store[d], skp, m, new, "none")
<1>3. DecryptOutcomes(d, s, store[d], skp, m, new, "none", r)
  BY <1>1, DecryptOutcome
<1> HIDE DEF r
<1>4. r.ret # OMEMO_EUSER
  BY <1>2, <1>3 DEF DecryptOutcomes, OMEMO_EUSER, LoadFails
<1> QED BY <1>4 DEF r, Decrypted

----------------------------------------------------------------------------
(* Nothing is lost: who made the last ratchet step, and where the key of a *)
(* message is that was not read yet.                                       *)

(* State t made the ratchet step to the key pair that state u has.         *)
AheadOf(t, u) == t.rk = DeriveRootKey(u.rk, t.dhs, u.dhs) /\ t.dhr = u.dhs

(* One of the two is a step ahead of the other, which still receives on    *)
(* the chain that the one ahead left behind.                               *)
Linked(d, p) ==
  Started(d) /\ Started(p) /\ ~BothInit =>
    /\ AheadOf(T(d), T(p)) \/ AheadOf(T(p), T(d))
    /\ session[d].init = SESSION_INIT => AheadOf(T(p), T(d))
    /\ AheadOf(T(p), T(d)) => \A m \in Genuine(d) : m.dh = T(d).dhr => m.n < T(p).pn

(* The key of a message: used, kept, still to come in the receiving chain, *)
(* or in the chain of the step that the peer is ahead.                     *)
Accounted(d, p, m) ==
  \/ m.body \in accepted[d]
  \/ \E k \in skipped[d] : k.dh = m.dh /\ k.nr = m.n
  \/ m.dh = T(d).dhr /\ m.n >= T(d).nr
  \/ AheadOf(T(p), T(d)) /\ m.dh = T(p).dhs

Covered(d, p) ==
  Started(d) /\ ~BothInit => \A m \in Genuine(d) : Accounted(d, p, m)

Complete(d, p) == Linked(d, p) /\ Covered(d, p)

LEMMA AheadLonger ==
  ASSUME NEW t \in State, NEW u \in State, AheadOf(t, u)
  PROVE  /\ Len(t.rk) = Len(u.rk) + 1 /\ Len(u.rk) \in Nat
         /\ ~AheadOf(u, t)
<1>1. t.dhs \in PubKey /\ u.dhs \in PubKey /\ u.rk \in RootKey /\ t.rk \in RootKey
  BY DEF State
<1>2. Len(t.rk) = Len(u.rk) + 1
  BY <1>1, DeriveType DEF AheadOf
<1>3. AheadOf(u, t) => Len(u.rk) = Len(t.rk) + 1
  BY <1>1, DeriveType DEF AheadOf
<1>4. Len(u.rk) \in Nat
  BY <1>1, RootLength
<1> QED BY <1>2, <1>3, <1>4

(* What a step of device x leaves of its peer.                             *)
LEMMA PeerFacts ==
  ASSUME Inv, NEW x \in Device, NEW p, p = Peer(x), Acts(x)
  PROVE  /\ p \in Device /\ p # x /\ Peer(p) = x
         /\ T(x) \in State /\ T(p) \in State /\ T(p)' = T(p)
         /\ session'[p] = session[p] /\ skipped'[p] = skipped[p]
         /\ accepted'[p] = accepted[p]
         /\ Started(p)' = Started(p) /\ Established(p)' = Established(p)
         /\ Genuine(x)' = Genuine(x)
         /\ BothInit <=> session[x].init = SESSION_INIT /\ session[p].init = SESSION_INIT
         /\ BothInit' <=> session'[x].init = SESSION_INIT /\ session'[p].init = SESSION_INIT
<1>1. /\ p \in Device /\ p # x /\ Peer(p) = x /\ \A e \in Device : e = x \/ e = p
  BY TwoDevices
<1>2. session'[p] = session[p] /\ skipped'[p] = skipped[p] /\ accepted'[p] = accepted[p]
  BY <1>1, OtherKept DEF Acts, Inv
<1>3. T(x) \in State /\ T(p) \in State
  BY <1>1 DEF Inv, TypeInv, Types, T, Session
<1>4. Genuine(x)' = Genuine(x)
  BY StepFacts
<1>5. T(p)' = T(p) /\ Started(p)' = Started(p) /\ Established(p)' = Established(p)
  BY <1>2 DEF T, Started, Established
<1>6. /\ BothInit <=> session[x].init = SESSION_INIT /\ session[p].init = SESSION_INIT
      /\ BothInit' <=> session'[x].init = SESSION_INIT /\ session'[p].init = SESSION_INIT
  BY <1>1 DEF BothInit
<1> QED BY <1>1, <1>2, <1>3, <1>4, <1>5, <1>6

(* Only a device with a session has sent anything.                         *)
LEMMA SenderStarted ==
  ASSUME Inv, NEW d \in Device, NEW m \in Genuine(d)
  PROVE  Started(Peer(d))
<1>1. Unstarted(Peer(d)) /\ sent[Peer(d)] # {}
  BY TwoDevices DEF Inv, Talk, Genuine
<1> QED BY <1>1 DEF Unstarted

LEMMA QuietWhole ==
  ASSUME Inv, NEW x \in Device, NEW p, p = Peer(x), Acts(x), Quiet(x),
         Complete(x, p), Complete(p, x)
  PROVE  (Complete(x, p) /\ Complete(p, x))'
<1>1. /\ T(x)' = T(x) /\ T(p)' = T(p) /\ sent' = sent /\ skipped' = skipped
      /\ accepted' = accepted
      /\ session'[p].init = session[p].init
  BY PeerFacts DEF Quiet
<1>2. /\ Started(x)' <=> Started(x)
      /\ session'[x].init = SESSION_INIT <=> session[x].init = SESSION_INIT
      /\ Started(p)' <=> Started(p)
      /\ BothInit' <=> BothInit
  BY PeerFacts, PhasesKept
<1>3. Genuine(x)' = Genuine(x) /\ Genuine(p)' = Genuine(p)
  BY <1>1 DEF Genuine
<1>4. /\ \A m : Accounted(x, p, m)' <=> Accounted(x, p, m)
      /\ \A m : Accounted(p, x, m)' <=> Accounted(p, x, m)
  BY <1>1 DEF Accounted, AheadOf
<1> QED BY <1>1, <1>2, <1>3, <1>4 DEF Complete, Linked, Covered, AheadOf

LEMMA BegunWhole ==
  ASSUME Inv, NEW x \in Device, NEW p, p = Peer(x), Acts(x), Begun(x)
  PROVE  (Complete(x, p) /\ Complete(p, x))'
<1>1. ~Started(x) /\ ~Established(x) /\ session'[x].init = SESSION_INIT
      /\ sent' = sent
  BY BegunState, Phases DEF Begun
<1>2. p \in Device /\ Peer(p) = x /\ session'[p] = session[p] /\ Started(p)' = Started(p)
  BY PeerFacts
<1>3. Started(p) => session[p].init = SESSION_INIT
  BY <1>1, <1>2, Phases DEF Inv, Talk, Roles
<1>4. Started(p) => BothInit'
  BY <1>1, <1>2, <1>3, PeerFacts
<1>5. ~Started(p) => Genuine(x)' = {}
  BY <1>1, <1>2 DEF Inv, Talk, Unstarted, Genuine
<1> QED BY <1>2, <1>4, <1>5 DEF Complete, Linked, Covered

(* The chain that a device is left on by its peer is not the peer's        *)
(* current one.                                                            *)
LEMMA LeftChain ==
  ASSUME Inv, NEW d \in Device, NEW p, p = Peer(d), Started(d), Started(p),
         AheadOf(T(p), T(d)) \/ session[d].init = SESSION_INIT
  PROVE  T(d).dhr # T(p).dhs
<1>1. p \in Device /\ Peer(p) = d
  BY TwoDevices
<1>2. T(d) \in State /\ T(p) \in State
  BY <1>1 DEF Inv, TypeInv, Types, T, Session
<1>3. T(p).dhs \in Made(p)
  BY <1>1 DEF Inv, Talk, Chains
<1>4. CASE session[d].init = SESSION_INIT
  BY <1>3, <1>4 DEF Inv, Talk, Waiting, SignedKeys, Made
<1>5. CASE session[d].init # SESSION_INIT
  <2>1. Established(d) /\ AheadOf(T(p), T(d))
    BY <1>5, Phases
  <2>2. PICK m \in Genuine(d) : m.dh = T(d).dhr /\ m.mk.root = T(d).ckr.root
    BY <2>1 DEF Inv, Talk, Receiving
  <2>3. m.dh = T(p).dhs <=> m.mk.root = T(p).rk
    BY GenuineSent DEF SentBy
  <2>4. Len(T(d).ckr.root) < Len(T(d).rk) /\ Len(T(d).ckr.root) \in Nat
    BY ReceivingChain
  <2>5. Len(T(p).rk) = Len(T(d).rk) + 1 /\ Len(T(d).rk) \in Nat
    BY <1>2, <2>1, AheadLonger
  <2>6. m.mk.root # T(p).rk
    BY <2>2, <2>4, <2>5
  <2> QED BY <2>2, <2>3, <2>6
<1> QED BY <1>4, <1>5

LEMMA SpokeWhole ==
  ASSUME Inv, NEW x \in Device, NEW p, p = Peer(x), Acts(x), SpokeOnce(x),
         Complete(x, p), Complete(p, x)
  PROVE  (Complete(x, p) /\ Complete(p, x))'
<1>1. PICK hb \in BOOLEAN : Spoke(x, hb)
  BY DEF SpokeOnce
<1> DEFINE new == NextMessage(session[x], Body(x))
<1>2. /\ Started(x) /\ skipped' = skipped /\ accepted' = accepted
      /\ sent'[x] = sent[x] \cup {[m |-> new, hb |-> hb]}
  BY <1>1 DEF Spoke
<1>3. /\ T(x)'.dhs = T(x).dhs /\ T(x)'.dhr = T(x).dhr /\ T(x)'.rk = T(x).rk
      /\ T(x)'.ns = T(x).ns + 1 /\ T(x)'.nr = T(x).nr /\ T(x)'.pn = T(x).pn
  BY <1>1, SpokeState
<1>4. p \in Device /\ Peer(p) = x /\ T(p)' = T(p) /\ Genuine(x)' = Genuine(x)
      /\ T(x) \in State /\ T(p) \in State /\ session'[p].init = session[p].init
      /\ Started(p)' = Started(p)
  BY PeerFacts
<1>5. /\ Started(x)' <=> Started(x)
      /\ session'[x].init = SESSION_INIT <=> session[x].init = SESSION_INIT
      /\ BothInit' <=> BothInit
  BY <1>4, PeerFacts, PhasesKept
<1>6. Genuine(p)' = Genuine(p) \cup {new}
  <2> HIDE DEF new
  <2>1. PICK e : e.m = new /\ sent'[x] = sent[x] \cup {e}
    BY <1>2
  <2>2. Genuine(p) = {g.m : g \in sent[x]} /\ Genuine(p)' = {g.m : g \in sent'[x]}
    BY <1>4 DEF Genuine
  <2> QED BY <2>1, <2>2
<1>7. new.dh = T(x).dhs /\ new.n = T(x).ns /\ new.pn = T(x).pn
  BY DEF NextMessage, T
<1> HIDE DEF new
<1>8. /\ AheadOf(T(x), T(p))' <=> AheadOf(T(x), T(p))
      /\ AheadOf(T(p), T(x))' <=> AheadOf(T(p), T(x))
  BY <1>3, <1>4 DEF AheadOf
<1>9. Linked(x, p)'
  BY <1>3, <1>4, <1>5, <1>8 DEF Linked, Complete
<1>10. Linked(p, x)'
  <2> SUFFICES ASSUME Started(x), Started(p), ~BothInit, AheadOf(T(x), T(p)),
                      NEW m \in Genuine(p)', m.dh = T(p).dhr
               PROVE  m.n < T(x).pn
    BY <1>3, <1>4, <1>5, <1>8 DEF Linked, Complete
  <2>1. T(p).dhr # T(x).dhs
    BY <1>4, LeftChain
  <2>2. m \in Genuine(p)
    BY <1>6, <1>7, <2>1
  <2> QED BY <2>2 DEF Linked, Complete
<1>11. /\ \A m : Accounted(x, p, m)' <=> Accounted(x, p, m)
       /\ \A m : Accounted(p, x, m)' <=> Accounted(p, x, m)
  BY <1>2, <1>3, <1>4, <1>8 DEF Accounted
<1>12. Covered(x, p)'
  BY <1>4, <1>5, <1>11 DEF Covered, Complete
<1>13. Covered(p, x)'
  <2> SUFFICES ASSUME Started(p), ~BothInit, NEW m \in Genuine(p)'
               PROVE  Accounted(p, x, m)
    BY <1>4, <1>5, <1>11 DEF Covered
  <2>1. CASE m \in Genuine(p)
    BY <2>1 DEF Covered, Complete
  <2>2. CASE m = new
    <3>1. CASE AheadOf(T(x), T(p))
      BY <1>7, <2>2, <3>1 DEF Accounted
    <3>2. CASE ~AheadOf(T(x), T(p))
      <4>1. AheadOf(T(p), T(x)) /\ session[p].init # SESSION_INIT
        BY <1>2, <3>2 DEF Linked, Complete
      <4>2. T(p).dhr = T(x).dhs /\ Established(p)
        BY <1>4, <4>1, Phases DEF AheadOf
      <4>3. T(p).nr <= T(x).ns
        BY <1>4, <4>2, InvChainAgreement DEF ChainAgreement, T
      <4>4. m.dh = T(p).dhr /\ m.n >= T(p).nr
        <5>1. T(p).nr \in Nat /\ T(x).ns \in Nat
          BY <1>4 DEF State
        <5> QED BY <1>7, <2>2, <4>2, <4>3, <5>1
      <4> QED BY <4>4 DEF Accounted
    <3> QED BY <3>1, <3>2
  <2> QED BY <1>6, <2>1, <2>2
<1> QED BY <1>9, <1>10, <1>12, <1>13 DEF Complete

(* One key pair, one number: one message.                                  *)
LEMMA SameNumber ==
  ASSUME Inv, NEW d \in Device, NEW m1 \in Genuine(d), NEW m2 \in Genuine(d),
         m1.dh = m2.dh, m1.n = m2.n
  PROVE  m1 = m2
<1>1. Sending(Peer(d))
  BY TwoDevices DEF Inv, Talk
<1>2. m1.mk.root = m2.mk.root
  BY <1>1 DEF Sending, Genuine
<1>3. m1.mk.i = m1.n /\ m2.mk.i = m2.n /\ m1.mk \in ChainKey /\ m2.mk \in ChainKey
  BY GenuineSent DEF SentBy, Message
<1>4. m1.mk = m2.mk
  BY <1>2, <1>3 DEF ChainKey
<1> QED BY <1>4, BodiesDiffer

(* Every key on the way is kept.                                           *)
LEMMA KeptOnTheWay ==
  ASSUME Callbacks # "none", NEW dh, NEW root, NEW first \in Nat, NEW n \in Nat,
         NEW j \in Nat, first <= j, j < n
  PROVE  \E k \in KeysOf(dh, root, first, n) : k.dh = dh /\ k.nr = j
<1> DEFINE k == [dh |-> dh, nr |-> j, mk |-> [root |-> root, i |-> j]]
<1>1. j \in first .. n - 1
  OBVIOUS
<1>2. k \in KeysOf(dh, root, first, n)
  BY <1>1 DEF KeysOf
<1> QED BY <1>2

(* No message opens while both ends wait for an answer.                    *)
LEMMA ReadsAlone ==
  ASSUME Inv, NEW x \in Device, NEW p, p = Peer(x), Acts(x),
         NEW m \in Genuine(x), Reads(x, m)
  PROVE  ~BothInit /\ ~BothInit' /\ Started(p) /\ Started(x)' /\ Established(x)'
         /\ session'[x].init # SESSION_INIT /\ Genuine(p)' = Genuine(p)
<1>1. Started(p)
  BY SenderStarted
<1>2. Started(x)' /\ Established(x)' /\ session'[x].init # SESSION_INIT
  BY PhasesKept DEF ReadsOne
<1>3. ~BothInit
  <2> SUFFICES ASSUME session[x].init = SESSION_INIT, session[p].init = SESSION_INIT
               PROVE  FALSE
    BY PeerFacts
  <2>1. ~m.isprekey
    BY DEF Reads
  <2>2. p \in Device /\ Waiting(p)
    BY PeerFacts DEF Inv, Talk
  <2>3. \A g \in Genuine(x) : g.isprekey
    BY <2>2 DEF Waiting, Genuine
  <2> QED BY <2>1, <2>3
<1>4. ~BothInit'
  BY <1>2, PeerFacts
<1>5. Genuine(p)' = Genuine(p)
  BY PeerFacts DEF Reads, Genuine
<1> QED BY <1>1, <1>2, <1>3, <1>4, <1>5

(* Reading in a chain that is known changes neither's lead.                *)
LEMMA ReadOldWhole ==
  ASSUME Callbacks # "none", Inv, NEW x \in Device, NEW p, p = Peer(x), Acts(x),
         Complete(x, p), Complete(p, x),
         NEW m \in Genuine(x), Reads(x, m), ReadKept(x, m) \/ ReadNext(x, m)
  PROVE  (Complete(x, p) /\ Complete(p, x))'
<1>1. /\ ~BothInit /\ ~BothInit' /\ Started(p) /\ Genuine(p)' = Genuine(p)
      /\ session'[x].init # SESSION_INIT
  BY ReadsAlone
<1>2. /\ p \in Device /\ Peer(p) = x /\ T(p)' = T(p) /\ Genuine(x)' = Genuine(x)
      /\ T(x) \in State /\ session'[p] = session[p]
      /\ skipped'[p] = skipped[p] /\ accepted'[p] = accepted[p]
      /\ Started(p)' = Started(p)
  BY PeerFacts
<1>3. /\ T(x)'.dhs = T(x).dhs /\ T(x)'.dhr = T(x).dhr /\ T(x)'.rk = T(x).rk
      /\ T(x)'.pn = T(x).pn /\ Established(x)
  BY ReadOldState
<1>4. Started(x)
  BY <1>3, Phases
<1>5. /\ AheadOf(T(x), T(p))' <=> AheadOf(T(x), T(p))
      /\ AheadOf(T(p), T(x))' <=> AheadOf(T(p), T(x))
  BY <1>2, <1>3 DEF AheadOf
<1>6. Linked(x, p)' /\ Linked(p, x)'
  BY <1>1, <1>2, <1>3, <1>4, <1>5 DEF Linked, Complete
<1>7. Covered(p, x)'
  <2>1. \A g : Accounted(p, x, g)' <=> Accounted(p, x, g)
    BY <1>2, <1>3, <1>5 DEF Accounted
  <2> QED BY <1>1, <1>2, <2>1 DEF Covered, Complete
<1>8. Covered(x, p)'
  <2> SUFFICES ASSUME NEW g \in Genuine(x) PROVE Accounted(x, p, g)'
    BY <1>2 DEF Covered
  <2>1. Accounted(x, p, g)
    BY <1>1, <1>4 DEF Covered, Complete
  <2>2. accepted'[x] = accepted[x] \cup {m.body}
    BY DEF Reads
  <2>3. g = m => Accounted(x, p, g)'
    BY <2>2 DEF Accounted
  <2>4. g.dh = m.dh /\ g.n = m.n => g = m
    BY SameNumber
  <2>5. CASE g.body \in accepted[x]
    BY <2>2, <2>5 DEF Accounted
  <2>6. CASE AheadOf(T(p), T(x)) /\ g.dh = T(p).dhs
    BY <1>2, <1>5, <2>6 DEF Accounted
  <2>7. CASE ReadKept(x, m)
    <3>1. T(x)' = T(x) /\ skipped'[x] = skipped[x] \ Matching(x, m)
      BY <2>7 DEF ReadKept
    <3>2. ASSUME NEW k \in skipped[x], k.dh = g.dh, k.nr = g.n PROVE Accounted(x, p, g)'
      <4>1. CASE k \in Matching(x, m)
        BY <2>3, <2>4, <3>2, <4>1 DEF Matching
      <4>2. CASE k \notin Matching(x, m)
        BY <3>1, <3>2, <4>2 DEF Accounted
      <4> QED BY <4>1, <4>2
    <3>3. CASE g.dh = T(x).dhr /\ g.n >= T(x).nr
      BY <3>1, <3>3 DEF Accounted
    <3> QED BY <2>1, <2>5, <2>6, <3>2, <3>3 DEF Accounted
  <2>8. CASE ReadNext(x, m)
    <3> DEFINE N == KeysOf(T(x).dhr, T(x).ckr.root, T(x).nr, m.n)
    <3>1. /\ T(x)'.dhr = T(x).dhr /\ T(x)'.nr = m.n + 1 /\ T(x).dhr = m.dh
          /\ skipped'[x] = skipped[x] \cup N
      BY <2>8 DEF ReadNext
    <3>2. ASSUME NEW k \in skipped[x], k.dh = g.dh, k.nr = g.n PROVE Accounted(x, p, g)'
      BY <3>1, <3>2 DEF Accounted
    <3>3. CASE g.dh = T(x).dhr /\ g.n >= T(x).nr
      <4>1. m.n \in Nat /\ g.n \in Nat /\ T(x).nr \in Nat
        BY <1>2, GenuineSent DEF Incoming, State
      <4>2. CASE g.n > m.n
        <5>1. g.n >= m.n + 1
          BY <4>1, <4>2
        <5> QED BY <3>1, <3>3, <5>1 DEF Accounted
      <4>3. CASE g.n = m.n
        BY <2>3, <2>4, <3>1, <3>3, <4>3
      <4>4. CASE g.n < m.n
        <5>1. \E k \in N : k.dh = T(x).dhr /\ k.nr = g.n
          BY <3>3, <4>1, <4>4, KeptOnTheWay
        <5> QED BY <3>1, <3>3, <5>1 DEF Accounted
      <4> QED BY <4>1, <4>2, <4>3, <4>4
    <3> QED BY <2>1, <2>5, <2>6, <3>2, <3>3 DEF Accounted
  <2> QED BY <2>7, <2>8
<1> QED BY <1>6, <1>7, <1>8 DEF Complete

(* A chain that is new to its reader is the one the peer sends on, and the *)
(* reader is ahead after it.                                               *)
LEMMA NewIsCurrent ==
  ASSUME Inv, NEW x \in Device, NEW p, p = Peer(x), Acts(x), Linked(x, p),
         NEW m \in Genuine(x), Reads(x, m),
         NEW rk \in RootKey, NEW dhs \in PubKey, ReadNew(x, m, rk, dhs)
  PROVE  /\ m.mk.root = T(p).rk /\ m.dh = T(p).dhs /\ m.pn = T(p).pn
         /\ AheadOf(T(x)', T(p))
         /\ Started(x) => AheadOf(T(p), T(x))
         /\ ~Started(x) => session[p].init = SESSION_INIT
<1> DEFINE rk1 == DeriveRootKey(rk, dhs, m.dh)
<1>1. p \in Device /\ Peer(p) = x /\ T(x) \in State /\ T(p) \in State
  BY PeerFacts
<1>2. ~BothInit /\ Started(p)
  BY ReadsAlone
<1>3. SentBy(p, m)
  BY GenuineSent
<1>4. StartsChain(x, m, rk, rk1)
  BY NewRoots
<1>5. /\ m.mk = [root |-> rk1, i |-> m.n] /\ T(x)'.dhs = NewKey(x) /\ T(x)'.dhr = m.dh
      /\ T(x)'.rk = DeriveRootKey(rk1, NewKey(x), m.dh)
  BY DEF ReadNew
<1>6. m.mk.root = rk1
  BY <1>5
<1>7. CASE Started(x)
  <2>1. Len(rk1) = Len(T(x).rk) + 1 /\ Len(T(x).rk) \in Nat
    BY <1>4, <1>7 DEF StartsChain
  <2>2. AheadOf(T(x), T(p)) \/ AheadOf(T(p), T(x))
    BY <1>2, <1>7 DEF Linked
  <2>3. m.mk.root = T(p).rk \/ Len(m.mk.root) < Len(T(p).rk)
    BY <1>3 DEF SentBy
  <2> HIDE DEF rk1
  <2>4. ~AheadOf(T(x), T(p))
    <3> SUFFICES ASSUME AheadOf(T(x), T(p)) PROVE FALSE
      OBVIOUS
    <3>1. Len(T(x).rk) = Len(T(p).rk) + 1 /\ Len(T(p).rk) \in Nat
      BY <1>1, AheadLonger
    <3>2. Len(rk1) = Len(T(p).rk) \/ Len(rk1) < Len(T(p).rk)
      BY <1>6, <2>3
    <3> QED BY <2>1, <3>1, <3>2
  <2>5. Len(T(p).rk) = Len(T(x).rk) + 1
    BY <1>1, <2>2, <2>4, AheadLonger
  <2>6. m.mk.root = T(p).rk
    BY <1>6, <2>1, <2>3, <2>5
  <2> QED BY <1>7, <2>2, <2>4, <2>6, <1>3, <1>5, <1>6 DEF SentBy, AheadOf
<1>8. CASE ~Started(x)
  <2>1. m.isprekey /\ Leads(p)
    BY <1>3, <1>8 DEF Reads, SentBy
  <2>2. ~Established(x) /\ ~Established(p)
    BY <1>1, <1>8, <2>1, Phases DEF Inv, Talk, Roles
  <2>3. session[p].init = SESSION_INIT
    BY <1>1, <1>2, <2>2, Phases
  <2>4. m.mk.root = T(p).rk
    BY <1>1, <2>3 DEF Inv, Talk, Waiting, Genuine
  <2> HIDE DEF rk1
  <2> QED BY <1>3, <1>5, <1>6, <1>8, <2>3, <2>4 DEF SentBy, AheadOf
<1> QED BY <1>7, <1>8

LEMMA ReadNewWhole ==
  ASSUME Callbacks # "none", Inv, NEW x \in Device, NEW p, p = Peer(x), Acts(x),
         T(x)' \in State, Complete(x, p), Complete(p, x),
         NEW m \in Genuine(x), Reads(x, m),
         NEW rk \in RootKey, NEW dhs \in PubKey, ReadNew(x, m, rk, dhs)
  PROVE  (Complete(x, p) /\ Complete(p, x))'
<1> DEFINE A == KeysOf(T(x).dhr, T(x).ckr.root, T(x).nr, m.pn)
           B == KeysOf(m.dh, DeriveRootKey(rk, dhs, m.dh), 0, m.n)
<1>1. /\ ~BothInit /\ ~BothInit' /\ Started(p) /\ Genuine(p)' = Genuine(p)
      /\ session'[x].init # SESSION_INIT
  BY ReadsAlone
<1>2. /\ p \in Device /\ Peer(p) = x /\ T(p)' = T(p) /\ Genuine(x)' = Genuine(x)
      /\ T(x) \in State /\ T(p) \in State /\ session'[p] = session[p]
      /\ skipped'[p] = skipped[p] /\ accepted'[p] = accepted[p]
      /\ Started(p)' = Started(p)
  BY PeerFacts
<1>3. /\ m.mk.root = T(p).rk /\ m.dh = T(p).dhs /\ m.pn = T(p).pn
      /\ AheadOf(T(x)', T(p))
      /\ Started(x) => AheadOf(T(p), T(x))
      /\ ~Started(x) => session[p].init = SESSION_INIT
  BY NewIsCurrent DEF Complete
<1>4. AheadOf(T(x), T(p))' /\ ~AheadOf(T(p), T(x))'
  <2>1. AheadOf(T(x), T(p))'
    BY <1>2, <1>3 DEF AheadOf
  <2>2. ~AheadOf(T(p), T(x)')
    BY <1>2, <1>3, AheadLonger
  <2> QED BY <1>2, <2>1, <2>2 DEF AheadOf
<1>5. /\ T(x)'.dhr = m.dh /\ T(x)'.nr = m.n + 1 /\ T(x)'.pn = T(x).ns
      /\ skipped'[x] = skipped[x] \cup A \cup B
  BY DEF ReadNew
<1>6. m.n \in Nat /\ m.pn \in Nat /\ T(x).nr \in Nat
  BY <1>2, GenuineSent DEF Incoming, State
<1>7. Linked(x, p)'
  BY <1>1, <1>4 DEF Linked
<1>8. Linked(p, x)'
  <2> SUFFICES ASSUME NEW g \in Genuine(p), g.dh = T(p).dhr PROVE g.n < T(x).ns
    BY <1>1, <1>2, <1>4, <1>5 DEF Linked
  <2>1. Started(x) /\ SentBy(x, g)
    BY <1>2, SenderStarted, GenuineSent
  <2>2. T(p).dhr = T(x).dhs
    BY <1>3, <2>1 DEF AheadOf
  <2> QED BY <2>1, <2>2 DEF SentBy
<1>9. Covered(p, x)'
  <2> SUFFICES ASSUME NEW g \in Genuine(p) PROVE Accounted(p, x, g)'
    BY <1>1 DEF Covered
  <2>1. Accounted(p, x, g)
    BY <1>1 DEF Covered, Complete
  <2>2. Started(x)
    BY <1>2, SenderStarted
  <2>3. ~AheadOf(T(x), T(p))
    BY <1>2, <1>3, <2>2, AheadLonger
  <2> QED BY <1>2, <2>1, <2>3 DEF Accounted
<1>10. Covered(x, p)'
  <2> SUFFICES ASSUME NEW g \in Genuine(x) PROVE Accounted(x, p, g)'
    BY <1>2 DEF Covered
  <2>1. accepted'[x] = accepted[x] \cup {m.body}
    BY DEF Reads
  <2>2. ASSUME g.dh = T(p).dhs PROVE Accounted(x, p, g)'
    <3>1. g.n \in Nat /\ 0 \in Nat /\ 0 <= g.n
      BY GenuineSent DEF Incoming
    <3>2. CASE g.n > m.n
      <4>1. g.n >= m.n + 1
        BY <1>6, <3>1, <3>2
      <4> QED BY <1>3, <1>5, <2>2, <4>1 DEF Accounted
    <3>3. CASE g.n = m.n
      <4>1. g = m
        BY <1>3, <2>2, <3>3, SameNumber
      <4> QED BY <2>1, <4>1 DEF Accounted
    <3>4. CASE g.n < m.n
      <4>1. \E k \in B : k.dh = m.dh /\ k.nr = g.n
        BY <1>6, <3>1, <3>4, KeptOnTheWay
      <4> HIDE DEF A, B
      <4> QED BY <1>3, <1>5, <2>2, <4>1 DEF Accounted
    <3> QED BY <1>6, <3>1, <3>2, <3>3, <3>4
  <2>3. CASE ~Started(x)
    <3>1. g.mk.root = T(p).rk
      BY <1>2, <1>3, <2>3 DEF Inv, Talk, Waiting, Genuine
    <3>2. g.dh = T(p).dhs
      BY <3>1, GenuineSent DEF SentBy
    <3> QED BY <2>2, <3>2
  <2>4. CASE Started(x)
    <3>1. Accounted(x, p, g)
      BY <1>1, <2>4 DEF Covered, Complete
    <3>2. CASE g.dh = T(x).dhr /\ g.n >= T(x).nr
      <4>1. g.n < m.pn
        BY <1>1, <1>3, <2>4, <3>2 DEF Linked, Complete
      <4>2. g.n \in Nat
        BY GenuineSent DEF Incoming
      <4>3. \E k \in A : k.dh = T(x).dhr /\ k.nr = g.n
        BY <1>6, <3>2, <4>1, <4>2, KeptOnTheWay
      <4> HIDE DEF A, B
      <4> QED BY <1>5, <3>2, <4>3 DEF Accounted
    <3>3. CASE g.body \in accepted[x]
      BY <2>1, <3>3 DEF Accounted
    <3>4. ASSUME NEW k \in skipped[x], k.dh = g.dh, k.nr = g.n PROVE Accounted(x, p, g)'
      BY <1>5, <3>4 DEF Accounted
    <3> QED BY <2>2, <3>1, <3>2, <3>3, <3>4 DEF Accounted
  <2> QED BY <2>3, <2>4
<1> QED BY <1>7, <1>8, <1>9, <1>10 DEF Complete

Inv3 == Inv2 /\ \A d \in Device : Complete(d, Peer(d))

LEMMA InitWhole == Init => \A d \in Device : Complete(d, Peer(d))
  BY DEF Init, Complete, Linked, Covered, Started, ZeroSession

LEMMA NextInv3 == Rollback /\ Callbacks # "none" /\ Inv3 /\ [Next]_vars => Inv3'
<1> SUFFICES ASSUME Rollback, Callbacks # "none", Inv3, [Next]_vars PROVE Inv3'
  OBVIOUS
<1>1. Inv /\ Inv2' /\ Inv'
  BY NextInv2 DEF Inv3, Inv2
<1>2. PICK x \in Device : Acts(x)
  BY <1>1, StepCases DEF Inv, Talk
<1>3. PICK p : p = Peer(x)
  OBVIOUS
<1>4. p \in Device /\ Peer(p) = x /\ \A d \in Device : d = x \/ d = p
  BY <1>3, TwoDevices
<1>5. Complete(x, p) /\ Complete(p, x)
  BY <1>3, <1>4 DEF Inv3
<1>6. T(x)' \in State
  BY <1>1 DEF Inv, TypeInv, Types, T, Session
<1>7. (Complete(x, p) /\ Complete(p, x))'
  <2>1. CASE Quiet(x)
    BY <1>1, <1>2, <1>3, <1>5, <2>1, QuietWhole
  <2>2. CASE Begun(x)
    BY <1>1, <1>2, <1>3, <2>2, BegunWhole
  <2>3. CASE SpokeOnce(x)
    BY <1>1, <1>2, <1>3, <1>5, <2>3, SpokeWhole
  <2>4. ASSUME NEW m \in Genuine(x), Reads(x, m) PROVE (Complete(x, p) /\ Complete(p, x))'
    <3>1. CASE ReadKept(x, m) \/ ReadNext(x, m)
      BY <1>1, <1>2, <1>3, <1>5, <2>4, <3>1, ReadOldWhole
    <3>2. ASSUME NEW rk \in RootKey, NEW dhs \in PubKey, ReadNew(x, m, rk, dhs)
          PROVE  (Complete(x, p) /\ Complete(p, x))'
      BY <1>1, <1>2, <1>3, <1>5, <1>6, <2>4, <3>2, ReadNewWhole
    <3> QED BY <2>4, <3>1, <3>2 DEF Reads
  <2> QED BY <1>1, <1>2, <2>1, <2>2, <2>3, <2>4, StepFacts DEF ReadsOne
<1>8. \A d \in Device : Complete(d, Peer(d))'
  BY <1>3, <1>4, <1>7
<1> QED BY <1>1, <1>8 DEF Inv3

(* A message that is accounted for has its key where its reader looks.     *)
LEMMA FindsKey ==
  ASSUME Inv, NEW d \in Device, Started(d), NEW m \in Genuine(d), NEW new,
         Complete(d, Peer(d)), ~BothInit, m.body \notin accepted[d], Matching(d, m) = {}
  PROVE  /\ T(d).dhr = m.dh => T(d).nr <= m.n /\ m.mk = KeyAt(T(d), m.n)
         /\ T(d).dhr # m.dh => m.mk = KeyAt(Ratcheted(T(d), m.dh, new), m.n)
<1> DEFINE p == Peer(d)
           rk1 == DeriveRootKey(T(d).rk, T(d).dhs, m.dh)
<1>1. /\ p \in Device /\ SentBy(p, m) /\ m.mk \in ChainKey /\ T(d) \in State
      /\ m.n \in Nat /\ m.dh \in Ephemeral(p) /\ T(d).nr \in Nat
  BY GenuineSent DEF Message, State
<1>2. m.mk = [root |-> m.mk.root, i |-> m.n]
  BY <1>1 DEF SentBy, ChainKey
<1>3. Accounted(d, p, m)
  BY DEF Complete, Covered
<1>4. \/ m.dh = T(d).dhr /\ m.n >= T(d).nr
      \/ AheadOf(T(p), T(d)) /\ m.dh = T(p).dhs
  BY <1>3 DEF Accounted, Matching
<1>5. AheadOf(T(p), T(d)) => T(d).dhr # T(p).dhs
  BY LeftChain, SenderStarted
<1>6. ASSUME T(d).dhr = m.dh PROVE T(d).nr <= m.n /\ m.mk = KeyAt(T(d), m.n)
  <2>1. m.n >= T(d).nr
    BY <1>4, <1>5, <1>6
  <2>2. PICK g \in Genuine(d) : g.dh = T(d).dhr /\ g.mk.root = T(d).ckr.root
    BY <1>1, <1>6, ReceivingChain
  <2>3. m.mk.root = T(d).ckr.root
    BY <1>1, <1>6, <2>2 DEF Inv, Talk, Sending, Genuine
  <2>4. KeyAt(T(d), m.n) = [root |-> T(d).ckr.root, i |-> m.n]
    BY <1>1, PassedIs, ReceivingChain
  <2> QED BY <1>1, <1>2, <2>1, <2>3, <2>4
<1>7. ASSUME T(d).dhr # m.dh PROVE m.mk = KeyAt(Ratcheted(T(d), m.dh, new), m.n)
  <2>1. AheadOf(T(p), T(d)) /\ m.dh = T(p).dhs
    BY <1>4, <1>7
  <2>2. m.mk.root = T(p).rk
    BY <1>1, <2>1 DEF SentBy
  <2>3. T(p).rk = rk1
    BY <2>1, DHSymmetric DEF AheadOf, DeriveRootKey
  <2> HIDE DEF rk1
  <2>4. Ratcheted(T(d), m.dh, new).ckr = [root |-> rk1, i |-> 0]
        /\ Ratcheted(T(d), m.dh, new).nr = 0
    BY DEF Ratcheted, FirstChain, rk1
  <2>5. KeyAt(Ratcheted(T(d), m.dh, new), m.n) = [root |-> rk1, i |-> m.n]
    BY <1>1, <2>4 DEF KeyAt
  <2> QED BY <1>2, <2>2, <2>3, <2>5
<1> QED BY <1>6, <1>7

LEMMA InvNothingLost == Inv3 => NothingLost
<1> SUFFICES ASSUME Inv3, NEW d \in Device, Started(d), ~BothInit, NEW m \in Genuine(d),
                    m.body \notin accepted[d]
             PROVE  Decrypted(d, m, "none").ret \in {0, OMEMO_EUSER}
  BY DEF NothingLost, Started
<1> DEFINE s == session[d]
           skp == skipped[d]
           new == NewKey(d)
           p == Peer(d)
<1>1. Inv /\ Complete(d, p)
  BY DEF Inv3, Inv2
<1>2. /\ s \in Session /\ m \in Incoming /\ new \in PubKey /\ store[d] \in Store
      /\ p \in Device /\ Peer(p) = d /\ SentBy(p, m)
      /\ Pub(d, "ik", store[d].identity) = OwnKey(d)
  <2>1. new \in PubKey
    BY <1>1 DEF NewKey, PubKey, Inv, TypeInv, Types
  <2>2. Pub(d, "ik", store[d].identity) = OwnKey(d) /\ store[d] \in Store
    BY <1>1, OwnKeyIs DEF Inv, TypeInv, Stores
  <2> QED BY <1>1, <2>1, <2>2, GenuineSent
<1>3. Loaded(skp, m) = Matching(d, m)
  BY <1>1 DEF Inv, Talk, Keeping, Loaded, Matching, omemoLoadMessageKey
<1>4. m.ad = <<OwnKey(p), OwnKey(d)>> /\ s.identity = OwnKey(d)
      /\ s.remoteidentity = OwnKey(p)
  BY <1>1, <1>2 DEF SentBy, Inv, Talk, Chains
<1>5. ~NoSessionFor(s, store[d], m)
  <2> SUFFICES ASSUME m.isprekey, s.init = SESSION_INIT PROVE FALSE
    BY DEF NoSessionFor, Started
  <2>1. Started(p) /\ Leads(p) /\ session[p].init # SESSION_INIT
    <3>1. session[p].init = SESSION_INIT => BothInit
      BY <1>2, TwoDevices DEF BothInit
    <3> QED BY <1>1, <1>2, <3>1, SenderStarted DEF SentBy
  <2>2. Established(p)
    BY <1>1, <1>2, <2>1, Phases
  <2>3. Established(d)
    BY <1>1, <1>2, <2>1, <2>2 DEF Inv, Talk, Roles
  <2> QED BY <1>1, <2>3, Phases
<1>6. ASSUME NEW s0 \in Session, SessionOf(d, s, store[d], m, s0)
      PROVE  s0.identity = OwnKey(d) /\ ~Misses(s0, skp, m, new, "none")
  <2>1. s0.state = T(d) /\ s0.identity = OwnKey(d) /\ s0.remoteidentity = OwnKey(p)
    BY <1>2, <1>4, <1>6, SessionOfType DEF Started, T
  <2>2. \A k \in Loaded(skp, m) : k.mk = m.mk
    BY <1>1, <1>3, InvSkippedKeysPending DEF SkippedKeysPending, Matching
  <2>3. ASSUME Loaded(skp, m) = {}
        PROVE  /\ T(d).dhr = m.dh => T(d).nr <= m.n /\ m.mk = KeyAt(T(d), m.n)
               /\ T(d).dhr # m.dh => m.mk = KeyAt(Ratcheted(T(d), m.dh, new), m.n)
    BY <1>1, <1>3, <2>3, FindsKey
  <2>4. m.n \in Nat /\ T(d).nr \in Nat
    BY <1>2 DEF Incoming, T, Session, State
  <2> QED BY <1>4, <2>1, <2>2, <2>3, <2>4 DEF Misses
<1>7. ~MissesAny(d, s, store[d], skp, m, new, "none")
  BY <1>2, <1>5, <1>6 DEF MissesAny
<1> DEFINE r == omemoDecryptKey(d, s, store[d], skp, m, new, "none")
<1>8. DecryptOutcomes(d, s, store[d], skp, m, new, "none", r)
  BY <1>2, DecryptOutcome
<1> HIDE DEF r
<1>9. r.ret \in {0, OMEMO_EUSER}
  BY <1>7, <1>8 DEF DecryptOutcomes
<1> QED BY <1>9 DEF r, Decrypted

----------------------------------------------------------------------------
(* The two devices see a SecureChannel.                                    *)

SentCount == [d \in Device |-> Cardinality(sent[d])]
GotTimes == [d \in Device |-> [k \in 1..MaxSend |-> Times(d, k)]]

LEMMA ChannelInit == Init => Channel!Init
<1> SUFFICES ASSUME Init PROVE Channel!Init
  OBVIOUS
<1>1. \A d \in Device : Cardinality(sent[d]) = 0
  BY FS_EmptySet DEF Init
<1>2. \A d \in Device, k \in 1..MaxSend : Times(d, k) = 0
  BY DEF Init, Times
<1> QED BY <1>1, <1>2 DEF Channel!Init

LEMMA ChannelStep ==
  ASSUME Rollback, Inv2, [Next]_vars
  PROVE  [Channel!Next]_(Channel!vars)
<1>1. PICK x \in Device : Acts(x)
  BY StepCases DEF Inv2, Inv, Talk
<1>2. Inv /\ Inv' /\ Inv2'
  BY NextInv2 DEF Inv2
<1>3. /\ \A d \in Device : Cardinality(sent[d]) \in Nat
      /\ \A d \in Device : replayed[d] = {} /\ replayed'[d] = {}
  BY <1>2, Counts DEF Inv, Talk, Accepting
<1>4. \A d \in Device : d # x => sent'[d] = sent[d] /\ accepted'[d] = accepted[d]
  BY <1>1, <1>2, OtherKept DEF Acts, Inv
<1>5. \A d \in Device, k \in 1..MaxSend :
        /\ Times(d, k) = IF k \in accepted[d] THEN 1 ELSE 0
        /\ Times(d, k)' = IF k \in accepted'[d] THEN 1 ELSE 0
  BY <1>3 DEF Times
<1>7. SentCount' = [d \in Device |-> Cardinality(sent'[d])]
      /\ GotTimes' = [d \in Device |-> [k \in 1..MaxSend |-> Times(d, k)']]
  BY DEF SentCount, GotTimes
<1>8. ASSUME sent'[x] = sent[x], accepted'[x] = accepted[x]
      PROVE  UNCHANGED Channel!vars
  <2>1. \A d \in Device : Cardinality(sent'[d]) = Cardinality(sent[d])
    BY <1>4, <1>8
  <2>2. \A d \in Device, k \in 1..MaxSend : Times(d, k)' = Times(d, k)
    BY <1>4, <1>5, <1>8
  <2>3. SentCount' = SentCount /\ GotTimes' = GotTimes
    BY <1>7, <2>1, <2>2 DEF SentCount, GotTimes
  <2> QED BY <2>3 DEF Channel!vars, SentCount, GotTimes
<1>9. CASE Quiet(x)
  BY <1>8, <1>9 DEF Quiet
<1>10. CASE Begun(x)
  <2>1. sent' = sent /\ accepted' = accepted
    BY <1>10 DEF Begun
  <2> QED BY <1>8, <2>1
<1>11. ASSUME NEW hb \in BOOLEAN, Spoke(x, hb) PROVE Channel!Send(x)
  <2>1. /\ Cardinality(sent'[x]) = Cardinality(sent[x]) + 1
        /\ Cardinality(sent[x]) + 1 <= MaxSend /\ accepted' = accepted
    BY <1>2, <1>11, SpokeCounts DEF Spoke
  <2>2. SentCount[x] < MaxSend
    BY <1>3, <2>1, RatchetAssumption DEF SentCount
  <2>3. SentCount' = [SentCount EXCEPT ![x] = @ + 1]
    <3>1. \A d \in Device : Cardinality(sent'[d])
                              = IF d = x THEN Cardinality(sent[d]) + 1 ELSE Cardinality(sent[d])
      BY <1>4, <2>1
    <3> QED BY <1>7, <3>1 DEF SentCount
  <2>4. GotTimes' = GotTimes
    <3>1. \A d \in Device, k \in 1..MaxSend : Times(d, k)' = Times(d, k)
      BY <1>5, <2>1
    <3> QED BY <1>7, <3>1 DEF GotTimes
  <2> QED BY <2>2, <2>3, <2>4 DEF Channel!Send, SentCount, GotTimes
<1>12. ASSUME NEW m \in Genuine(x), Reads(x, m)
       PROVE  m.body \in 1..MaxSend /\ Channel!Deliver(x, m.body)
  <2>1. /\ Peer(x) \in Device /\ m.body \in 1..Cardinality(sent[Peer(x)])
    BY <1>2, GenuineSent DEF SentBy
  <2>2. Cardinality(sent[Peer(x)]) <= MaxSend /\ Cardinality(sent[Peer(x)]) \in Nat
    BY <1>3, <2>1 DEF Inv2, Counted
  <2>3. m.body \in 1..MaxSend /\ m.body <= Cardinality(sent[Peer(x)])
    BY <2>1, <2>2, RatchetAssumption
  <2>4. m.body \notin accepted[x] /\ accepted'[x] = accepted[x] \cup {m.body} /\ sent' = sent
    BY <1>1, <1>2, <1>12, ReadsFresh DEF Reads
  <2>5. GotTimes[x][m.body] = 0
    BY <1>5, <2>3, <2>4 DEF GotTimes
  <2>6. GotTimes' = [GotTimes EXCEPT ![x][m.body] = 1]
    <3>1. \A d \in Device, k \in 1..MaxSend :
            Times(d, k)' = IF d = x /\ k = m.body THEN 1 ELSE Times(d, k)
      BY <1>4, <1>5, <2>4
    <3>2. GotTimes' = [d \in Device |-> [k \in 1..MaxSend |->
                         IF d = x /\ k = m.body THEN 1 ELSE Times(d, k)]]
      BY <1>7, <3>1
    <3> QED BY <2>3, <3>2 DEF GotTimes
  <2>7. SentCount' = SentCount
    BY <2>4 DEF SentCount
  <2>8. m.body <= SentCount[Channel!Peer(x)]
    BY <2>1, <2>3 DEF SentCount, Channel!Peer, Peer
  <2> QED BY <2>3, <2>5, <2>6, <2>7, <2>8 DEF Channel!Deliver, SentCount, GotTimes
<1> QED BY <1>1, <1>2, <1>9, <1>10, <1>11, <1>12, StepFacts DEF SpokeOnce, ReadsOne, Channel!Next

----------------------------------------------------------------------------
(* The theorems.  They hold of every program that undoes, when a           *)
(* decryption fails, what its callbacks did.                               *)

(* The invariant of every run.                                             *)
THEOREM Invariance ==
  ASSUME Rollback PROVE Spec => []Inv2
<1>1. Init => Inv2
  BY InitInv, InitCounted DEF Inv2
<1>2. Inv2 /\ [Next]_vars => Inv2'
  BY NextInv2
<1> QED BY <1>1, <1>2, PTL DEF Spec

(* Whatever the network, the driver or the randomness does to a call, the  *)
(* session it leaves is one the next call can work with.                   *)
THEOREM TypeCorrectRatchet ==
  ASSUME Rollback PROVE Spec => []TypeOK
<1>1. Inv2 => TypeOK
  BY InvTypeOK DEF Inv2
<1> QED BY Invariance, <1>1, PTL

(* No two messages of the conversation are encrypted under one key, even   *)
(* when both ends set up a session at once.                                *)
THEOREM KeysUsedOnce ==
  ASSUME Rollback PROVE Spec => []KeysNeverReused
<1>1. Inv2 => KeysNeverReused
  BY InvKeysNeverReused DEF Inv2
<1> QED BY Invariance, <1>1, PTL

(* Who made the ratchet step to the peer's current key pair receives on    *)
(* the chain that the peer sends on, and is not ahead of it.               *)
THEOREM ChainsAgree ==
  ASSUME Rollback PROVE Spec => []ChainAgreement
<1>1. Inv2 => ChainAgreement
  BY InvChainAgreement DEF Inv2
<1> QED BY Invariance, <1>1, PTL

(* A skipped key that is kept is the key of a message still to come.       *)
THEOREM KeptKeysPending ==
  ASSUME Rollback PROVE Spec => []SkippedKeysPending
<1>1. Inv2 => SkippedKeysPending
  BY InvSkippedKeysPending DEF Inv2
<1> QED BY Invariance, <1>1, PTL

(* Two devices never answer each other's heartbeats for nothing.           *)
THEOREM HeartbeatsBounded ==
  ASSUME Rollback PROVE Spec => []HeartbeatsAnswered
<1>1. Inv2 => HeartbeatsAnswered
  BY InvHeartbeatsAnswered
<1> QED BY Invariance, <1>1, PTL

(* The id of a prekey to remove is the one that the peer's accepted        *)
(* message named.                                                          *)
THEOREM UsedIdsAreOwn ==
  ASSUME Rollback PROVE Spec => []UsedIdIsOwn
<1>1. Inv2 => UsedIdIsOwn
  BY DEF Inv2, Counted, Using, UsedIdIsOwn
<1> QED BY Invariance, <1>1, PTL

(* Every step of the two devices is a step of the channel or none of it:   *)
(* they are handed only what the peer sent, each message at most once.     *)
THEOREM ChannelImplemented ==
  ASSUME Rollback PROVE Spec => ImplementsChannel
<1>1. Init => Channel!Init
  BY ChannelInit
<1>2. Inv2 /\ [Next]_vars => [Channel!Next]_(Channel!vars)
  BY ChannelStep
<1> QED BY Invariance, <1>1, <1>2, PTL DEF Spec, ImplementsChannel, Channel!Spec

(* A message that skips no more keys than there is room for is not         *)
(* refused, by a store that counts what it holds.                          *)
THEOREM RoomIsEnough ==
  ASSUME Rollback, Callbacks \in {"array", "none"}
  PROVE  Spec => []WithinLimitNotRefused
<1>1. Inv2 => WithinLimitNotRefused
  BY InvWithinLimitNotRefused DEF Inv2
<1> QED BY Invariance, <1>1, PTL

(* Nothing that happened, in either device or in the network, makes a      *)
(* message that was not yet decrypted one that can never be: only the      *)
(* limit on skipped keys may refuse it.                                    *)
THEOREM NothingIsLost ==
  ASSUME Rollback, Callbacks # "none"
  PROVE  Spec => []NothingLost
<1>1. Init => Inv3
  BY InitInv, InitCounted, InitWhole DEF Inv3, Inv2
<1>2. Inv3 /\ [Next]_vars => Inv3'
  BY NextInv3
<1>3. Inv3 => NothingLost
  BY InvNothingLost
<1> QED BY <1>1, <1>2, <1>3, PTL DEF Spec

----------------------------------------------------------------------------
(* What a peer's first message needs of the device that it is for: that    *)
(* the store still answers for the bundle the message was made from, and   *)
(* that both ends derive the same keys from it.  This joins the numbering  *)
(* of the store (OmemoStore_proofs) to the conversation.                   *)

OwnIdentity == [seq |-> 1, boot |-> 1]

(* A slot without a prekey is cleared.                                     *)
Cleared(st) == \A i \in Slot : st.prekeys[i].id = 0 => st.prekeys[i] = NoPreKey

(* The store is within the first turn of its counters.                     *)
FirstTurn(st) == st.made <= IdMax /\ st.cursignedprekey.kp.seq <= IdMax

(* The two offers that a bundle consists of.                               *)
Consists(d, b, pk, spk) ==
  /\ b.ik = OwnKey(d)
  /\ b.pk = Pub(d, "pk", pk.kp) /\ b.pk_id = pk.id /\ (pk.id = 0 => pk = NoPreKey)
  /\ b.spk = Pub(d, "spk", spk.kp) /\ b.spk_id = spk.id

Covers(d, offs, pks, spks) ==
  \A b \in offs : \E pk, spk \in PreKey :
    /\ Consists(d, b, pk, spk)
    /\ [ik |-> OwnIdentity, pk |-> pk] \in pks
    /\ [ik |-> OwnIdentity, spk |-> spk] \in spks

(* A store that answers for the bundles offs.                              *)
Offering(d, st, offs) ==
  /\ Cleared(st) /\ FirstTurn(st)
  /\ \E pks \in PreKeyOffers, spks \in SignedOffers :
       Answers(st, pks, spks) /\ Covers(d, offs, pks, spks)

Offers == \A d \in Device : Offering(d, store[d], offered[d])

----------------------------------------------------------------------------
(* The store.                                                              *)

LEMMA RefillCleared ==
  ASSUME NEW st \in Store, Cleared(st), NEW rnd \in Int
  PROVE  LET new == omemoRefillPreKeys(st, 1, rnd).store
         IN Cleared(new) /\ new.made = st.made + Count(st, rnd)
<1> DEFINE new == omemoRefillPreKeys(st, 1, rnd).store
           F == Filled(st, rnd)
<1>1. new = [init |-> st.init, identity |-> st.identity,
             cursignedprekey |-> st.cursignedprekey,
             prevsignedprekey |-> st.prevsignedprekey,
             prekeys |-> [i \in Slot |-> IF i \in F
                            THEN [id |-> IncrementBy(st.pkcounter, Place(st, i)),
                                  kp |-> [seq |-> st.made + Place(st, i), boot |-> 1]]
                            ELSE st.prekeys[i]],
             pkcounter |-> IncrementBy(st.pkcounter, Count(st, rnd)),
             made |-> st.made + Count(st, rnd)]
  BY RefillShape
<1>2. ASSUME NEW i \in F PROVE IncrementBy(st.pkcounter, Place(st, i)) # 0
  <2>1. Place(st, i) \in 1..Count(st, rnd) /\ Count(st, rnd) \in 0..NumPreKeys
    BY FilledPlaces
  <2>2. Place(st, i) \in 0..IdMax /\ Place(st, i) >= 1 /\ st.pkcounter \in 0..IdMax
    BY <2>1, StoreAssumption DEF Store
  <2>3. /\ IncrementBy(st.pkcounter, Place(st, i)) \in 0..IdMax
        /\ IncrementBy(st.pkcounter, Place(st, i)) >= 1
    BY <2>2, IncrementByType
  <2> QED BY <2>3, StoreAssumption
<1> HIDE DEF new, F
<1>3. new.made = st.made + Count(st, rnd)
  BY <1>1
<1>4. ASSUME NEW i \in Slot, new.prekeys[i].id = 0 PROVE new.prekeys[i] = NoPreKey
  <2>1. i \notin F
    BY <1>1, <1>2, <1>4
  <2> QED BY <1>1, <1>4, <2>1 DEF Cleared
<1>5. Cleared(new)
  BY <1>4 DEF Cleared
<1> QED BY <1>3, <1>5 DEF new

(* A device begins with a store in its first turn, that has announced      *)
(* nothing else.                                                           *)
LEMMA NewStoreCleared ==
  /\ Cleared(NewStore) /\ NewStore.made <= IdMax
  /\ NewStore.cursignedprekey = [id |-> 1, kp |-> [seq |-> 1, boot |-> 1]]
  /\ NewStore.prevsignedprekey = NoPreKey
<1> DEFINE rnd == NumPreKeys + 3
           spk == [id |-> 1, kp |-> [seq |-> 1, boot |-> 1]]
           st == [ZeroStore EXCEPT !.identity = [seq |-> 1, boot |-> 1],
                                   !.cursignedprekey = spk]
           refill == omemoRefillPreKeys(st, 1, rnd - 3)
<1>1. rnd \in Nat /\ rnd - 3 \in Int /\ 1 \in Nat
  BY StoreAssumption
<1>2. NewStore # ZeroStore
  <2>1. ~ZeroStore.init
    BY DEF ZeroStore
  <2> QED BY <2>1, NewStoreGood
<1>3. /\ NewStore.cursignedprekey = spk /\ NewStore.prevsignedprekey = NoPreKey
  BY <1>1, <1>2, SetupSigned DEF NewStore
<1>4. NewStore = [refill.store EXCEPT !.init = TRUE]
  BY <1>2 DEF NewStore, omemoSetupStore, omemoSetupStoreImpl, GenerateSignedPreKey
<1>5. st \in Store /\ Cleared(st) /\ st.made = 0
  <2>1. [seq |-> 1, boot |-> 1] \in Key /\ spk \in PreKey
    BY StoreAssumption DEF Key, PreKey
  <2>2. Cleared(st) /\ st.made = 0
    BY DEF ZeroStore, Cleared
  <2> HIDE DEF spk
  <2> QED BY <2>1, <2>2, ZeroStoreType DEF Store
<1> HIDE DEF st, rnd
<1>6. refill.store \in Store /\ Cleared(refill.store)
      /\ refill.store.made = st.made + Count(st, rnd - 3)
  BY <1>1, <1>5, RefillCleared, RefillType
<1>7. Count(st, rnd - 3) \in 0..NumPreKeys
  BY <1>1, <1>5, FilledPlaces
<1> HIDE DEF refill
<1>8. NewStore.prekeys = refill.store.prekeys /\ NewStore.made = refill.store.made
  BY <1>4, <1>6 DEF Store
<1> QED BY <1>3, <1>5, <1>6, <1>7, <1>8, StoreAssumption DEF Cleared

(* Announcing: the store answers for its own bundle.                       *)
LEMMA AnnounceOffers ==
  ASSUME NEW d \in Device, NEW st, GoodStore(st), st.init, st.identity = OwnIdentity,
         NEW offs, Offering(d, st, offs)
  PROVE  Offering(d, st, offs \cup Bundles(d, st))
<1>1. PICK pks \in PreKeyOffers, spks \in SignedOffers :
        Answers(st, pks, spks) /\ Covers(d, offs, pks, spks)
  BY DEF Offering
<1> DEFINE pks1 == pks \cup {[ik |-> st.identity, pk |-> st.prekeys[i]] : i \in Slot}
           spks1 == spks \cup {[ik |-> st.identity, spk |-> st.cursignedprekey]}
<1>2. Answers(st, pks1, spks1)
  BY <1>1, AnnounceAnswers
<1>3. /\ st.identity \in Key /\ st.cursignedprekey \in PreKey
      /\ \A i \in Slot : st.prekeys[i] \in PreKey
  BY DEF GoodStore, Store
<1>4. pks1 \in PreKeyOffers /\ spks1 \in SignedOffers
  BY <1>3 DEF PreKeyOffers, SignedOffers
<1>5. ASSUME NEW b \in Bundles(d, st)
      PROVE  \E pk, spk \in PreKey :
               /\ Consists(d, b, pk, spk)
               /\ [ik |-> OwnIdentity, pk |-> pk] \in pks1
               /\ [ik |-> OwnIdentity, spk |-> spk] \in spks1
  <2>1. PICK i \in Slot :
          b = [signed |-> TRUE, ik |-> Pub(d, "ik", st.identity),
               spk |-> Pub(d, "spk", st.cursignedprekey.kp),
               spk_id |-> st.cursignedprekey.id,
               pk |-> Pub(d, "pk", st.prekeys[i].kp), pk_id |-> st.prekeys[i].id]
    BY DEF Bundles
  <2>2. Pub(d, "ik", st.identity) = OwnKey(d)
    BY OwnKeyIs DEF OwnIdentity
  <2>3. Consists(d, b, st.prekeys[i], st.cursignedprekey)
    BY <2>1, <2>2 DEF Consists, Offering, Cleared
  <2> QED BY <1>3, <2>3
<1> HIDE DEF pks1, spks1
<1>6. Covers(d, offs \cup Bundles(d, st), pks1, spks1)
  <2>1. pks \subseteq pks1 /\ spks \subseteq spks1
    BY DEF pks1, spks1
  <2> QED BY <1>1, <1>5, <2>1 DEF Covers
<1> QED BY <1>2, <1>4, <1>6 DEF Offering

LEMMA InitOffers == Init => Offers
<1> SUFFICES ASSUME Init, NEW d \in Device PROVE Offering(d, NewStore, Bundles(d, NewStore))
  BY DEF Init, Offers
<1>1. /\ GoodStore(NewStore) /\ NewStore.init /\ NewStore.identity = OwnIdentity
  BY NewStoreGood DEF OwnIdentity
<1>2. SignedNumbered(NewStore) /\ NewStore.cursignedprekey.kp.seq = 1
  BY NewStoreCleared, StoreAssumption DEF SignedNumbered
<1>3. Answers(NewStore, {}, {})
  BY <1>2 DEF Answers, AnswersForPreKeys, AnswersForSigned
<1>4. Offering(d, NewStore, {})
  BY <1>2, <1>3, NewStoreCleared, StoreAssumption
     DEF Offering, FirstTurn, Covers, PreKeyOffers, SignedOffers
<1>5. Offering(d, NewStore, {} \cup Bundles(d, NewStore))
  BY <1>1, <1>4, AnnounceOffers
<1> QED BY <1>5

(* A call that leaves the store answering for the offers made so far.      *)
LEMMA OffersKept ==
  TypeInv /\ Offers /\ MaxMade <= IdMax /\ MaxSigned <= IdMax /\ [Next]_vars => Offers'
<1> SUFFICES ASSUME TypeInv, Offers, MaxMade <= IdMax, MaxSigned <= IdMax, [Next]_vars
             PROVE  Offers'
  OBVIOUS
<1>1. /\ store \in [Device -> Store] /\ offered \in [Device -> SUBSET AnyBundle]
      /\ \A d \in Device : /\ GoodStore(store[d]) /\ store[d].init
                           /\ store[d].identity = OwnIdentity
                           /\ Offering(d, store[d], offered[d])
  BY DEF TypeInv, Stores, Offers, OwnIdentity
<1>2. ASSUME NEW d \in Device, NEW new, store' = [store EXCEPT ![d] = new],
             offered' = offered, Offering(d, new, offered[d])
      PROVE  Offers'
  BY <1>1, <1>2 DEF Offers
<1>3. ASSUME UNCHANGED <<store, offered>> PROVE Offers'
  BY <1>1, <1>3 DEF Offers
<1>4. ASSUME NEW d \in Device, NEW new, Cleared(new), FirstTurn(new),
             \A pks \in PreKeyOffers, spks \in SignedOffers :
               Answers(store[d], pks, spks) => Answers(new, pks, spks)
      PROVE  Offering(d, new, offered[d])
  <2>1. PICK pks \in PreKeyOffers, spks \in SignedOffers :
          Answers(store[d], pks, spks) /\ Covers(d, offered[d], pks, spks)
    BY <1>1 DEF Offering
  <2> QED BY <1>4, <2>1 DEF Offering
<1>5. ASSUME NEW d \in Device, RemovePreKey(d) PROVE Offers'
  <2>1. PICK i \in Slot : /\ store' = [store EXCEPT ![d].prekeys[i] = NoPreKey]
                          /\ offered' = offered
    BY <1>5 DEF RemovePreKey
  <2> DEFINE new == [store[d] EXCEPT !.prekeys[i] = NoPreKey]
  <2>2. /\ store[d] \in Store /\ GoodStore(store[d])
        /\ Cleared(store[d]) /\ FirstTurn(store[d])
    BY <1>1 DEF Offering
  <2>3. /\ new.made = store[d].made /\ new.cursignedprekey = store[d].cursignedprekey
        /\ \A j \in Slot : new.prekeys[j] = IF j = i THEN NoPreKey ELSE store[d].prekeys[j]
    BY <2>2 DEF Store
  <2>4. \A pks \in PreKeyOffers, spks \in SignedOffers :
          Answers(store[d], pks, spks) => Answers(new, pks, spks)
    BY <2>2, RemoveAnswers
  <2>5. store' = [store EXCEPT ![d] = new]
    BY <2>1
  <2> HIDE DEF new
  <2>6. Cleared(new) /\ FirstTurn(new)
    BY <2>2, <2>3 DEF Cleared, FirstTurn
  <2> QED BY <1>2, <1>4, <2>1, <2>4, <2>5, <2>6
<1>6. ASSUME NEW d \in Device, RefillPreKeys(d) PROVE Offers'
  <2> DEFINE st == store[d]
             new == omemoRefillPreKeys(st, 1, NumPreKeys).store
  <2>1. /\ store' = [store EXCEPT ![d] = new] /\ offered' = offered
        /\ st.made + Cardinality(EmptySlots(st.prekeys)) <= MaxMade
    BY <1>6 DEF RefillPreKeys
  <2>2. /\ st \in Store /\ GoodStore(st) /\ st.init /\ Cleared(st) /\ FirstTurn(st)
        /\ NumPreKeys \in Nat /\ NumPreKeys \in Int /\ 1 \in Nat
    BY <1>1, StoreAssumption DEF Offering
  <2>3. \A pks \in PreKeyOffers, spks \in SignedOffers :
          Answers(st, pks, spks) => Answers(new, pks, spks)
    BY <2>2, RefillAnswers
  <2>4. /\ Cleared(new) /\ new.made = st.made + Count(st, NumPreKeys)
        /\ new.cursignedprekey = st.cursignedprekey
    BY <2>2, RefillCleared, RefillKeeps
  <2>5. Count(st, NumPreKeys) <= Cardinality(EmptySlots(st.prekeys))
    <3>1. EmptySlots(st.prekeys) \subseteq Slot
          /\ Filled(st, NumPreKeys) \subseteq EmptySlots(st.prekeys)
      BY DEF EmptySlots, Filled
    <3>2. IsFiniteSet(EmptySlots(st.prekeys))
      BY <3>1, SlotsFinite, FS_Subset
    <3> QED BY <3>1, <3>2, FS_Subset DEF Count
  <2>6. Count(st, NumPreKeys) \in Nat /\ Cardinality(EmptySlots(st.prekeys)) \in Nat
    <3>1. EmptySlots(st.prekeys) \subseteq Slot
      BY DEF EmptySlots
    <3>2. IsFiniteSet(EmptySlots(st.prekeys))
      BY <3>1, SlotsFinite, FS_Subset
    <3>3. Count(st, NumPreKeys) \in 0..NumPreKeys
      BY <2>2, FilledPlaces
    <3> QED BY <3>2, <3>3, FS_CardinalityType, StoreAssumption
  <2>7. st.made \in Nat /\ MaxMade \in Nat /\ IdMax \in Nat
    BY <2>2, StoreAssumption, RatchetAssumption DEF Store
  <2> HIDE DEF new, st
  <2>8. FirstTurn(new)
    BY <2>1, <2>2, <2>4, <2>5, <2>6, <2>7 DEF FirstTurn
  <2> QED BY <1>2, <1>4, <2>1, <2>3, <2>4, <2>8 DEF st
<1>7. ASSUME NEW d \in Device, RotateSignedPreKey(d) PROVE Offers'
  <2> DEFINE st == store[d]
             new == omemoRotateSignedPreKey(st, 1, 2).store
  <2>1. /\ store' = [store EXCEPT ![d] = new] /\ offered' = offered
        /\ st.cursignedprekey.kp.seq < MaxSigned
    BY <1>7 DEF RotateSignedPreKey
  <2>2. /\ st \in Store /\ GoodStore(st) /\ st.init /\ Cleared(st) /\ FirstTurn(st)
        /\ 1 \in Nat /\ 2 \in Nat
    BY <1>1 DEF Offering
  <2>3. \A pks \in PreKeyOffers, spks \in SignedOffers :
          Answers(st, pks, spks) => Answers(new, pks, spks)
    BY <2>2, RotateAnswers
  <2>4. new.prekeys = st.prekeys /\ new.made = st.made
    BY <2>2, RotateOutcome
  <2>5. new.cursignedprekey.kp.seq \in
          {st.cursignedprekey.kp.seq, st.cursignedprekey.kp.seq + 1}
    BY <2>2, RotateSigned
  <2>6. st.cursignedprekey.kp.seq \in Nat /\ MaxSigned \in Nat /\ IdMax \in Nat
    BY <2>2, StoreAssumption, RatchetAssumption DEF Store, PreKey, Key
  <2> HIDE DEF new, st
  <2>7. Cleared(new) /\ FirstTurn(new)
    BY <2>1, <2>2, <2>4, <2>5, <2>6 DEF Cleared, FirstTurn
  <2> QED BY <1>2, <1>4, <2>1, <2>3, <2>7 DEF st
<1>8. ASSUME NEW d \in Device, Announce(d) PROVE Offers'
  <2>1. /\ offered' = [offered EXCEPT ![d] = @ \cup Bundles(d, store[d])]
        /\ store' = store
    BY <1>8 DEF Announce
  <2>2. Offering(d, store[d], offered[d] \cup Bundles(d, store[d]))
    BY <1>1, AnnounceOffers
  <2> QED BY <1>1, <2>1, <2>2 DEF Offers
<1>9. ASSUME NEW d \in Device,
             InitiateSession(d) \/ EncryptKey(d) \/ Heartbeat(d) \/ DecryptKey(d)
      PROVE  Offers'
  <2>1. UNCHANGED <<store, offered>>
    BY <1>9 DEF InitiateSession, Initiated, EncryptKey, Heartbeat, Emit, DecryptKey,
                DecryptMessage, Received
  <2> QED BY <1>3, <2>1
<1>10. CASE UNCHANGED vars
  BY <1>3, <1>10 DEF vars
<1> QED BY <1>5, <1>6, <1>7, <1>8, <1>9, <1>10 DEF Next

----------------------------------------------------------------------------
(* The session that waits for its first answer, and the messages it sent:  *)
(* they name the bundle it was set up from.                                *)

Opening(d) ==
  session[d].init = SESSION_INIT =>
    \E b \in offered[Peer(d)] :
      /\ Zero \notin {b.spk, b.pk}
      /\ T(d).rk = FirstRoot(d, b, T(d).dhs) /\ session[d].usedek = T(d).dhs
      /\ session[d].usedpk_id = b.pk_id /\ session[d].usedspk_id = b.spk_id
      /\ \A e \in sent[d] :
           e.m.ek = T(d).dhs /\ e.m.pk_id = b.pk_id /\ e.m.spk_id = b.spk_id

(* What was announced stays available.                                     *)
LEMMA OfferedGrows ==
  ASSUME TypeInv, [Next]_vars, NEW d \in Device
  PROVE  offered[d] \subseteq offered'[d]
<1>1. \/ offered' = offered
      \/ \E e \in Device : offered' = [offered EXCEPT ![e] = @ \cup Bundles(e, store[e])]
  BY DEF Next, vars, RemovePreKey, RefillPreKeys, RotateSignedPreKey, Announce,
         InitiateSession, Initiated, EncryptKey, Heartbeat, Emit, DecryptKey,
         DecryptMessage, Received
<1> QED BY <1>1 DEF TypeInv, Stores

LEMMA OpeningKept ==
  ASSUME Inv, [Next]_vars, NEW x \in Device, Acts(x), \A d \in Device : Opening(d),
         NEW d \in Device
  PROVE  Opening(d)'
<1>1. Opening(d) /\ Peer(d) \in Device /\ offered[Peer(d)] \subseteq offered'[Peer(d)]
  BY TwoDevices, OfferedGrows DEF Inv
<1>2. ASSUME UNCHANGED <<session[d], sent[d]>> PROVE Opening(d)'
  BY <1>1, <1>2 DEF Opening, T
<1>3. CASE d # x
  <2>1. session'[d] = session[d] /\ sent'[d] = sent[d]
    BY <1>3, OtherKept DEF Acts, Inv
  <2> QED BY <1>2, <2>1
<1>4. CASE d = x /\ Silent(d)
  BY <1>2, <1>4 DEF Silent
<1>5. CASE d = x /\ Settled(d)
  <2>1. session'[d].init = SESSION_READY
    BY <1>5 DEF Settled, WithState
  <2> QED BY <2>1 DEF Opening, SESSION_READY, SESSION_INIT
<1>6. CASE d = x /\ Begun(d)
  <2>1. PICK b \in offered[Peer(d)] : /\ Zero \notin {b.spk, b.pk}
                                     /\ session'[d] = FirstSession(d, b, NewKey(d))
    BY <1>6 DEF Begun
  <2>2. T(d)'.dhs = NewKey(d) /\ sent'[d] = {}
    BY <1>6, BegunState
  <2> DEFINE rk == FirstRoot(d, b, NewKey(d))
             s == FirstSession(d, b, NewKey(d))
             t == FirstState(NewKey(d), b, rk)
  <2>3. /\ s.state = t /\ s.usedek = NewKey(d) /\ s.usedpk_id = b.pk_id
        /\ s.usedspk_id = b.spk_id
    BY DEF FirstSession
  <2>4. t.rk = rk
    BY DEF FirstState
  <2> HIDE DEF s, t
  <2>5. session'[d] = s /\ T(d)' = t
    BY <2>1, <2>3 DEF s, T
  <2> QED BY <1>1, <2>1, <2>2, <2>3, <2>4, <2>5 DEF Opening
<1>7. ASSUME NEW hb \in BOOLEAN, Spoke(d, hb), d = x PROVE Opening(d)'
  <2>1. SUFFICES ASSUME session'[d].init = SESSION_INIT PROVE Opening(d)'
    BY DEF Opening
  <2>2. session[d].init = SESSION_INIT
    BY <1>7, <2>1, PhasesKept DEF SpokeOnce
  <2>3. PICK b \in offered[Peer(d)] :
          /\ Zero \notin {b.spk, b.pk}
          /\ T(d).rk = FirstRoot(d, b, T(d).dhs) /\ session[d].usedek = T(d).dhs
          /\ session[d].usedpk_id = b.pk_id /\ session[d].usedspk_id = b.spk_id
          /\ \A e \in sent[d] :
               e.m.ek = T(d).dhs /\ e.m.pk_id = b.pk_id /\ e.m.spk_id = b.spk_id
    BY <1>1, <2>2 DEF Opening
  <2> DEFINE n == [m |-> NextMessage(session[d], Body(d)), hb |-> hb]
             init == IF hb THEN SESSION_HEARTBEAT ELSE session[d].init
             w == WithState(session[d], init, StateAfterSend(T(d)))
  <2>4. sent'[d] = sent[d] \cup {n} /\ session'[d] = w
    BY <1>7 DEF Spoke
  <2>5. /\ n.m.ek = session[d].usedek /\ n.m.pk_id = session[d].usedpk_id
        /\ n.m.spk_id = session[d].usedspk_id
    BY <2>2 DEF NextMessage
  <2>6. /\ w.usedek = session[d].usedek /\ w.usedpk_id = session[d].usedpk_id
        /\ w.usedspk_id = session[d].usedspk_id /\ w.state = StateAfterSend(T(d))
    BY DEF WithState
  <2>7. StateAfterSend(T(d)).rk = T(d).rk /\ StateAfterSend(T(d)).dhs = T(d).dhs
    BY DEF StateAfterSend
  <2> HIDE DEF n, w
  <2>8. T(d)'.rk = T(d).rk /\ T(d)'.dhs = T(d).dhs
    BY <2>4, <2>6, <2>7 DEF T
  <2> QED BY <1>1, <2>3, <2>4, <2>5, <2>6, <2>8 DEF Opening
<1>8. ASSUME NEW m \in Genuine(d), Heard(d, m), d = x PROVE Opening(d)'
  <2>1. ReadsOne(d)
    BY <1>8, HeardReads DEF ReadsOne
  <2>2. session'[d].init # SESSION_INIT
    BY <2>1, PhasesKept
  <2> QED BY <2>2 DEF Opening
<1> QED BY <1>3, <1>4, <1>5, <1>6, <1>7, <1>8 DEF Acts

----------------------------------------------------------------------------
(* The message that opens a session.                                       *)

(* The message and the bundle it was made from.                            *)
MadeFrom(d, m, b) ==
  /\ b \in offered[d] /\ Zero \notin {b.spk, b.pk}
  /\ m.pk_id = b.pk_id /\ m.spk_id = b.spk_id /\ m.ek = m.dh /\ m.ik = OwnKey(Peer(d))
  /\ m.mk = [root |-> FirstRoot(Peer(d), b, m.ek), i |-> m.n]
  /\ m.ad = <<OwnKey(Peer(d)), OwnKey(d)>>

LEMMA OpeningMessage ==
  ASSUME Inv, \A e \in Device : Opening(e), NEW d \in Device, NEW m \in Genuine(d),
         ~Started(d), m.isprekey
  PROVE  \E b : MadeFrom(d, m, b)
<1> DEFINE p == Peer(d)
<1>1. /\ p \in Device /\ Peer(p) = d /\ SentBy(p, m) /\ Started(p)
      /\ m.mk \in ChainKey /\ m.n \in Nat
  BY GenuineSent, SenderStarted DEF Message
<1>2. session[p].init = SESSION_INIT
  <2>1. Leads(p) /\ ~Established(d)
    BY <1>1, Phases DEF SentBy
  <2>2. ~Established(p)
    BY <1>1, <2>1 DEF Inv, Talk, Roles
  <2> QED BY <1>1, <2>2, Phases
<1>3. PICK b \in offered[d] :
        /\ Zero \notin {b.spk, b.pk}
        /\ T(p).rk = FirstRoot(p, b, T(p).dhs)
        /\ \A e \in sent[p] :
             e.m.ek = T(p).dhs /\ e.m.pk_id = b.pk_id /\ e.m.spk_id = b.spk_id
  BY <1>1, <1>2 DEF Opening
<1>4. m.ek = T(p).dhs /\ m.pk_id = b.pk_id /\ m.spk_id = b.spk_id
  BY <1>3 DEF Genuine
<1>5. m.mk.root = T(p).rk
  BY <1>1, <1>2 DEF Inv, Talk, Waiting, Genuine
<1>6. m.dh = T(p).dhs /\ m.mk.i = m.n /\ m.ik = OwnKey(p)
      /\ m.ad = <<OwnKey(p), OwnKey(d)>>
  BY <1>1, <1>5 DEF SentBy
<1>7. m.mk = [root |-> m.mk.root, i |-> m.n]
  BY <1>1, <1>6 DEF ChainKey
<1> QED BY <1>3, <1>4, <1>5, <1>6, <1>7 DEF MadeFrom

(* The store has the keys the message names, and they are the bundle's.    *)
LEMMA BundleFound ==
  ASSUME NEW d \in Device, NEW st, GoodStore(st), st.init, st.identity = OwnIdentity,
         NEW offs, Offering(d, st, offs), NEW b \in offs, Zero \notin {b.spk, b.pk},
         NEW i \in Slot, st.prekeys[i].id = b.pk_id,
         b.spk_id \in {st.cursignedprekey.id, st.prevsignedprekey.id}
  PROVE  /\ b.ik = OwnKey(d)
         /\ FindPreKey(st, b.pk_id) # Null /\ FindSignedPreKey(st, b.spk_id) # Null
         /\ Pub(d, "pk", FindPreKey(st, b.pk_id).kp) = b.pk
         /\ Pub(d, "spk", FindSignedPreKey(st, b.spk_id).kp) = b.spk
<1>1. PICK pks \in PreKeyOffers, spks \in SignedOffers :
        Answers(st, pks, spks) /\ Covers(d, offs, pks, spks)
  BY DEF Offering
<1>2. PICK pk \in PreKey, spk \in PreKey :
        /\ Consists(d, b, pk, spk)
        /\ [ik |-> OwnIdentity, pk |-> pk] \in pks
        /\ [ik |-> OwnIdentity, spk |-> spk] \in spks
  BY <1>1 DEF Covers
<1> DEFINE o == [ik |-> OwnIdentity, pk |-> pk]
           os == [ik |-> OwnIdentity, spk |-> spk]
           found == FindPreKey(st, b.pk_id)
           sfound == FindSignedPreKey(st, b.spk_id)
<1>3. /\ o \in pks /\ o.ik = st.identity /\ o.pk = pk
      /\ os \in spks /\ os.ik = st.identity /\ os.spk = spk
      /\ pk.id = b.pk_id /\ spk.id = b.spk_id
  BY <1>2 DEF Consists
<1> HIDE DEF o, os
<1>4. /\ st \in Store /\ NumberedByAge(st) /\ st.made <= IdMax /\ st.made \in Nat
      /\ st.cursignedprekey.kp.seq <= IdMax
      /\ \A j \in Slot : st.prekeys[j] \in PreKey
      /\ st.cursignedprekey \in PreKey /\ st.prevsignedprekey \in PreKey
      /\ IdMax \in Nat
  BY StoreAssumption DEF GoodStore, Store, Offering, FirstTurn
<1>5. pk.id # 0
  <2>1. pk.kp # NoKey
    BY <1>2 DEF Consists, Pub
  <2> QED BY <1>2, <2>1 DEF Consists, NoPreKey
<1>6. PICK j \in Slot : found = st.prekeys[j] /\ st.prekeys[j].id = b.pk_id
  <2> DEFINE S == {l \in Slot : st.prekeys[l].id = b.pk_id}
  <2>1. S # {} /\ found = st.prekeys[CHOOSE l \in S : \A n \in S : l <= n]
    BY DEF FindPreKey
  <2>2. S \in SUBSET Nat
    BY StoreAssumption DEF Slot
  <2>3. \E l \in S : \A n \in S : l <= n
    <3> HIDE DEF S
    <3> QED BY <2>1, <2>2, LeastExists
  <2>4. (CHOOSE l \in S : \A n \in S : l <= n) \in S
    BY <2>3
  <2> QED BY <2>1, <2>4
<1>7. found # Null
  BY <1>4, <1>6 DEF PreKey, Null
<1>8. found = pk
  <2>1. found.kp.seq \in 1..st.made
    BY <1>3, <1>4, <1>5, <1>6 DEF NumberedByAge
  <2>2. pk.kp.seq \in 1..st.made
    BY <1>1, <1>3, <1>5 DEF Answers, AnswersForPreKeys
  <2>3. st.made - pk.kp.seq < IdMax /\ ~ (st.made - found.kp.seq >= IdMax)
    BY <1>4, <2>1, <2>2
  <2> HIDE DEF found
  <2>4. found = FindPreKey(st, o.pk.id)
    BY <1>3 DEF found
  <2> QED BY <1>1, <1>3, <1>5, <1>7, <2>3, <2>4, PreKeyFound
<1> DEFINE age == st.cursignedprekey.kp.seq - spk.kp.seq
<1>9. /\ age >= 0 /\ age < IdMax /\ age \in Nat
      /\ age \in {0, 1} => sfound = spk
      /\ age >= 2 => sfound = Null
  <2>1. spk.kp.seq \in 1..st.cursignedprekey.kp.seq /\ st.cursignedprekey.kp.seq \in Nat
    BY <1>1, <1>3, <1>4 DEF Answers, AnswersForSigned, PreKey, Key
  <2>2. age \in Nat /\ age < IdMax
    BY <1>4, <2>1
  <2>3. /\ age \in {0, 1} => FindSignedPreKey(st, os.spk.id) = os.spk
        /\ age >= 2 /\ age < IdMax => FindSignedPreKey(st, os.spk.id) = Null
    BY <1>1, <1>3, SignedFound
  <2> HIDE DEF age
  <2> QED BY <1>3, <2>2, <2>3
<1>10. sfound # Null
  <2>1. spk.id = IdBefore(st.cursignedprekey.id, age)
    BY <1>1, <1>3, <1>9 DEF Answers, AnswersForSigned, Rotations
  <2>2. st.cursignedprekey.id \in 1..IdMax /\ age \in 0..IdMax - 1
    BY <1>1, <1>4, <1>9 DEF Answers, SignedNumbered
  <2>3. spk.id # 0
    <3> HIDE DEF age
    <3>1. IdBefore(st.cursignedprekey.id, age) \in 1..IdMax
      BY <2>2, IdBeforeType
    <3> QED BY <1>4, <2>1, <3>1
  <2> QED BY <1>3, <1>4, <2>3 DEF FindSignedPreKey, PreKey, Null
<1>11. sfound = spk
  <2> HIDE DEF age, sfound
  <2>1. age = 0 \/ age = 1
    BY <1>9, <1>10
  <2> QED BY <1>9, <2>1
<1>12. b.ik = OwnKey(d) /\ b.pk = Pub(d, "pk", pk.kp) /\ b.spk = Pub(d, "spk", spk.kp)
  BY <1>2 DEF Consists
<1> QED BY <1>7, <1>8, <1>10, <1>11, <1>12

(* What the receiver of the message computes from the bundle.              *)
AcceptedSecret(d, b, m) ==
  GetSharedSecret(TRUE, OwnKey(d), b.spk, b.pk, m.ik, m.ek, m.ek)

(* The keys of both ends are the same.                                     *)
LEMMA FirstKeysAgree ==
  ASSUME NEW d \in Device, NEW m, NEW b, MadeFrom(d, m, b), b.ik = OwnKey(d),
         NEW t \in State, t.dhs = b.spk, NEW new \in PubKey, m.dh \in PubKey, m.n \in Nat,
         t.rk = AcceptedSecret(d, b, m)
  PROVE  m.mk = KeyAt(Ratcheted(t, m.dh, new), m.n)
<1> DEFINE p == Peer(d)
<1>1. t.rk = BundleSecret(OwnKey(p), b, m.ek)
  <2>1. m.ik = OwnKey(p)
    BY DEF MadeFrom
  <2>2. BundleSecret(m.ik, b, m.ek) = AcceptedSecret(d, b, m)
    BY DHSymmetric DEF BundleSecret, AcceptedSecret, GetSharedSecret
  <2> QED BY <2>1, <2>2
<1>2. DeriveRootKey(t.rk, t.dhs, m.dh) = FirstRoot(p, b, m.ek)
  <2>1. m.ek = m.dh
    BY DEF MadeFrom
  <2> QED BY <1>1, <2>1, DHSymmetric DEF FirstRoot, DeriveRootKey
<1>3. Ratcheted(t, m.dh, new).ckr = [root |-> FirstRoot(p, b, m.ek), i |-> 0]
      /\ Ratcheted(t, m.dh, new).nr = 0
  BY <1>2 DEF Ratcheted, FirstChain
<1> DEFINE x == Ratcheted(t, m.dh, new)
<1> HIDE DEF x
<1>4. KeyAt(x, m.n) = [root |-> FirstRoot(p, b, m.ek), i |-> m.n]
  <2>1. x.ckr.root = FirstRoot(p, b, m.ek) /\ x.ckr.i + (m.n - x.nr) = m.n
    BY <1>3 DEF x
  <2> QED BY <2>1 DEF KeyAt
<1> QED BY <1>4 DEF x, MadeFrom

(* The session set up to open it.                                          *)
LEMMA FirstAccepted ==
  ASSUME NEW d \in Device, NEW st, GoodStore(st), st.init, st.identity = OwnIdentity,
         NEW offs, Offering(d, st, offs), NEW m, NEW b \in offs, MadeFrom(d, m, b),
         \E i \in Slot : st.prekeys[i].id = m.pk_id,
         m.spk_id \in {st.cursignedprekey.id, st.prevsignedprekey.id},
         NEW s0, s0 = AcceptedSession(d, ZeroSession, st, m)
  PROVE  /\ Findable(st, m) /\ b.ik = OwnKey(d)
         /\ s0.identity = OwnKey(d) /\ s0.remoteidentity = m.ik
         /\ s0.state.dhs = b.spk /\ s0.state.dhr = Zero
         /\ s0.state.rk = AcceptedSecret(d, b, m)
<1>1. Zero \notin {b.spk, b.pk} /\ m.pk_id = b.pk_id /\ m.spk_id = b.spk_id
  BY DEF MadeFrom
<1>2. /\ b.ik = OwnKey(d)
      /\ FindPreKey(st, m.pk_id) # Null /\ FindSignedPreKey(st, m.spk_id) # Null
      /\ Pub(d, "pk", FindPreKey(st, m.pk_id).kp) = b.pk
      /\ Pub(d, "spk", FindSignedPreKey(st, m.spk_id).kp) = b.spk
  BY <1>1, BundleFound
<1>3. Pub(d, "ik", st.identity) = OwnKey(d)
  BY OwnKeyIs DEF OwnIdentity
<1>4. ZeroSession.state.dhr = Zero
  BY DEF ZeroSession, ZeroState
<1> QED BY <1>2, <1>3, <1>4 DEF AcceptedSession, AcceptedSecret, Findable

LEMMA InvPreKeyMessageOpens ==
  ASSUME Inv, Offers, \A e \in Device : Opening(e)
  PROVE  PreKeyMessageOpens
<1> SUFFICES ASSUME NEW d \in Device, NEW m \in Genuine(d),
                    session[d].init = SESSION_UNINIT, m.isprekey,
                    NEW i \in Slot, store[d].prekeys[i].id = m.pk_id,
                    m.spk_id \in {store[d].cursignedprekey.id, store[d].prevsignedprekey.id}
             PROVE  Decrypted(d, m, "none").ret \in {0, OMEMO_EUSER}
  BY DEF PreKeyMessageOpens
<1> DEFINE s == session[d]
           st == store[d]
           skp == skipped[d]
           new == NewKey(d)
<1>1. ~Started(d) /\ s = ZeroSession /\ skp = {}
  BY DEF Started, Inv, Talk, Unstarted
<1>2. /\ s \in Session /\ m \in Incoming /\ m.dh # Zero /\ m.dh \in PubKey /\ m.n \in Nat
      /\ st \in Store /\ GoodStore(st) /\ st.init /\ st.identity = OwnIdentity
      /\ Offering(d, st, offered[d]) /\ new \in PubKey
  <2>1. new \in PubKey
    BY DEF NewKey, PubKey, Inv, TypeInv, Types
  <2>2. m \in Incoming /\ m.dh # Zero /\ s \in Session
    BY GenuineSent
  <2> QED BY <2>1, <2>2 DEF Incoming, Inv, TypeInv, Stores, OwnIdentity, Offers
<1>3. PICK b : MadeFrom(d, m, b)
  BY <1>1, OpeningMessage
<1>4. b \in offered[d] /\ m.ad = <<OwnKey(Peer(d)), OwnKey(d)>> /\ m.ik = OwnKey(Peer(d))
  BY <1>3 DEF MadeFrom
<1>5. Pub(d, "ik", st.identity) = OwnKey(d)
  BY <1>2, OwnKeyIs DEF OwnIdentity
<1>6. /\ \E j \in Slot : st.prekeys[j].id = m.pk_id
      /\ m.spk_id \in {st.cursignedprekey.id, st.prevsignedprekey.id}
  OBVIOUS
<1>14. Loaded(skp, m) = {}
  BY <1>1 DEF Loaded, omemoLoadMessageKey
<1> HIDE DEF s, st, skp, new
<1>7. ASSUME NEW s0 \in Session, s0 = AcceptedSession(d, s, st, m)
      PROVE  /\ Findable(st, m) /\ s0.identity = OwnKey(d)
             /\ ~Misses(s0, skp, m, new, "none")
  <2>1. /\ Findable(st, m) /\ b.ik = OwnKey(d)
        /\ s0.identity = OwnKey(d) /\ s0.remoteidentity = m.ik
        /\ s0.state.dhs = b.spk /\ s0.state.dhr = Zero
        /\ s0.state.rk = AcceptedSecret(d, b, m)
    <3>1. s0 = AcceptedSession(d, ZeroSession, st, m)
      BY <1>1, <1>7
    <3> QED BY <1>2, <1>3, <1>4, <1>6, <3>1, FirstAccepted
  <2>2. s0.state \in State
    BY <1>7 DEF Session
  <2>3. m.mk = KeyAt(Ratcheted(s0.state, m.dh, new), m.n)
    BY <1>2, <1>3, <2>1, <2>2, FirstKeysAgree
  <2> QED BY <1>2, <1>4, <1>14, <2>1, <2>3 DEF Misses
<1>8. Findable(st, m)
  <2> DEFINE s0 == AcceptedSession(d, ZeroSession, st, m)
  <2>1. s0 = AcceptedSession(d, ZeroSession, st, m)
    OBVIOUS
  <2> HIDE DEF s0
  <2> QED BY <1>2, <1>3, <1>4, <1>6, <2>1, FirstAccepted
<1>9. ~NoSessionFor(s, st, m)
  BY <1>8 DEF NoSessionFor, s, SESSION_UNINIT, SESSION_INIT
<1>10. ASSUME NEW s0 \in Session, SessionOf(d, s, st, m, s0)
       PROVE  s0.identity = OwnKey(d) /\ ~Misses(s0, skp, m, new, "none")
  <2>1. s0 = AcceptedSession(d, s, st, m)
    BY <1>10 DEF SessionOf, s, SESSION_UNINIT, SESSION_INIT, SESSION_READY, SESSION_HEARTBEAT
  <2> QED BY <1>7, <2>1
<1>11. ~MissesAny(d, s, st, skp, m, new, "none")
  BY <1>5, <1>9, <1>10 DEF MissesAny
<1> DEFINE r == omemoDecryptKey(d, s, st, skp, m, new, "none")
<1>12. DecryptOutcomes(d, s, st, skp, m, new, "none", r)
  BY <1>2, DecryptOutcome
<1> HIDE DEF r
<1>13. r.ret \in {0, OMEMO_EUSER}
  BY <1>11, <1>12 DEF DecryptOutcomes
<1> QED BY <1>13 DEF r, s, st, skp, new, Decrypted

----------------------------------------------------------------------------
(* omemoDecryptKey answers the first message of a peer that made it from a *)
(* bundle this device announced, while the store still lists the two keys  *)
(* by the message's ids: FindPreKey and FindSignedPreKey then return the   *)
(* keys of that bundle and no others, both ends have the same secret, and  *)
(* only the limit on skipped keys may refuse the message. The ids are for  *)
(* the store's first turn of its counters: after one more turn an old      *)
(* message names another key.                                              *)
THEOREM PreKeyMessagesOpen ==
  ASSUME Rollback, MaxMade <= IdMax, MaxSigned <= IdMax
  PROVE  Spec => []PreKeyMessageOpens
<1> DEFINE I == Inv /\ Offers /\ \A d \in Device : Opening(d)
<1>1. Init => I
  <2> SUFFICES ASSUME Init PROVE I
    OBVIOUS
  <2>1. ASSUME NEW d \in Device PROVE Opening(d)
    <3>1. session[d] = ZeroSession
      BY DEF Init
    <3> QED BY <3>1 DEF Opening, ZeroSession, SESSION_UNINIT, SESSION_INIT
  <2> QED BY <2>1, InitInv, InitOffers
<1>2. I /\ [Next]_vars => I'
  <2> SUFFICES ASSUME I, [Next]_vars PROVE I'
    OBVIOUS
  <2>1. Inv'
    BY NextInv
  <2>2. Offers'
    BY OffersKept DEF Inv
  <2>3. PICK x \in Device : Acts(x)
    BY StepCases DEF Inv, Talk
  <2>4. \A d \in Device : Opening(d)'
    BY <2>3, OpeningKept
  <2> QED BY <2>1, <2>2, <2>4
<1>3. I => PreKeyMessageOpens
  BY InvPreKeyMessageOpens
<1> QED BY <1>1, <1>2, <1>3, PTL DEF Spec

=============================================================================
