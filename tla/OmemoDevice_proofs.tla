------------------------- MODULE OmemoDevice_proofs -------------------------
(***************************************************************************)
(* Proofs about the device store, for every number of slots, every width   *)
(* of an id and any number of restarts and failures of the source of       *)
(* randomness.                                                             *)
(***************************************************************************)
EXTENDS OmemoDevice, OmemoStore_proofs

----------------------------------------------------------------------------
(* The theorems.  Inv is inductive: a numbered store stays numbered, also  *)
(* when a restart replaces the store by the one on disk.                   *)
Inv == TypeOK /\ IdsNumbered /\ WholeOrNothing

LEMMA InitInv == Init => Inv
<1> SUFFICES ASSUME Init PROVE Inv
  OBVIOUS
<1>1. /\ store = ZeroStore /\ disk = ZeroStore /\ boot \in Nat
      /\ offeredPk = {} /\ offeredSpk = {} /\ unsavedPk = {} /\ unsavedSpk = {}
  BY DEF Init
<1>2. TypeOK
  BY <1>1, ZeroStoreType DEF TypeOK
<1>3. IdsNumbered
  BY <1>1, ZeroStoreType DEF IdsNumbered
<1>4. WholeOrNothing
  BY <1>1 DEF WholeOrNothing, ZeroStore
<1> QED BY <1>2, <1>3, <1>4 DEF Inv

LEMMA InvStores ==
  Inv <=> /\ GoodStore(store) /\ GoodStore(disk) /\ boot \in Nat
          /\ offeredPk \cup unsavedPk \subseteq [ik : Key, pk : PreKey]
          /\ offeredSpk \cup unsavedSpk \subseteq [ik : Key, spk : PreKey]
  BY DEF Inv, TypeOK, IdsNumbered, WholeOrNothing, GoodStore, Whole

LEMMA NextInv == Inv /\ [Next]_vars => Inv'
<1> SUFFICES ASSUME Inv, [Next]_vars PROVE Inv'
  OBVIOUS
<1> DEFINE Offers == /\ offeredPk \cup unsavedPk \subseteq [ik : Key, pk : PreKey]
                     /\ offeredSpk \cup unsavedSpk \subseteq [ik : Key, spk : PreKey]
<1>1. GoodStore(store) /\ GoodStore(disk) /\ boot \in Nat /\ Offers
  BY InvStores
<1>2. GoodStore(store') /\ GoodStore(disk') /\ boot' \in Nat /\ Offers'
  <2>1. ASSUME NEW rnd \in Draws, SetupStore(rnd)
        PROVE  GoodStore(store') /\ GoodStore(disk') /\ boot' \in Nat /\ Offers'
    <3>1. rnd \in Nat
      BY StoreAssumption DEF Draws
    <3> QED BY <1>1, <2>1, <3>1, GoodSetup DEF SetupStore, offers
  <2>2. ASSUME NEW rnd \in Draws, RefillPreKeys(rnd)
        PROVE  GoodStore(store') /\ GoodStore(disk') /\ boot' \in Nat /\ Offers'
    <3>1. rnd \in Nat
      BY StoreAssumption DEF Draws
    <3> QED BY <1>1, <2>2, <3>1, GoodRefill DEF RefillPreKeys, offers
  <2>3. ASSUME NEW rnd \in Draws, RotateSignedPreKey(rnd)
        PROVE  GoodStore(store') /\ GoodStore(disk') /\ boot' \in Nat /\ Offers'
    <3>1. rnd \in Nat
      BY StoreAssumption DEF Draws
    <3> QED BY <1>1, <2>3, <3>1, GoodRotate DEF RotateSignedPreKey, offers
  <2>4. ASSUME NEW i \in Slot, RemovePreKey(i)
        PROVE  GoodStore(store') /\ GoodStore(disk') /\ boot' \in Nat /\ Offers'
    BY <1>1, <2>4, GoodRemove DEF RemovePreKey, offers
  <2>5. CASE SaveStore
    BY <1>1, <2>5 DEF SaveStore
  <2>6. CASE AnnounceOmemoBundle
    <3>1. store \in Store
      BY <1>1 DEF GoodStore
    <3>2. /\ Bundle \subseteq [ik : Key, pk : PreKey]
          /\ SignedBundle \subseteq [ik : Key, spk : PreKey]
      BY <3>1 DEF Store, Bundle, SignedBundle
    <3> QED BY <1>1, <2>6, <3>2 DEF AnnounceOmemoBundle
  <2>7. CASE Restart
    <3>1. store' \in {disk, ZeroStore}
      BY <2>7, LoadOutcome DEF Restart
    <3> QED BY <1>1, <2>7, <3>1, GoodZeroStore DEF Restart
  <2>8. CASE UNCHANGED vars
    BY <1>1, <2>8 DEF vars, offers
  <2> QED BY <2>1, <2>2, <2>3, <2>4, <2>5, <2>6, <2>7, <2>8 DEF Next
<1>3. Inv' <=> GoodStore(store') /\ GoodStore(disk') /\ boot' \in Nat /\ Offers'
  BY DEF Inv, TypeOK, IdsNumbered, WholeOrNothing, GoodStore, Whole
<1> QED BY <1>2, <1>3

(* The device state keeps its shape in every behaviour: no call of the     *)
(* store makes a record that is not a store.                               *)
THEOREM TypeCorrect == Spec => []TypeOK
<1>1. Inv => TypeOK
  BY DEF Inv
<1> QED BY InitInv, NextInv, <1>1, PTL DEF Spec

(* The id of every live prekey is the counter's value at its generation,   *)
(* through refills cut short, removals, wraps and restarts.                *)
THEOREM PreKeysNumbered == Spec => []IdsNumbered
<1>1. Inv => IdsNumbered
  BY DEF Inv
<1> QED BY InitInv, NextInv, <1>1, PTL DEF Spec

(* A failed set-up leaves no half-made store behind, in memory or on disk. *)
THEOREM StoresWhole == Spec => []WholeOrNothing
<1>1. Inv => WholeOrNothing
  BY DEF Inv
<1> QED BY InitInv, NextInv, <1>1, PTL DEF Spec

(* No two live prekeys of a store share an id, however many refills ran    *)
(* out of randomness, prekeys were removed and restarts happened, as long  *)
(* as neither survived a whole turn of the counter.                        *)
THEOREM LiveIdsDistinct == Spec => []IdsDistinct
<1>1. Inv => IdsDistinct
  BY InvStores, NumberedDistinct DEF IdsDistinct
<1> QED BY InitInv, NextInv, <1>1, PTL DEF Spec

(* No call replaces a live prekey: while the program runs, a prekey a peer *)
(* may be using leaves its slot only by being removed.                     *)
LEMMA StepKeepsLivePreKeys ==
  ASSUME Inv, [Next]_vars, boot' = boot, NEW i \in Slot, store.prekeys[i].id # 0
  PROVE  store'.prekeys[i] \in {store.prekeys[i], NoPreKey}
<1>1. GoodStore(store) /\ store \in Store /\ boot \in Nat
  BY InvStores DEF GoodStore
<1>2. ASSUME NEW rnd \in Draws, SetupStore(rnd)
      PROVE  store'.prekeys[i] \in {store.prekeys[i], NoPreKey}
  <2>1. store = ZeroStore
    BY <1>1, <1>2 DEF SetupStore, GoodStore, Whole
  <2> QED BY <2>1 DEF ZeroStore, NoPreKey
<1>3. ASSUME NEW rnd \in Draws, RefillPreKeys(rnd)
      PROVE  store'.prekeys[i] \in {store.prekeys[i], NoPreKey}
  <2> DEFINE new == omemoRefillPreKeys(store, boot, rnd).store
  <2>1. rnd \in Int
    BY StoreAssumption DEF Draws
  <2>2. \A k \in Slot : store.prekeys[k].id # 0 => new.prekeys[k] = store.prekeys[k]
    BY <1>1, <2>1, RefillKeeps
  <2>3. store' = new
    BY <1>3 DEF RefillPreKeys
  <2> HIDE DEF new
  <2> QED BY <2>2, <2>3
<1>4. ASSUME NEW rnd \in Draws, RotateSignedPreKey(rnd)
      PROVE  store'.prekeys[i] \in {store.prekeys[i], NoPreKey}
  <2> DEFINE new == omemoRotateSignedPreKey(store, boot, rnd).store
  <2>1. rnd \in Nat
    BY StoreAssumption DEF Draws
  <2>2. new.prekeys = store.prekeys
    BY <1>1, <2>1, RotateOutcome
  <2>3. store' = new
    BY <1>4 DEF RotateSignedPreKey
  <2> HIDE DEF new
  <2> QED BY <2>2, <2>3
<1>5. ASSUME NEW k \in Slot, RemovePreKey(k)
      PROVE  store'.prekeys[i] \in {store.prekeys[i], NoPreKey}
  BY <1>1, <1>5 DEF RemovePreKey, Store
<1>6. CASE SaveStore \/ AnnounceOmemoBundle \/ UNCHANGED vars
  BY <1>6 DEF SaveStore, AnnounceOmemoBundle, vars
<1>7. CASE Restart
  BY <1>1, <1>7 DEF Restart
<1> QED BY <1>2, <1>3, <1>4, <1>5, <1>6, <1>7 DEF Next

THEOREM LivePreKeysSafe == Spec => LivePreKeysKept
<1>1. Inv /\ [Next]_vars =>
        [boot' = boot => \A i \in Slot : store.prekeys[i].id # 0 =>
           store'.prekeys[i] \in {store.prekeys[i], NoPreKey}]_vars
  BY StepKeepsLivePreKeys
<1> QED BY InitInv, NextInv, <1>1, PTL DEF Spec, LivePreKeysKept

----------------------------------------------------------------------------
(* What the device announced: the ids of its bundles lead to the announced *)
(* keys or to none.                                                        *)
(*                                                                         *)
(* A store answers for an offer when the offer is of its identity.  The    *)
(* invariant says what the store in memory and the one on disk then know   *)
(* about the offered key; an identity belongs to the run of the program    *)
(* that made it, so a store set up anew answers for no earlier offer.      *)

(* An identity was made in this run of the program or in an earlier one,   *)
(* and while the program has no store, in an earlier one.                  *)
Dated(st, b) == st.init => st.identity.boot <= b

OfferDated(o) ==
  /\ o.ik # NoKey
  /\ o.ik.boot <= boot
  /\ ~store.init => o.ik.boot < boot

AllPk  == offeredPk \cup unsavedPk
AllSpk == offeredSpk \cup unsavedSpk

(* The store on disk answers only for what was announced before it was     *)
(* saved, and a restart forgets the rest.                                  *)
OffersInv ==
  /\ Answers(store, AllPk, AllSpk) /\ Dated(store, boot)
  /\ Answers(disk, offeredPk, offeredSpk) /\ Dated(disk, boot)
  /\ \A o \in AllPk \cup AllSpk : OfferDated(o)

IInv == Inv /\ OffersInv

----------------------------------------------------------------------------
(* IInv is inductive.                                                      *)

LEMMA InitIInv == Init => IInv
<1> SUFFICES ASSUME Init PROVE OffersInv
  BY InitInv DEF IInv
<1>1. /\ store = ZeroStore /\ disk = ZeroStore
      /\ offeredPk = {} /\ offeredSpk = {} /\ AllPk = {} /\ AllSpk = {}
      /\ ZeroStore.init = FALSE
  BY DEF Init, ZeroStore, AllPk, AllSpk
<1>2. SignedNumbered(ZeroStore) /\ Dated(ZeroStore, boot)
  BY <1>1 DEF SignedNumbered, Dated
<1>3. Answers(ZeroStore, {}, {})
  BY <1>1, <1>2, FreshAnswers
<1> QED BY <1>1, <1>2, <1>3 DEF OffersInv

LEMMA NextIInv == IInv /\ [Next]_vars => IInv'
<1> SUFFICES ASSUME IInv, [Next]_vars PROVE OffersInv'
  BY NextInv DEF IInv
<1>1. /\ GoodStore(store) /\ GoodStore(disk) /\ boot \in Nat
      /\ offeredPk \in PreKeyOffers /\ offeredSpk \in SignedOffers
      /\ AllPk \in PreKeyOffers /\ AllSpk \in SignedOffers
  BY InvStores DEF IInv, PreKeyOffers, SignedOffers, AllPk, AllSpk
<1>2. /\ Answers(store, AllPk, AllSpk) /\ Dated(store, boot)
      /\ Answers(disk, offeredPk, offeredSpk) /\ Dated(disk, boot)
      /\ \A o \in AllPk \cup AllSpk : OfferDated(o)
  BY DEF IInv, OffersInv
<1>3. \A o \in AllPk \cup AllSpk : o.ik.boot \in Nat /\ o.ik \in Key
  BY <1>1 DEF PreKeyOffers, SignedOffers, Key
<1>4. ASSUME UNCHANGED <<store, disk, boot, offers>> PROVE OffersInv'
  BY <1>2, <1>4 DEF OffersInv, OfferDated, AllPk, AllSpk, offers
(* A call that changes the store in memory only.                           *)
<1>5. ASSUME UNCHANGED <<disk, boot, offers>>,
             Answers(store', AllPk, AllSpk), Dated(store', boot),
             store'.init = store.init
      PROVE  OffersInv'
  BY <1>2, <1>5 DEF OffersInv, OfferDated, AllPk, AllSpk, offers
<1>6. ASSUME NEW rnd \in Draws, SetupStore(rnd) PROVE OffersInv'
  <2> DEFINE new == omemoSetupStore(boot, rnd).store
  <2>1. rnd \in Nat
    BY StoreAssumption DEF Draws
  <2>2. store' = new /\ UNCHANGED <<disk, boot, offers>> /\ ~store.init
    BY <1>6 DEF SetupStore
  <2>3. \/ new = ZeroStore
        \/ /\ new.identity = [seq |-> 1, boot |-> boot]
           /\ new.cursignedprekey = [id |-> 1, kp |-> [seq |-> 1, boot |-> boot]]
           /\ new.prevsignedprekey = NoPreKey
    BY <1>1, <2>1, SetupSigned
  <2> HIDE DEF new
  <2>4. CASE new = ZeroStore
    <3>1. store = ZeroStore
      BY <1>1, <2>2 DEF GoodStore, Whole
    <3> QED BY <1>4, <2>2, <2>4, <3>1
  <2>5. CASE new # ZeroStore
    <3>1. \A o \in AllPk \cup AllSpk : o.ik.boot < boot
      BY <1>2, <2>2 DEF OfferDated
    <3>2. new.identity.boot = boot
      BY <2>3, <2>5
    <3>3. \A o \in AllPk \cup AllSpk : o.ik # new.identity
      BY <1>1, <1>3, <3>1, <3>2
    <3>4. SignedNumbered(new)
      BY <2>3, <2>5, StoreAssumption DEF SignedNumbered
    <3>5. Answers(new, AllPk, AllSpk)
      BY <3>3, <3>4, FreshAnswers
    <3>6. Dated(new, boot)
      BY <1>1, <3>2 DEF Dated
    <3>7. UNCHANGED <<AllPk, AllSpk, offeredPk, offeredSpk>>
      BY <2>2 DEF AllPk, AllSpk, offers
    <3>8. \A o \in AllPk \cup AllSpk : OfferDated(o)'
      BY <1>2, <1>3, <2>2, <3>1 DEF OfferDated
    <3> QED BY <1>2, <2>2, <3>5, <3>6, <3>7, <3>8 DEF OffersInv
  <2> QED BY <2>4, <2>5
<1>7. ASSUME NEW rnd \in Draws, RefillPreKeys(rnd) PROVE OffersInv'
  <2> DEFINE new == omemoRefillPreKeys(store, boot, rnd).store
  <2>1. rnd \in Nat /\ rnd \in Int /\ store \in Store
    BY <1>1, StoreAssumption DEF Draws, GoodStore
  <2>2. /\ store' = new /\ store.init
        /\ UNCHANGED <<disk, boot, offers>>
    BY <1>7 DEF RefillPreKeys
  <2>3. Answers(new, AllPk, AllSpk) /\ new.identity = store.identity
    BY <1>1, <1>2, <2>1, <2>2, RefillAnswers
  <2>4. new.init = store.init
    BY <1>1, <2>1, RefillKeeps
  <2> HIDE DEF new
  <2>5. Dated(new, boot)
    BY <1>2, <2>3, <2>4 DEF Dated
  <2> QED BY <1>5, <2>2, <2>3, <2>4, <2>5
<1>8. ASSUME NEW rnd \in Draws, RotateSignedPreKey(rnd) PROVE OffersInv'
  <2> DEFINE new == omemoRotateSignedPreKey(store, boot, rnd).store
  <2>1. rnd \in Nat /\ store \in Store
    BY <1>1, StoreAssumption DEF Draws, GoodStore
  <2>2. /\ store' = new /\ store.init
        /\ UNCHANGED <<disk, boot, offers>>
    BY <1>8 DEF RotateSignedPreKey
  <2>3. Answers(new, AllPk, AllSpk) /\ new.identity = store.identity
    BY <1>1, <1>2, <2>1, <2>2, RotateAnswers
  <2>4. new.init = store.init
    BY <1>1, <2>1, RotateOutcome
  <2> HIDE DEF new
  <2>5. Dated(new, boot)
    BY <1>2, <2>3, <2>4 DEF Dated
  <2> QED BY <1>5, <2>2, <2>3, <2>4, <2>5
<1>9. ASSUME NEW k \in Slot, RemovePreKey(k) PROVE OffersInv'
  <2> DEFINE new == [store EXCEPT !.prekeys[k] = NoPreKey]
  <2>1. store' = new /\ UNCHANGED <<disk, boot, offers>>
    BY <1>9 DEF RemovePreKey
  <2>2. Answers(new, AllPk, AllSpk) /\ new.identity = store.identity
    BY <1>1, <1>2, RemoveAnswers
  <2>3. new.init = store.init
    BY <1>1 DEF GoodStore, Store
  <2> HIDE DEF new
  <2>4. Dated(new, boot)
    BY <1>2, <2>2, <2>3 DEF Dated
  <2> QED BY <1>5, <2>1, <2>2, <2>3, <2>4
<1>10. CASE SaveStore
  <2>1. /\ store' = store /\ disk' = store /\ boot' = boot
        /\ offeredPk' = AllPk /\ offeredSpk' = AllSpk
        /\ UNCHANGED <<AllPk, AllSpk>>
    BY <1>10 DEF SaveStore, AllPk, AllSpk
  <2> QED BY <1>2, <2>1 DEF OffersInv, OfferDated
<1>11. CASE AnnounceOmemoBundle
  <2>1. /\ store.init
        /\ AllPk' = AllPk \cup Bundle /\ AllSpk' = AllSpk \cup SignedBundle
        /\ UNCHANGED <<store, disk, boot>>
    BY <1>11 DEF AnnounceOmemoBundle, AllPk, AllSpk
  <2>2. Answers(store, AllPk', AllSpk')
    BY <1>1, <1>2, <2>1, AnnounceAnswers DEF Bundle, SignedBundle
  <2>3. Answers(disk, offeredPk', offeredSpk')
    <3>1. CASE disk = store
      BY <1>1, <1>2, <1>11, <2>1, <3>1, AnnounceAnswers
         DEF AnnounceOmemoBundle, Bundle, SignedBundle
    <3>2. CASE disk # store
      BY <1>2, <1>11, <3>2 DEF AnnounceOmemoBundle
    <3> QED BY <3>1, <3>2
  <2>4. store.identity # NoKey /\ store.identity.boot <= boot
    BY <1>1, <1>2, <2>1 DEF GoodStore, Whole, Dated
  <2>5. \A o \in Bundle \cup SignedBundle : o.ik = store.identity
    BY DEF Bundle, SignedBundle
  <2>6. \A o \in AllPk' \cup AllSpk' : OfferDated(o)'
    BY <1>2, <2>1, <2>4, <2>5 DEF OfferDated
  <2> QED BY <1>2, <2>1, <2>2, <2>3, <2>6 DEF OffersInv
<1>12. CASE Restart
  <2>1. /\ store' \in {disk, ZeroStore} /\ boot' = boot + 1
        /\ UNCHANGED <<disk, offeredPk, offeredSpk>>
        /\ AllPk' = offeredPk /\ AllSpk' = offeredSpk
    BY <1>12, LoadOutcome DEF Restart, AllPk, AllSpk
  <2>2. offeredPk \subseteq AllPk /\ offeredSpk \subseteq AllSpk
    BY DEF AllPk, AllSpk
  <2>3. ZeroStore.init = FALSE /\ ZeroStore.identity = NoKey
    BY DEF ZeroStore
  <2>4. \A o \in offeredPk \cup offeredSpk : o.ik # ZeroStore.identity
    BY <1>2, <2>2, <2>3 DEF OfferDated
  <2>5. Answers(ZeroStore, offeredPk, offeredSpk)
    BY <2>3, <2>4, FreshAnswers DEF SignedNumbered
  <2>6. Dated(disk, boot + 1)
    <3>1. disk.identity.boot \in Nat
      BY <1>1 DEF GoodStore, Store, Key
    <3> QED BY <1>1, <1>2, <3>1 DEF Dated
  <2>7. Dated(ZeroStore, boot + 1)
    BY <2>3 DEF Dated
  <2>8. \A o \in offeredPk \cup offeredSpk : OfferDated(o)'
    BY <1>1, <1>2, <1>3, <2>1, <2>2 DEF OfferDated
  <2> QED BY <1>2, <2>1, <2>5, <2>6, <2>7, <2>8 DEF OffersInv
<1>13. CASE UNCHANGED vars
  BY <1>4, <1>13 DEF vars
<1> QED BY <1>6, <1>7, <1>8, <1>9, <1>10, <1>11, <1>12, <1>13 DEF Next

----------------------------------------------------------------------------
(* A peer that holds an announced prekey id reaches the announced key or   *)
(* finds none: after any refills, removals, failures and restarts no other *)
(* key answers to the id, as long as neither survived a turn of the        *)
(* counter.                                                                *)
THEOREM AnnouncedPreKeysSafe == Spec => []OfferNamesItsKey
<1>1. IInv => OfferNamesItsKey
  <2> SUFFICES ASSUME IInv, NEW o \in AllPk, o.ik = store.identity, o.pk.id # 0,
                      store.made - o.pk.kp.seq < IdMax,
                      NEW found, found = FindPreKey(store, o.pk.id), found # Null,
                      ~ (store.made - found.kp.seq >= IdMax)
               PROVE  found = o.pk
    BY DEF OfferNamesItsKey, AllPk
  <2>1. GoodStore(store) /\ Answers(store, AllPk, AllSpk)
    BY InvStores DEF IInv, OffersInv
  <2> QED BY <2>1, PreKeyFound
<1> QED BY InitIInv, NextIInv, <1>1, PTL DEF Spec

(* A peer that holds an announced signed prekey finds its key while it is  *)
(* current and after one rotation, also after a restart; later it finds    *)
(* none rather than another key.                                           *)
THEOREM SignedPreKeysRetained == Spec => []SignedPreKeyRetained
<1>1. IInv => SignedPreKeyRetained
  <2> SUFFICES ASSUME IInv, NEW o \in AllSpk, o.ik = store.identity
               PROVE  LET age == store.cursignedprekey.kp.seq - o.spk.kp.seq
                          found == FindSignedPreKey(store, o.spk.id)
                      IN /\ age >= 0
                         /\ age \in {0, 1} => found = o.spk
                         /\ age >= 2 /\ age < IdMax => found = Null
    BY DEF SignedPreKeyRetained, AllSpk
  <2>1. /\ Answers(store, AllPk, AllSpk) /\ OfferDated(o)
        /\ GoodStore(store)
    BY InvStores DEF IInv, OffersInv
  <2>2. store.init
    BY <2>1 DEF GoodStore, OfferDated, Whole, ZeroStore
  <2> QED BY <2>1, <2>2, SignedFound
<1> QED BY InitIInv, NextIInv, <1>1, PTL DEF Spec
===============================================================================
