----------------------------- MODULE OmemoDevice ----------------------------
(***************************************************************************)
(* One device over its life: it sets up its store, announces its bundle,   *)
(* gives up the prekeys that were used, refills and rotates them, saves    *)
(* the store and restarts from what it saved, with a source of randomness  *)
(* that may fail at every draw.                                            *)
(*                                                                         *)
(* The calls are those of omemo.c; saving, restarting and announcing are   *)
(* those of its callers (README.md, example/im.c), which may announce a    *)
(* store before they save it or after.  Peers keep any bundle they ever    *)
(* fetched.                                                                *)
(***************************************************************************)
EXTENDS OmemoStore

CONSTANTS
  MaxKeys,      \* bound: prekeys and signed prekeys generated in one store
  MaxBoot       \* bound: runs of the program

VARIABLES
  store,        \* struct omemoStore, in memory
  disk,         \* the last serialized store; ZeroStore before the first
  boot,         \* which run of the program this is
  offeredPk,    \* the prekeys announced so far, with the identity
  offeredSpk,   \* the signed prekeys announced so far, with the identity
  unsavedPk,    \* those announced from a store that was not saved since
  unsavedSpk

offers == <<offeredPk, offeredSpk, unsavedPk, unsavedSpk>>

vars == <<store, disk, boot, offers>>

Draws == 0..(NumPreKeys + 3)

Init ==
  /\ store = ZeroStore
  /\ disk = ZeroStore
  /\ boot = 1
  /\ offeredPk = {}
  /\ offeredSpk = {}
  /\ unsavedPk = {}
  /\ unsavedSpk = {}

(* A program that saved no store makes one, as often as it takes; one with *)
(* a saved store that does not load makes none.                            *)
SetupStore(rnd) ==
  /\ ~store.init
  /\ ~disk.init
  /\ NumPreKeys < MaxKeys
  /\ store' = omemoSetupStore(boot, rnd).store
  /\ UNCHANGED <<disk, boot, offers>>

RefillPreKeys(rnd) ==
  /\ store.init
  /\ store.made + Cardinality(EmptySlots(store.prekeys))
       + store.cursignedprekey.kp.seq <= MaxKeys
  /\ store' = omemoRefillPreKeys(store, boot, rnd).store
  /\ UNCHANGED <<disk, boot, offers>>

RotateSignedPreKey(rnd) ==
  /\ store.init
  /\ store.made + store.cursignedprekey.kp.seq < MaxKeys
  /\ store' = omemoRotateSignedPreKey(store, boot, rnd).store
  /\ UNCHANGED <<disk, boot, offers>>

(* The caller zeroes the entry of a prekey that was used (omemo.h asks it  *)
(* to, since omemoDecryptKey must not change the store).                   *)
RemovePreKey(i) ==
  /\ store.init
  /\ store.prekeys[i] # NoPreKey
  /\ store' = [store EXCEPT !.prekeys[i] = NoPreKey]
  /\ UNCHANGED <<disk, boot, offers>>

SaveStore ==
  /\ store.init
  /\ disk # store
  /\ disk' = store
  /\ offeredPk' = offeredPk \cup unsavedPk
  /\ offeredSpk' = offeredSpk \cup unsavedSpk
  /\ unsavedPk' = {}
  /\ unsavedSpk' = {}
  /\ UNCHANGED <<store, boot>>

(* Every slot is announced, the emptied ones too, saved or not.            *)
Bundle == {[ik |-> store.identity, pk |-> store.prekeys[i]] : i \in Slot}

SignedBundle == {[ik |-> store.identity, spk |-> store.cursignedprekey]}

AnnounceOmemoBundle ==
  /\ store.init
  /\ IF disk = store
     THEN /\ offeredPk' = offeredPk \cup Bundle
          /\ offeredSpk' = offeredSpk \cup SignedBundle
          /\ UNCHANGED <<unsavedPk, unsavedSpk>>
     ELSE /\ unsavedPk' = unsavedPk \cup Bundle
          /\ unsavedSpk' = unsavedSpk \cup SignedBundle
          /\ UNCHANGED <<offeredPk, offeredSpk>>
  /\ UNCHANGED <<store, disk, boot>>

(* The program stops at any point; the next run loads what was saved.  A   *)
(* store that does not load is none: im.c stops there, and nothing but     *)
(* another start is left.  What was announced and not saved is followed    *)
(* no further: its keys are gone for good (README.md, section 3).          *)
Restart ==
  /\ boot < MaxBoot
  /\ boot' = boot + 1
  /\ store' = omemoDeserializeStore(disk).store
  /\ unsavedPk' = {}
  /\ unsavedSpk' = {}
  /\ UNCHANGED <<disk, offeredPk, offeredSpk>>

Next ==
  \/ \E rnd \in Draws :
       \/ SetupStore(rnd)
       \/ RefillPreKeys(rnd)
       \/ RotateSignedPreKey(rnd)
  \/ \E i \in Slot : RemovePreKey(i)
  \/ SaveStore
  \/ AnnounceOmemoBundle
  \/ Restart

Spec == Init /\ [][Next]_vars

----------------------------------------------------------------------------
(* The shape of the state: both stores are stores, offers are announced    *)
(* prekeys.                                                                *)
TypeOK ==
  /\ store \in Store
  /\ disk \in Store
  /\ boot \in Nat
  /\ offeredPk \cup unsavedPk \subseteq [ik : Key, pk : PreKey]
  /\ offeredSpk \cup unsavedSpk \subseteq [ik : Key, spk : PreKey]

(* Of the store in memory and of the one a restart would load; this is the *)
(* inductive form of IdsDistinct.                                          *)
IdsNumbered == NumberedByAge(store) /\ NumberedByAge(disk)

(* Of the store in memory and of the one a restart would load.             *)
IdsDistinct == DistinctIds(store) /\ DistinctIds(disk)

(* omemo.h: rotation "retains the previous signed prekey for one           *)
(* rotation".  A peer that holds an announced signed prekey finds its key  *)
(* under its id while it is current and after one rotation, and an older   *)
(* one finds nothing rather than another key, also after a restart from a  *)
(* store that was saved with it.                                           *)
SignedPreKeyRetained ==
  \A o \in offeredSpk \cup unsavedSpk :
    o.ik = store.identity =>
      LET age == store.cursignedprekey.kp.seq - o.spk.kp.seq
          found == FindSignedPreKey(store, o.spk.id)
      IN /\ age >= 0
         /\ age \in {0, 1} => found = o.spk
         /\ age >= 2 /\ age < IdMax => found = Null

(* An announced prekey id never leads to a key other than the announced    *)
(* one (the session would be built on the wrong secret), also after a      *)
(* restart from a store that was saved with it, as long as neither key     *)
(* survived a whole turn of the counter.                                   *)
OfferNamesItsKey ==
  \A o \in offeredPk \cup unsavedPk :
    /\ o.ik = store.identity
    /\ o.pk.id # 0
    /\ store.made - o.pk.kp.seq < IdMax
    => LET found == FindPreKey(store, o.pk.id)
       IN found \in {o.pk, Null} \/ store.made - found.kp.seq >= IdMax

(* A call that ran out of randomness half-way, or a store that could not   *)
(* be loaded, leaves either a whole store or none: a store that is in use  *)
(* has an identity and a signed prekey, the others are zero.               *)
WholeOrNothing ==
  \A st \in {store, disk} :
    IF st.init
    THEN st.identity # NoKey /\ st.cursignedprekey.id # 0 /\ st.pkcounter # 0
    ELSE st = ZeroStore

(* While the program runs, a live prekey keeps its slot and its key until  *)
(* it is removed: no refill replaces a prekey a peer may be using.         *)
LivePreKeysKept ==
  [][boot' = boot =>
       \A i \in Slot : store.prekeys[i].id # 0 =>
         store'.prekeys[i] \in {store.prekeys[i], NoPreKey}]_vars

(* test/omemo.c, TestSerialization: a serialized store deserializes, to    *)
(* the same store.                                                         *)
SavedStoreLoads == omemoDeserializeStore(disk) = [ret |-> 0, store |-> disk]
=============================================================================
