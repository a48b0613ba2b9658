----------------------------- MODULE OmemoStore -----------------------------
(***************************************************************************)
(* The device store of omemo.c (struct omemoStore): the identity key, the  *)
(* current and the previous signed prekey, the array of one-time prekeys   *)
(* and the counter that numbers them.  The operators are the library's     *)
(* functions, as pure functions on a store record; OmemoDevice puts them   *)
(* in a program that saves, restarts and publishes, OmemoRatchet uses them *)
(* to set up sessions.                                                     *)
(*                                                                         *)
(* A key pair is named, never computed: [seq |-> n, boot |-> b] is the     *)
(* n-th key of its kind that the store generated, in the b-th run of the   *)
(* program.  The zeroed key of memset is NoKey.                            *)
(*                                                                         *)
(* A definition Faulty_X is X with a mistake in it; nothing uses it.  The  *)
(* properties are known to tell it from X.                                 *)
(***************************************************************************)
EXTENDS Integers, FiniteSets

CONSTANTS
  NumPreKeys,   \* OMEMO_NUMPREKEYS: the slots of the prekey array
  IdMax,        \* the largest uint32_t, where an id wraps
  OneByteMax    \* the largest id whose protobuf varint takes one byte (127)

ASSUME StoreAssumption ==
  /\ NumPreKeys \in Nat \ {0}
  /\ IdMax \in Nat /\ IdMax >= 2 /\ NumPreKeys <= IdMax
  /\ OneByteMax \in Nat

OMEMO_EPROTOBUF == -1
OMEMO_ECORRUPT  == -3
OMEMO_ESTATE    == -5
OMEMO_EKEYGONE  == -6
OMEMO_ESTORE    == -7
OMEMO_EUSER     == -8
OMEMO_ERANDOM   == -9

Slot == 1..NumPreKeys

NoKey == [seq |-> 0, boot |-> 0]
NoPreKey == [id |-> 0, kp |-> NoKey]

(* memset(store, 0, sizeof).  "made" is history: how many prekeys this     *)
(* store has generated, that is pkcounter had it never wrapped.            *)
ZeroStore ==
  [init |-> FALSE, identity |-> NoKey,
   cursignedprekey |-> NoPreKey, prevsignedprekey |-> NoPreKey,
   prekeys |-> [i \in Slot |-> NoPreKey], pkcounter |-> 0, made |-> 0]

----------------------------------------------------------------------------
(* Numbering.                                                              *)

IncrementWrapSkipZero(n) == IF n = IdMax THEN 1 ELSE n + 1

Faulty_IncrementBy(n, k) == n + k

(* IncrementWrapSkipZero applied k times, 0 <= k <= IdMax.                 *)
IncrementBy(n, k) == IF n + k > IdMax THEN n + k - IdMax ELSE n + k

(* The id that was given out k increments before the counter reached n.    *)
IdBefore(n, k) == IF n > k THEN n - k ELSE n + IdMax - k

----------------------------------------------------------------------------
(* Generation.  "rnd" is how many calls of omemoRandom still succeed       *)
(* before the source of randomness fails.                                  *)

Faulty_EmptySlots(prekeys) == Slot

EmptySlots(prekeys) == {i \in Slot : prekeys[i].id = 0}

Faulty_Rank(empty, i) == 1

(* The position of slot i among the empty slots, in the order of the loop. *)
Rank(empty, i) == Cardinality({j \in empty : j <= i})

(* Fills the empty slots in order and stops at the first failure: the      *)
(* slots filled before it stay filled.                                     *)
omemoRefillPreKeys(st, boot, rnd) ==
  LET empty == EmptySlots(st.prekeys)
      filled == {i \in empty : Rank(empty, i) <= rnd}
      n == Cardinality(filled)
      New(i) == [id |-> IncrementBy(st.pkcounter, Rank(empty, i)),
                 kp |-> [seq |-> st.made + Rank(empty, i), boot |-> boot]]
  IN [ret |-> IF filled = empty THEN 0 ELSE OMEMO_ERANDOM,
      store |-> [st EXCEPT
        !.prekeys = [i \in Slot |-> IF i \in filled THEN New(i) ELSE st.prekeys[i]],
        !.pkcounter = IncrementBy(@, n),
        !.made = @ + n]]

(* A key pair and a signature: two draws of randomness.                    *)
GenerateSignedPreKey(id, seq, boot, rnd) ==
  [ret |-> IF rnd >= 2 THEN 0 ELSE OMEMO_ERANDOM,
   spk |-> [id |-> id, kp |-> [seq |-> seq, boot |-> boot]]]

omemoSetupStoreImpl(boot, rnd) ==
  LET spk == GenerateSignedPreKey(1, 1, boot, rnd - 1)
      st == [ZeroStore EXCEPT !.identity = [seq |-> 1, boot |-> boot],
                              !.cursignedprekey = spk.spk]
      refill == omemoRefillPreKeys(st, boot, rnd - 3)
  IN IF rnd < 1 THEN [ret |-> OMEMO_ERANDOM, store |-> ZeroStore]
     ELSE IF spk.ret # 0 THEN [ret |-> spk.ret, store |-> st]
     ELSE IF refill.ret # 0 THEN refill
     ELSE [ret |-> 0, store |-> [refill.store EXCEPT !.init = TRUE]]

Faulty_omemoSetupStore(boot, rnd) == omemoSetupStoreImpl(boot, rnd)

omemoSetupStore(boot, rnd) ==
  LET setup == omemoSetupStoreImpl(boot, rnd)
  IN IF setup.ret = 0 THEN setup ELSE [ret |-> setup.ret, store |-> ZeroStore]

Faulty_Rotated(st, new) == [st EXCEPT !.cursignedprekey = new]

(* What is current becomes the previous one.                               *)
Rotated(st, new) ==
  [st EXCEPT !.prevsignedprekey = st.cursignedprekey, !.cursignedprekey = new]

omemoRotateSignedPreKey(st, boot, rnd) ==
  LET new == GenerateSignedPreKey(IncrementWrapSkipZero(st.cursignedprekey.id),
                                  st.cursignedprekey.kp.seq + 1, boot, rnd)
  IN IF new.ret # 0 THEN [ret |-> new.ret, store |-> st]
     ELSE [ret |-> 0, store |-> Rotated(st, new.spk)]

----------------------------------------------------------------------------
(* Look-up.                                                                *)

Null == [id |-> -1, kp |-> NoKey]

Faulty_FindPreKey(st, pk_id) == st.prekeys[((pk_id - 1) % NumPreKeys) + 1]

(* The first slot with that id; an id of 0 finds an emptied slot.          *)
FindPreKey(st, pk_id) ==
  LET found == {i \in Slot : st.prekeys[i].id = pk_id}
  IN IF found = {} THEN Null
     ELSE st.prekeys[CHOOSE i \in found : \A j \in found : i <= j]

Faulty_FindSignedPreKey(st, spk_id) ==
  IF st.cursignedprekey.id = spk_id THEN st.cursignedprekey ELSE Null

FindSignedPreKey(st, spk_id) ==
  IF spk_id = 0 THEN Null
  ELSE IF st.cursignedprekey.id = spk_id THEN st.cursignedprekey
  ELSE IF st.prevsignedprekey.id = spk_id THEN st.prevsignedprekey
  ELSE Null

----------------------------------------------------------------------------
(* Serialization.  Every field is written as it is, so the bytes are the   *)
(* store itself; what can differ between two prekey entries is their       *)
(* length, by the length of the id's varint.                               *)

GetVarIntSize(v) == IF v > OneByteMax THEN 2 ELSE 1

PreKeyEntrySize(pk) == 1 + GetVarIntSize(pk.id) + 2 * 34

(* ParseProtobuf first walks the whole buffer with one descriptor for all  *)
(* the prekey entries, and a length already recorded there is enforced on  *)
(* the entries that follow.                                                *)
omemoDeserializeStore(bytes) ==
  LET sizes == {PreKeyEntrySize(bytes.prekeys[i]) : i \in Slot}
  IN IF Cardinality(sizes) > 1 THEN [ret |-> OMEMO_EPROTOBUF, store |-> ZeroStore]
     ELSE [ret |-> 0, store |-> bytes]

----------------------------------------------------------------------------
(* The shape of a store, and the numbering of its prekeys.                  *)

Key == [seq : Nat, boot : Nat]
PreKey == [id : 0..IdMax, kp : Key]
Store == [init : BOOLEAN, identity : Key,
          cursignedprekey : PreKey, prevsignedprekey : PreKey,
          prekeys : [Slot -> PreKey], pkcounter : 0..IdMax, made : Nat]

(* How many prekeys were generated after the one in slot i.                *)
Age(st, i) == st.made - st.prekeys[i].kp.seq

(* No two live prekeys answer to the same id, as long as neither survived  *)
(* a whole turn of the counter: refilling reuses numbers of removed        *)
(* prekeys only.                                                           *)
DistinctIds(st) ==
  \A i, j \in Slot :
    /\ i # j
    /\ st.prekeys[i].id # 0 /\ st.prekeys[j].id # 0
    /\ Age(st, i) < IdMax /\ Age(st, j) < IdMax
    => st.prekeys[i].id # st.prekeys[j].id

(* The id of a live prekey tells how many were generated after it: it is   *)
(* the value the counter had that many steps ago.  No two live prekeys     *)
(* were generated as the same one.                                         *)
NumberedByAge(st) ==
  /\ st.pkcounter = 0 => st.made = 0
  /\ \A i \in Slot : st.prekeys[i].id # 0 =>
       /\ st.prekeys[i].kp.seq \in 1..st.made
       /\ Age(st, i) < IdMax => st.prekeys[i].id = IdBefore(st.pkcounter, Age(st, i))
  /\ \A i, j \in Slot :
       i # j /\ st.prekeys[i].id # 0 /\ st.prekeys[j].id # 0 =>
         st.prekeys[i].kp.seq # st.prekeys[j].kp.seq
=============================================================================
