-------------------------- MODULE OmemoStore_proofs -------------------------
(***************************************************************************)
(* What the functions of the device store make of a store, for every       *)
(* number of slots, every width of an id and any point where the source of *)
(* randomness fails.                                                       *)
(***************************************************************************)
EXTENDS OmemoStore, FiniteSetTheorems, WellFoundedInduction, TLAPS

(* A set of numbers that is not empty has a least one.                     *)
LEMMA LeastExists ==
  ASSUME NEW S \in SUBSET Nat, S # {}
  PROVE  \E m \in S : \A j \in S : m <= j
<1> DEFINE R == {ss \in Nat \X Nat : ss[1] < ss[2]}
<1>1. IsWellFoundedOn(R, Nat)
  BY NatLessThanWellFounded DEF OpToRel
<1>2. PICK m \in S : \A j \in S : ~ (<<j, m>> \in R)
  <2> HIDE DEF R
  <2> QED BY <1>1, WFMin
<1>3. ASSUME NEW j \in S PROVE m <= j
  <2>1. j \in Nat /\ m \in Nat /\ ~ (j < m)
    BY <1>2
  <2> QED BY <2>1
<1> QED BY <1>3

(* The slots are finitely many.                                            *)
LEMMA SlotsFinite == IsFiniteSet(Slot) /\ Cardinality(Slot) = NumPreKeys
  BY FS_Interval, StoreAssumption DEF Slot

(* The empty slots up to slot i number at least one if i is empty, and at  *)
(* most all of them.                                                       *)
LEMMA RankBounds ==
  ASSUME NEW empty \in SUBSET Slot, NEW i \in Slot
  PROVE  /\ IsFiniteSet({j \in empty : j <= i})
         /\ Rank(empty, i) \in 0..NumPreKeys
         /\ i \in empty => Rank(empty, i) >= 1
<1> DEFINE S == {j \in empty : j <= i}
<1>1. IsFiniteSet(S) /\ Cardinality(S) <= NumPreKeys /\ Cardinality(S) \in Nat
  <2>1. S \subseteq Slot
    OBVIOUS
  <2> QED BY <2>1, SlotsFinite, FS_Subset, FS_CardinalityType
<1>2. ASSUME i \in empty PROVE Cardinality(S) >= 1
  <2>1. i \in S
    BY <1>2, StoreAssumption DEF Slot
  <2>2. Cardinality(S) # 0
    BY <2>1, <1>1, FS_EmptySet
  <2> QED BY <2>2, <1>1
<1> QED BY <1>1, <1>2, StoreAssumption DEF Rank

(* The loop over the slots numbers the empty ones in order.                *)
LEMMA RankIncreases ==
  ASSUME NEW empty \in SUBSET Slot, NEW i \in empty, NEW j \in empty, i < j
  PROVE  Rank(empty, i) < Rank(empty, j)
<1> DEFINE S == {k \in empty : k <= i}
           T == {k \in empty : k <= j}
<1>a. \A k \in empty : k \in Int
  BY StoreAssumption DEF Slot
<1>1. S \subseteq T /\ j \in T /\ j \notin S
  BY <1>a
<1>2. IsFiniteSet(T) /\ IsFiniteSet(S)
  BY RankBounds
<1>3. Cardinality(S) <= Cardinality(T) /\ Cardinality(S) # Cardinality(T)
  BY <1>1, <1>2, FS_Subset
<1>4. Cardinality(S) \in Nat /\ Cardinality(T) \in Nat
  BY <1>2, FS_CardinalityType
<1> QED BY <1>3, <1>4 DEF Rank

----------------------------------------------------------------------------
(* Arithmetic of the wrapping counter.                                     *)

(* The counter stays within its width.                                     *)
LEMMA IncrementByType ==
  ASSUME NEW n \in 0..IdMax, NEW k \in 0..IdMax
  PROVE  /\ IncrementBy(n, k) \in 0..IdMax
         /\ k >= 1 => IncrementBy(n, k) >= 1
         /\ n >= 1 => IncrementBy(n, k) >= 1
  BY StoreAssumption DEF IncrementBy

(* k increments by one are one increment by k.                             *)
LEMMA IncrementByIsIteration ==
  ASSUME NEW n \in 0..IdMax, NEW k \in 0..IdMax - 1
  PROVE  /\ IncrementBy(n, 0) = n
         /\ IncrementBy(n, k + 1) = IncrementWrapSkipZero(IncrementBy(n, k))
  BY StoreAssumption DEF IncrementBy, IncrementWrapSkipZero

(* Numbers given out before stay as old as they were plus k.               *)
LEMMA OldIdAges ==
  ASSUME NEW n \in 1..IdMax, NEW k \in 0..IdMax, NEW age \in Nat, age + k < IdMax
  PROVE  IdBefore(IncrementBy(n, k), age + k) = IdBefore(n, age)
  BY StoreAssumption DEF IncrementBy, IdBefore

(* The r-th of k new numbers is k - r old when the counter has moved on.   *)
LEMMA NewIdAges ==
  ASSUME NEW n \in 0..IdMax, NEW k \in 1..IdMax, NEW r \in 1..k
  PROVE  IncrementBy(n, r) = IdBefore(IncrementBy(n, k), k - r)
  BY StoreAssumption DEF IncrementBy, IdBefore

(* Ids of different age differ, within one turn of the counter.            *)
LEMMA AgesTellIds ==
  ASSUME NEW n \in 1..IdMax, NEW a \in 0..IdMax - 1, NEW b \in 0..IdMax - 1, a # b
  PROVE  IdBefore(n, a) # IdBefore(n, b)
  BY StoreAssumption DEF IdBefore

----------------------------------------------------------------------------
(* omemoRefillPreKeys.                                                     *)

Filled(st, rnd) == {i \in EmptySlots(st.prekeys) : Rank(EmptySlots(st.prekeys), i) <= rnd}
Place(st, i) == Rank(EmptySlots(st.prekeys), i)
Count(st, rnd) == Cardinality(Filled(st, rnd))

(* The slots filled before randomness runs out are numbered 1..Count, each *)
(* by another number.                                                      *)
LEMMA FilledPlaces ==
  ASSUME NEW st \in Store, NEW rnd \in Int
  PROVE  /\ Filled(st, rnd) \subseteq Slot
         /\ Count(st, rnd) \in 0..NumPreKeys
         /\ Filled(st, rnd) # {} => Count(st, rnd) >= 1
         /\ \A i \in Filled(st, rnd) : Place(st, i) \in 1..Count(st, rnd)
         /\ \A i, j \in Filled(st, rnd) : i # j => Place(st, i) # Place(st, j)
<1> DEFINE E == EmptySlots(st.prekeys)
           F == Filled(st, rnd)
<1>1. E \in SUBSET Slot /\ F \subseteq E
  BY DEF EmptySlots, Filled
<1>a. \A k \in E : k \in Int
  BY <1>1, StoreAssumption DEF Slot
<1> HIDE DEF E
<1>2. IsFiniteSet(F) /\ Cardinality(F) \in Nat /\ Cardinality(F) <= NumPreKeys
  BY <1>1, SlotsFinite, FS_Subset, FS_CardinalityType
<1>3. F # {} => Cardinality(F) >= 1
  BY <1>2, FS_EmptySet
<1>4. ASSUME NEW i \in F PROVE Rank(E, i) \in 1..Cardinality(F)
  <2> DEFINE B == {j \in E : j <= i}
  <2>1. Rank(E, i) \in 0..NumPreKeys /\ Rank(E, i) >= 1 /\ Rank(E, i) <= rnd
    BY <1>1, RankBounds DEF Filled, E
  <2>2. ASSUME NEW j \in B PROVE j \in F
    <3>1. j = i \/ j < i
      BY <1>a, <1>1
    <3>2. CASE j = i
      BY <3>2
    <3>3. CASE j < i
      <4>1. Rank(E, j) < Rank(E, i)
        BY <1>1, <3>3, RankIncreases
      <4>2. Rank(E, j) \in 0..NumPreKeys
        BY <1>1, RankBounds
      <4>3. Rank(E, j) <= rnd
        BY <4>1, <4>2, <2>1, StoreAssumption
      <4> QED BY <4>3 DEF Filled, E
    <3> QED BY <3>1, <3>2, <3>3
  <2>3. Cardinality(B) <= Cardinality(F)
    BY <2>2, <1>2, FS_Subset
  <2> QED BY <2>1, <2>3, <1>2, StoreAssumption DEF Rank
<1>5. ASSUME NEW i \in F, NEW j \in F, i # j PROVE Rank(E, i) # Rank(E, j)
  <2>1. i < j \/ j < i
    BY <1>a, <1>1, <1>5
  <2>2. Rank(E, i) \in 0..NumPreKeys /\ Rank(E, j) \in 0..NumPreKeys
    BY <1>1, RankBounds
  <2> QED BY <1>1, <2>1, <2>2, RankIncreases, StoreAssumption
<1> QED BY <1>1, <1>2, <1>3, <1>4, <1>5, StoreAssumption DEF Place, Count, E

(* What a refill makes of the store.                                       *)
LEMMA RefillShape ==
  ASSUME NEW st \in Store, NEW b \in Nat, NEW rnd \in Int
  PROVE  LET new == omemoRefillPreKeys(st, b, rnd).store
             New(i) == [id |-> IncrementBy(st.pkcounter, Place(st, i)),
                        kp |-> [seq |-> st.made + Place(st, i), boot |-> b]]
         IN new = [init |-> st.init, identity |-> st.identity,
                   cursignedprekey |-> st.cursignedprekey,
                   prevsignedprekey |-> st.prevsignedprekey,
                   prekeys |-> [i \in Slot |-> IF i \in Filled(st, rnd) THEN New(i)
                                               ELSE st.prekeys[i]],
                   pkcounter |-> IncrementBy(st.pkcounter, Count(st, rnd)),
                   made |-> st.made + Count(st, rnd)]
  BY DEF omemoRefillPreKeys, Store, Filled, Place, Count

(* A refill keeps a store a store.                                         *)
LEMMA RefillType ==
  ASSUME NEW st \in Store, NEW b \in Nat, NEW rnd \in Int
  PROVE  omemoRefillPreKeys(st, b, rnd).store \in Store
<1>1. Count(st, rnd) \in 0..IdMax /\ st.pkcounter \in 0..IdMax /\ st.made \in Nat
  BY FilledPlaces, StoreAssumption DEF Store
<1>2. IncrementBy(st.pkcounter, Count(st, rnd)) \in 0..IdMax /\ st.made + Count(st, rnd) \in Nat
  <2>1. IncrementBy(st.pkcounter, Count(st, rnd)) \in 0..IdMax
    BY <1>1, IncrementByType
  <2>2. st.made + Count(st, rnd) \in Nat
    BY <1>1, StoreAssumption
  <2> QED BY <2>1, <2>2
<1>3. ASSUME NEW i \in Filled(st, rnd)
      PROVE  [id |-> IncrementBy(st.pkcounter, Place(st, i)),
              kp |-> [seq |-> st.made + Place(st, i), boot |-> b]] \in PreKey
  <2>1. Place(st, i) \in 0..IdMax
    BY <1>1, FilledPlaces, StoreAssumption
  <2>2. IncrementBy(st.pkcounter, Place(st, i)) \in 0..IdMax
    BY <1>1, <2>1, IncrementByType
  <2>3. st.made + Place(st, i) \in Nat
    BY <1>1, <2>1, StoreAssumption
  <2> QED BY <2>2, <2>3 DEF PreKey, Key
<1>4. st.prekeys \in [Slot -> PreKey]
  BY DEF Store
<1>5. [i \in Slot |-> IF i \in Filled(st, rnd)
                       THEN [id |-> IncrementBy(st.pkcounter, Place(st, i)),
                             kp |-> [seq |-> st.made + Place(st, i), boot |-> b]]
                       ELSE st.prekeys[i]] \in [Slot -> PreKey]
  BY <1>3, <1>4
<1>6. /\ st.init \in BOOLEAN /\ st.identity \in Key
      /\ st.cursignedprekey \in PreKey /\ st.prevsignedprekey \in PreKey
  BY DEF Store
<1>7. omemoRefillPreKeys(st, b, rnd).store =
        [init |-> st.init, identity |-> st.identity,
         cursignedprekey |-> st.cursignedprekey,
         prevsignedprekey |-> st.prevsignedprekey,
         prekeys |-> [i \in Slot |-> IF i \in Filled(st, rnd)
                       THEN [id |-> IncrementBy(st.pkcounter, Place(st, i)),
                             kp |-> [seq |-> st.made + Place(st, i), boot |-> b]]
                       ELSE st.prekeys[i]],
         pkcounter |-> IncrementBy(st.pkcounter, Count(st, rnd)),
         made |-> st.made + Count(st, rnd)]
  BY RefillShape
<1> QED BY <1>2, <1>5, <1>6, <1>7 DEF Store

(* A refill numbers the new prekeys after the old ones.                    *)
LEMMA RefillNumbered ==
  ASSUME NEW st \in Store, NEW b \in Nat, NEW rnd \in Int, NumberedByAge(st)
  PROVE  NumberedByAge(omemoRefillPreKeys(st, b, rnd).store)
<1> DEFINE new == omemoRefillPreKeys(st, b, rnd).store
           F == Filled(st, rnd)
           n == Count(st, rnd)
<1>1. /\ new.pkcounter = IncrementBy(st.pkcounter, n)
      /\ new.made = st.made + n
      /\ \A i \in F : /\ new.prekeys[i].id = IncrementBy(st.pkcounter, Place(st, i))
                      /\ new.prekeys[i].kp.seq = st.made + Place(st, i)
      /\ \A i \in Slot \ F : new.prekeys[i] = st.prekeys[i]
  <2>1. F \subseteq Slot
    BY FilledPlaces
  <2>2. new = [init |-> st.init, identity |-> st.identity,
               cursignedprekey |-> st.cursignedprekey,
               prevsignedprekey |-> st.prevsignedprekey,
               prekeys |-> [i \in Slot |-> IF i \in F
                              THEN [id |-> IncrementBy(st.pkcounter, Place(st, i)),
                                    kp |-> [seq |-> st.made + Place(st, i), boot |-> b]]
                              ELSE st.prekeys[i]],
               pkcounter |-> IncrementBy(st.pkcounter, n),
               made |-> st.made + n]
    BY RefillShape
  <2> HIDE DEF new, F, n
  <2> QED BY <2>1, <2>2
<1>2. /\ n \in 0..IdMax
      /\ \A i \in F : Place(st, i) \in 1..n
      /\ \A i, j \in F : i # j => Place(st, i) # Place(st, j)
  BY FilledPlaces, StoreAssumption
<1>3. st.pkcounter \in 0..IdMax /\ st.made \in Nat /\ new.made \in Nat
  BY <1>1, <1>2 DEF Store
<1> HIDE DEF new, F, n
<1>4. new.pkcounter = 0 => new.made = 0
  <2>1. /\ n >= 1 => IncrementBy(st.pkcounter, n) >= 1
        /\ st.pkcounter >= 1 => IncrementBy(st.pkcounter, n) >= 1
    BY <1>2, <1>3, IncrementByType
  <2>2. new.pkcounter = 0 => n = 0 /\ st.pkcounter = 0
    BY <2>1, <1>1, <1>2, <1>3, StoreAssumption
  <2> QED BY <2>2, <1>1, <1>3 DEF NumberedByAge
<1>5. ASSUME NEW i \in Slot, new.prekeys[i].id # 0
      PROVE  /\ new.prekeys[i].kp.seq \in 1..new.made
             /\ i \in F => new.prekeys[i].kp.seq > st.made
             /\ i \notin F => new.prekeys[i].kp.seq <= st.made
             /\ Age(new, i) < IdMax =>
                  new.prekeys[i].id = IdBefore(new.pkcounter, Age(new, i))
  <2>1. CASE i \in F
    <3>1. Place(st, i) \in 1..n /\ n \in 1..IdMax
      BY <2>1, <1>2
    <3>2. new.prekeys[i].kp.seq = st.made + Place(st, i)
      BY <2>1, <1>1
    <3>3. Age(new, i) = n - Place(st, i)
      BY <3>1, <3>2, <1>1, <1>3 DEF Age
    <3>4. new.prekeys[i].id = IdBefore(new.pkcounter, Age(new, i))
      BY <3>1, <3>3, <1>1, <1>3, <2>1, NewIdAges
    <3> QED BY <2>1, <3>1, <3>2, <3>4, <1>1, <1>3
  <2>2. CASE i \notin F
    <3>1. new.prekeys[i] = st.prekeys[i] /\ st.prekeys[i].id # 0
      BY <2>2, <1>1, <1>5
    <3>2. st.prekeys[i].kp.seq \in 1..st.made
      BY <3>1 DEF NumberedByAge
    <3>3. st.pkcounter \in 1..IdMax
      BY <3>2, <1>3 DEF NumberedByAge
    <3>4. Age(new, i) = Age(st, i) + n /\ Age(st, i) \in Nat
      BY <3>1, <3>2, <1>1, <1>2, <1>3 DEF Age
    <3>5. ASSUME Age(new, i) < IdMax
          PROVE  new.prekeys[i].id = IdBefore(new.pkcounter, Age(new, i))
      <4>1. Age(st, i) < IdMax
        BY <3>4, <3>5, <1>2, StoreAssumption
      <4>2. st.prekeys[i].id = IdBefore(st.pkcounter, Age(st, i))
        BY <3>1, <4>1 DEF NumberedByAge
      <4> QED BY <3>1, <3>3, <3>4, <3>5, <4>2, <1>1, <1>2, OldIdAges
    <3> QED BY <2>2, <3>1, <3>2, <3>5, <1>1, <1>2, <1>3
  <2> QED BY <2>1, <2>2
<1>6. ASSUME NEW i \in Slot, NEW j \in Slot, i # j,
             new.prekeys[i].id # 0, new.prekeys[j].id # 0
      PROVE  new.prekeys[i].kp.seq # new.prekeys[j].kp.seq
  <2>1. CASE i \in F /\ j \in F
    BY <2>1, <1>1, <1>2, <1>3, <1>6
  <2>2. CASE i \in F /\ j \notin F
    BY <2>2, <1>5, <1>6, <1>3
  <2>3. CASE i \notin F /\ j \in F
    BY <2>3, <1>5, <1>6, <1>3
  <2>4. CASE i \notin F /\ j \notin F
    BY <2>4, <1>1, <1>6 DEF NumberedByAge
  <2> QED BY <2>1, <2>2, <2>3, <2>4
<1> QED BY <1>4, <1>5, <1>6 DEF NumberedByAge, new

(* A refill leaves the rest of the store, keeps every live prekey and does *)
(* not set a counter that was set back to 0.                               *)
LEMMA RefillKeeps ==
  ASSUME NEW st \in Store, NEW b \in Nat, NEW rnd \in Int
  PROVE  LET new == omemoRefillPreKeys(st, b, rnd).store
         IN /\ new.init = st.init /\ new.identity = st.identity
            /\ new.cursignedprekey = st.cursignedprekey
            /\ \A i \in Slot : st.prekeys[i].id # 0 => new.prekeys[i] = st.prekeys[i]
            /\ st.pkcounter # 0 => new.pkcounter # 0
            /\ Count(st, rnd) >= 1 => new.pkcounter # 0
<1> DEFINE new == omemoRefillPreKeys(st, b, rnd).store
<1>1. /\ new.init = st.init /\ new.identity = st.identity
      /\ new.cursignedprekey = st.cursignedprekey
      /\ new.pkcounter = IncrementBy(st.pkcounter, Count(st, rnd))
      /\ \A i \in Slot \ Filled(st, rnd) : new.prekeys[i] = st.prekeys[i]
  <2>1. new = [init |-> st.init, identity |-> st.identity,
               cursignedprekey |-> st.cursignedprekey,
               prevsignedprekey |-> st.prevsignedprekey,
               prekeys |-> [i \in Slot |-> IF i \in Filled(st, rnd)
                              THEN [id |-> IncrementBy(st.pkcounter, Place(st, i)),
                                    kp |-> [seq |-> st.made + Place(st, i), boot |-> b]]
                              ELSE st.prekeys[i]],
               pkcounter |-> IncrementBy(st.pkcounter, Count(st, rnd)),
               made |-> st.made + Count(st, rnd)]
    BY RefillShape
  <2> HIDE DEF new
  <2> QED BY <2>1
<1>2. Count(st, rnd) \in 0..IdMax /\ st.pkcounter \in 0..IdMax
  BY FilledPlaces, StoreAssumption DEF Store
<1>3. /\ Count(st, rnd) >= 1 => IncrementBy(st.pkcounter, Count(st, rnd)) >= 1
      /\ st.pkcounter >= 1 => IncrementBy(st.pkcounter, Count(st, rnd)) >= 1
      /\ IncrementBy(st.pkcounter, Count(st, rnd)) \in 0..IdMax
  BY <1>2, IncrementByType
<1>4. /\ st.pkcounter # 0 => new.pkcounter # 0
      /\ Count(st, rnd) >= 1 => new.pkcounter # 0
  BY <1>1, <1>2, <1>3, StoreAssumption
<1>5. ASSUME NEW i \in Slot, st.prekeys[i].id # 0 PROVE i \notin Filled(st, rnd)
  BY <1>5 DEF Filled, EmptySlots
<1> QED BY <1>1, <1>4, <1>5

----------------------------------------------------------------------------
(* The other functions of the store.                                       *)

(* The zeroed store is a store.                                            *)
LEMMA ZeroStoreType == ZeroStore \in Store /\ NumberedByAge(ZeroStore)
<1>1. NoKey \in Key /\ NoPreKey \in PreKey
  BY StoreAssumption DEF NoKey, NoPreKey, Key, PreKey
<1>2. [i \in Slot |-> NoPreKey] \in [Slot -> PreKey]
  BY <1>1
<1>3. ZeroStore \in Store
  BY <1>1, <1>2, StoreAssumption DEF ZeroStore, Store
<1>4. \A i \in Slot : ZeroStore.prekeys[i].id = 0
  BY DEF ZeroStore, NoPreKey
<1>5. ZeroStore.made = 0
  BY DEF ZeroStore
<1> QED BY <1>3, <1>4, <1>5 DEF NumberedByAge

(* Numbering depends on the prekeys and the counter only.                  *)
LEMMA NumberingFields ==
  ASSUME NEW st, NEW new, NumberedByAge(st), new.prekeys = st.prekeys,
         new.pkcounter = st.pkcounter, new.made = st.made
  PROVE  NumberedByAge(new)
  BY DEF NumberedByAge, Age

(* The next id is never 0.                                                 *)
LEMMA IncrementType ==
  ASSUME NEW n \in 0..IdMax
  PROVE  IncrementWrapSkipZero(n) \in 1..IdMax
  BY StoreAssumption DEF IncrementWrapSkipZero

(* Setting up ends with a whole store or with a zeroed one.                *)
LEMMA SetupOutcome ==
  ASSUME NEW b \in Nat, NEW rnd \in Nat
  PROVE  LET new == omemoSetupStore(b, rnd).store
         IN /\ new \in Store
            /\ NumberedByAge(new)
            /\ \/ new = ZeroStore
               \/ /\ new.init
                  /\ new.identity # NoKey
                  /\ new.cursignedprekey.id # 0
                  /\ new.pkcounter # 0
<1> DEFINE new == omemoSetupStore(b, rnd).store
           spk == [id |-> 1, kp |-> [seq |-> 1, boot |-> b]]
           st == [ZeroStore EXCEPT !.identity = [seq |-> 1, boot |-> b],
                                   !.cursignedprekey = spk]
           refill == omemoRefillPreKeys(st, b, rnd - 3)
<1>1. CASE new = ZeroStore
  BY <1>1, ZeroStoreType
<1>2. CASE new # ZeroStore
  <2>1. refill.ret = 0 /\ new = [refill.store EXCEPT !.init = TRUE]
    BY <1>2 DEF omemoSetupStore, omemoSetupStoreImpl, GenerateSignedPreKey
  <2>2. st \in Store /\ st.prekeys = ZeroStore.prekeys /\ st.pkcounter = 0 /\ st.made = 0
    <3>1. [seq |-> 1, boot |-> b] \in Key /\ spk \in PreKey
      BY StoreAssumption DEF Key, PreKey
    <3>2. st.prekeys = ZeroStore.prekeys /\ st.pkcounter = 0 /\ st.made = 0
      BY DEF ZeroStore
    <3> QED BY <3>1, <3>2, ZeroStoreType DEF Store
  <2>3. st.identity # NoKey /\ st.cursignedprekey.id # 0
    BY DEF ZeroStore, NoKey
  <2>4. NumberedByAge(st)
    BY <2>2, ZeroStoreType, NumberingFields DEF ZeroStore
  <2>5. Count(st, rnd - 3) >= 1
    <3>1. Filled(st, rnd - 3) = EmptySlots(st.prekeys)
      BY <2>1 DEF omemoRefillPreKeys, Filled, OMEMO_ERANDOM
    <3>2. EmptySlots(st.prekeys) = Slot
      BY <2>2 DEF EmptySlots, ZeroStore, NoPreKey
    <3> QED BY <3>1, <3>2, SlotsFinite, StoreAssumption DEF Count
  <2> HIDE DEF st, spk
  <2>6. refill.store \in Store /\ NumberedByAge(refill.store)
    BY <2>2, <2>4, RefillType, RefillNumbered
  <2>7. /\ refill.store.identity = st.identity
        /\ refill.store.cursignedprekey = st.cursignedprekey
        /\ refill.store.pkcounter # 0
    BY <2>2, <2>5, RefillKeeps
  <2> HIDE DEF refill, new
  <2>8. /\ new \in Store /\ new.init
        /\ new.identity = refill.store.identity
        /\ new.cursignedprekey = refill.store.cursignedprekey
        /\ new.prekeys = refill.store.prekeys
        /\ new.pkcounter = refill.store.pkcounter
        /\ new.made = refill.store.made
    BY <2>1, <2>6 DEF Store
  <2>9. NumberedByAge(new)
    BY <2>6, <2>8, NumberingFields
  <2>10. /\ new \in Store /\ NumberedByAge(new) /\ new.init
         /\ new.identity # NoKey /\ new.cursignedprekey.id # 0 /\ new.pkcounter # 0
    BY <2>3, <2>7, <2>8, <2>9
  <2> QED BY <2>10 DEF new
<1> QED BY <1>1, <1>2

(* A rotation touches the signed prekeys only and never gives out id 0.    *)
LEMMA RotateOutcome ==
  ASSUME NEW st \in Store, NEW b \in Nat, NEW rnd \in Nat
  PROVE  LET new == omemoRotateSignedPreKey(st, b, rnd).store
         IN /\ new \in Store
            /\ new.init = st.init /\ new.identity = st.identity
            /\ new.prekeys = st.prekeys /\ new.pkcounter = st.pkcounter
            /\ new.made = st.made
            /\ new = st \/ new.cursignedprekey.id # 0
<1> DEFINE id == IncrementWrapSkipZero(st.cursignedprekey.id)
           seq == st.cursignedprekey.kp.seq + 1
           spk == [id |-> id, kp |-> [seq |-> seq, boot |-> b]]
           new == omemoRotateSignedPreKey(st, b, rnd).store
<1>1. id \in 1..IdMax /\ seq \in Nat
  BY IncrementType DEF Store, PreKey, Key
<1>2. spk \in PreKey /\ spk.id # 0
  BY <1>1, StoreAssumption DEF PreKey, Key
<1>3. new = st \/ new = [st EXCEPT !.prevsignedprekey = st.cursignedprekey,
                                   !.cursignedprekey = spk]
  BY DEF omemoRotateSignedPreKey, GenerateSignedPreKey, Rotated
<1> HIDE DEF spk, new
<1>4. /\ new \in Store
      /\ new.init = st.init /\ new.identity = st.identity
      /\ new.prekeys = st.prekeys /\ new.pkcounter = st.pkcounter
      /\ new.made = st.made
      /\ new = st \/ new.cursignedprekey.id # 0
  BY <1>2, <1>3 DEF Store
<1> QED BY <1>4 DEF new

(* Removing a prekey keeps the others as they were.                        *)
LEMMA RemoveOutcome ==
  ASSUME NEW st \in Store, NEW k \in Slot, NumberedByAge(st)
  PROVE  LET new == [st EXCEPT !.prekeys[k] = NoPreKey]
         IN new \in Store /\ NumberedByAge(new)
<1> DEFINE new == [st EXCEPT !.prekeys[k] = NoPreKey]
<1>1. NoPreKey \in PreKey /\ NoPreKey.id = 0
  BY StoreAssumption DEF NoPreKey, NoKey, PreKey, Key
<1>2. new \in Store
  BY <1>1 DEF Store
<1>3. new.pkcounter = st.pkcounter /\ new.made = st.made
  BY DEF Store
<1>4. \A i \in Slot : new.prekeys[i].id # 0 => new.prekeys[i] = st.prekeys[i]
  BY <1>1 DEF Store
<1> HIDE DEF new
<1>5. NumberedByAge(new)
  BY <1>3, <1>4 DEF NumberedByAge, Age
<1> QED BY <1>2, <1>5 DEF new

(* What a serialized store loads as.                                       *)
LEMMA LoadOutcome ==
  ASSUME NEW st
  PROVE  omemoDeserializeStore(st).store \in {st, ZeroStore}
  BY DEF omemoDeserializeStore

----------------------------------------------------------------------------
(* Whole-or-nothing of one store.                                          *)
Whole(st) ==
  IF st.init
  THEN st.identity # NoKey /\ st.cursignedprekey.id # 0 /\ st.pkcounter # 0
  ELSE st = ZeroStore

GoodStore(st) == st \in Store /\ NumberedByAge(st) /\ Whole(st)

LEMMA GoodZeroStore == GoodStore(ZeroStore)
<1>1. ZeroStore.init = FALSE
  BY DEF ZeroStore
<1> QED BY <1>1, ZeroStoreType DEF GoodStore, Whole

(* Every call keeps a good store good.                                     *)
LEMMA GoodSetup ==
  ASSUME NEW b \in Nat, NEW rnd \in Nat
  PROVE  GoodStore(omemoSetupStore(b, rnd).store)
<1> DEFINE new == omemoSetupStore(b, rnd).store
<1>1. /\ new \in Store
      /\ NumberedByAge(new)
      /\ \/ new = ZeroStore
         \/ /\ new.init /\ new.identity # NoKey
            /\ new.cursignedprekey.id # 0 /\ new.pkcounter # 0
  BY SetupOutcome
<1> HIDE DEF new
<1>2. GoodStore(new)
  BY <1>1, GoodZeroStore DEF GoodStore, Whole
<1> QED BY <1>2 DEF new

LEMMA GoodRefill ==
  ASSUME NEW st, GoodStore(st), st.init, NEW b \in Nat, NEW rnd \in Nat
  PROVE  GoodStore(omemoRefillPreKeys(st, b, rnd).store)
<1> DEFINE new == omemoRefillPreKeys(st, b, rnd).store
<1>1. st \in Store /\ NumberedByAge(st) /\ st.identity # NoKey
      /\ st.cursignedprekey.id # 0 /\ st.pkcounter # 0
  BY DEF GoodStore, Whole
<1>2. new \in Store
  BY <1>1, RefillType
<1>3. NumberedByAge(new)
  BY <1>1, RefillNumbered
<1>4. /\ new.init = st.init /\ new.identity = st.identity
      /\ new.cursignedprekey = st.cursignedprekey /\ new.pkcounter # 0
  <2>1. /\ new.init = st.init /\ new.identity = st.identity
        /\ new.cursignedprekey = st.cursignedprekey
        /\ st.pkcounter # 0 => new.pkcounter # 0
    <3>1. rnd \in Int
      OBVIOUS
    <3> QED BY <1>1, <3>1, RefillKeeps
  <2> QED BY <1>1, <2>1
<1> HIDE DEF new
<1>5. GoodStore(new)
  BY <1>1, <1>2, <1>3, <1>4 DEF GoodStore, Whole
<1> QED BY <1>5 DEF new

LEMMA GoodRotate ==
  ASSUME NEW st, GoodStore(st), st.init, NEW b \in Nat, NEW rnd \in Nat
  PROVE  GoodStore(omemoRotateSignedPreKey(st, b, rnd).store)
<1> DEFINE new == omemoRotateSignedPreKey(st, b, rnd).store
<1>1. st \in Store /\ NumberedByAge(st) /\ st.identity # NoKey
      /\ st.cursignedprekey.id # 0 /\ st.pkcounter # 0
  BY DEF GoodStore, Whole
<1>2. /\ new \in Store
      /\ new.init = st.init /\ new.identity = st.identity
      /\ new.prekeys = st.prekeys /\ new.pkcounter = st.pkcounter
      /\ new.made = st.made
      /\ new = st \/ new.cursignedprekey.id # 0
  BY <1>1, RotateOutcome
<1> HIDE DEF new
<1>3. NumberedByAge(new)
  BY <1>1, <1>2, NumberingFields
<1>4. GoodStore(new)
  BY <1>1, <1>2, <1>3 DEF GoodStore, Whole
<1> QED BY <1>4 DEF new

LEMMA GoodRemove ==
  ASSUME NEW st, GoodStore(st), st.init, NEW k \in Slot
  PROVE  GoodStore([st EXCEPT !.prekeys[k] = NoPreKey])
<1> DEFINE new == [st EXCEPT !.prekeys[k] = NoPreKey]
<1>1. st \in Store /\ NumberedByAge(st)
  BY DEF GoodStore
<1>2. new \in Store /\ NumberedByAge(new)
  BY <1>1, RemoveOutcome
<1>3. /\ new.init = st.init /\ new.identity = st.identity
      /\ new.cursignedprekey = st.cursignedprekey /\ new.pkcounter = st.pkcounter
  BY <1>1 DEF Store
<1> HIDE DEF new
<1>4. GoodStore(new)
  BY <1>2, <1>3 DEF GoodStore, Whole
<1> QED BY <1>4 DEF new

(* A numbered store has distinct ids: generation numbers differ, so do     *)
(* ages, and within a turn of the counter so do the ids of those ages.     *)
LEMMA NumberedDistinct ==
  ASSUME NEW st, GoodStore(st)
  PROVE  DistinctIds(st)
<1>1. st \in Store /\ NumberedByAge(st)
  BY DEF GoodStore
<1> SUFFICES ASSUME NEW i \in Slot, NEW j \in Slot, i # j,
                    st.prekeys[i].id # 0, st.prekeys[j].id # 0,
                    Age(st, i) < IdMax, Age(st, j) < IdMax
             PROVE  st.prekeys[i].id # st.prekeys[j].id
  BY DEF DistinctIds
<1>2. /\ st.prekeys[i].kp.seq \in 1..st.made /\ st.prekeys[j].kp.seq \in 1..st.made
      /\ st.prekeys[i].kp.seq # st.prekeys[j].kp.seq
      /\ st.prekeys[i].id = IdBefore(st.pkcounter, Age(st, i))
      /\ st.prekeys[j].id = IdBefore(st.pkcounter, Age(st, j))
  BY <1>1 DEF NumberedByAge
<1>3. st.made \in Nat /\ st.pkcounter \in 0..IdMax
  BY <1>1 DEF Store
<1>4. st.pkcounter \in 1..IdMax
  BY <1>1, <1>2, <1>3, StoreAssumption DEF NumberedByAge
<1>5. /\ Age(st, i) \in 0..IdMax - 1 /\ Age(st, j) \in 0..IdMax - 1
      /\ Age(st, i) # Age(st, j)
  BY <1>2, <1>3, StoreAssumption DEF Age
<1> QED BY <1>2, <1>4, <1>5, AgesTellIds

----------------------------------------------------------------------------
(* What a store answers for the bundles that were announced from it.       *)

(* The prekey offers of a store: numbered by their age, and the key of     *)
(* that generation, where the store still has it, is the offered one.      *)
AnswersForPreKeys(st, offers) ==
  \A o \in offers :
    o.ik = st.identity /\ o.pk.id # 0 =>
      /\ o.pk.kp.seq \in 1..st.made
      /\ st.made - o.pk.kp.seq < IdMax =>
           o.pk.id = IdBefore(st.pkcounter, st.made - o.pk.kp.seq)
      /\ \A i \in Slot :
           st.prekeys[i].id # 0 /\ st.prekeys[i].kp.seq = o.pk.kp.seq =>
             st.prekeys[i] = o.pk

(* How many rotations ago a signed prekey was made.                        *)
Rotations(st, spk) == st.cursignedprekey.kp.seq - spk.kp.seq

(* The signed prekey offers of a store.                                    *)
AnswersForSigned(st, offers) ==
  \A o \in offers :
    o.ik = st.identity =>
      /\ o.spk.kp.seq \in 1..st.cursignedprekey.kp.seq
      /\ Rotations(st, o.spk) = 0 => o.spk = st.cursignedprekey
      /\ Rotations(st, o.spk) = 1 => o.spk = st.prevsignedprekey
      /\ Rotations(st, o.spk) < IdMax =>
           o.spk.id = IdBefore(st.cursignedprekey.id, Rotations(st, o.spk))

(* The signed prekeys of a store are numbered like its prekeys.            *)
SignedNumbered(st) ==
  st.init =>
    /\ st.cursignedprekey.id \in 1..IdMax
    /\ st.cursignedprekey.kp.seq \in Nat \ {0}
    /\ \/ st.cursignedprekey.kp.seq = 1 /\ st.prevsignedprekey = NoPreKey
       \/ /\ st.cursignedprekey.kp.seq = st.prevsignedprekey.kp.seq + 1
          /\ st.prevsignedprekey.id = IdBefore(st.cursignedprekey.id, 1)

Answers(st, pks, spks) ==
  AnswersForPreKeys(st, pks) /\ AnswersForSigned(st, spks) /\ SignedNumbered(st)

(* What the calls do to the fields the offers depend on.                   *)

(* Each prekey of a refilled store is one of the old store or a new one.   *)
LEMMA RefillFresh ==
  ASSUME NEW st \in Store, NEW b \in Nat, NEW rnd \in Int
  PROVE  LET new == omemoRefillPreKeys(st, b, rnd).store
         IN /\ new.made = st.made + Count(st, rnd)
            /\ new.pkcounter = IncrementBy(st.pkcounter, Count(st, rnd))
            /\ new.prevsignedprekey = st.prevsignedprekey
            /\ \A i \in Slot : \/ new.prekeys[i] = st.prekeys[i]
                              \/ new.prekeys[i].kp.seq > st.made
<1> DEFINE new == omemoRefillPreKeys(st, b, rnd).store
           F == Filled(st, rnd)
           n == Count(st, rnd)
<1>1. new = [init |-> st.init, identity |-> st.identity,
             cursignedprekey |-> st.cursignedprekey,
             prevsignedprekey |-> st.prevsignedprekey,
             prekeys |-> [i \in Slot |-> IF i \in F
                            THEN [id |-> IncrementBy(st.pkcounter, Place(st, i)),
                                  kp |-> [seq |-> st.made + Place(st, i), boot |-> b]]
                            ELSE st.prekeys[i]],
             pkcounter |-> IncrementBy(st.pkcounter, n),
             made |-> st.made + n]
  BY RefillShape
<1>2. n \in Nat /\ (\A i \in F : Place(st, i) \in 1..n) /\ st.made \in Nat
  BY FilledPlaces DEF Store
<1> HIDE DEF new, F, n
<1>3. \A i \in Slot : \/ new.prekeys[i] = st.prekeys[i]
                      \/ new.prekeys[i].kp.seq > st.made
  BY <1>1, <1>2
<1>4. /\ new.made = st.made + n
      /\ new.pkcounter = IncrementBy(st.pkcounter, n)
      /\ new.prevsignedprekey = st.prevsignedprekey
  BY <1>1
<1> QED BY <1>3, <1>4 DEF new, n

(* A store that was set up has the identity of this run and its first      *)
(* signed prekey.                                                          *)
LEMMA SetupSigned ==
  ASSUME NEW b \in Nat, NEW rnd \in Nat
  PROVE  LET new == omemoSetupStore(b, rnd).store
         IN \/ new = ZeroStore
            \/ /\ new.identity = [seq |-> 1, boot |-> b]
               /\ new.cursignedprekey = [id |-> 1, kp |-> [seq |-> 1, boot |-> b]]
               /\ new.prevsignedprekey = NoPreKey
<1> DEFINE new == omemoSetupStore(b, rnd).store
           spk == [id |-> 1, kp |-> [seq |-> 1, boot |-> b]]
           st == [ZeroStore EXCEPT !.identity = [seq |-> 1, boot |-> b],
                                   !.cursignedprekey = spk]
           refill == omemoRefillPreKeys(st, b, rnd - 3)
<1> SUFFICES ASSUME new # ZeroStore
             PROVE  /\ new.identity = [seq |-> 1, boot |-> b]
                    /\ new.cursignedprekey = spk
                    /\ new.prevsignedprekey = NoPreKey
  OBVIOUS
<1>1. refill.ret = 0 /\ new = [refill.store EXCEPT !.init = TRUE]
  BY DEF omemoSetupStore, omemoSetupStoreImpl, GenerateSignedPreKey
<1>2. /\ st \in Store /\ st.identity = [seq |-> 1, boot |-> b]
      /\ st.cursignedprekey = spk /\ st.prevsignedprekey = NoPreKey
  <2>1. [seq |-> 1, boot |-> b] \in Key /\ spk \in PreKey
    BY StoreAssumption DEF Key, PreKey
  <2>2. /\ st.identity = [seq |-> 1, boot |-> b]
        /\ st.cursignedprekey = spk /\ st.prevsignedprekey = NoPreKey
    BY DEF ZeroStore
  <2>3. st \in Store
    BY <2>1, ZeroStoreType DEF Store
  <2> QED BY <2>2, <2>3
<1> HIDE DEF st, spk
<1>3. /\ refill.store.identity = st.identity
      /\ refill.store.cursignedprekey = st.cursignedprekey
      /\ refill.store.prevsignedprekey = st.prevsignedprekey
      /\ refill.store \in Store
  <2>1. refill.store.prevsignedprekey = st.prevsignedprekey
    <3>1. rnd - 3 \in Int
      OBVIOUS
    <3> QED BY <1>2, <3>1, RefillFresh
  <2> QED BY <1>2, <2>1, RefillKeeps, RefillType
<1> HIDE DEF refill, new
<1>4. /\ new.identity = refill.store.identity
      /\ new.cursignedprekey = refill.store.cursignedprekey
      /\ new.prevsignedprekey = refill.store.prevsignedprekey
  BY <1>1, <1>3 DEF Store
<1> QED BY <1>2, <1>3, <1>4

(* A rotation that is not cut short makes the current signed prekey the    *)
(* previous one and numbers the new one after it.                          *)
LEMMA RotateSigned ==
  ASSUME NEW st \in Store, NEW b \in Nat, NEW rnd \in Nat
  PROVE  LET new == omemoRotateSignedPreKey(st, b, rnd).store
         IN \/ new = st
            \/ /\ new.prevsignedprekey = st.cursignedprekey
               /\ new.cursignedprekey.id = IncrementWrapSkipZero(st.cursignedprekey.id)
               /\ new.cursignedprekey.kp.seq = st.cursignedprekey.kp.seq + 1
<1> DEFINE spk == [id |-> IncrementWrapSkipZero(st.cursignedprekey.id),
                   kp |-> [seq |-> st.cursignedprekey.kp.seq + 1, boot |-> b]]
           new == omemoRotateSignedPreKey(st, b, rnd).store
<1>1. new = st \/ new = [st EXCEPT !.prevsignedprekey = st.cursignedprekey,
                                   !.cursignedprekey = spk]
  BY DEF omemoRotateSignedPreKey, GenerateSignedPreKey, Rotated
<1> HIDE DEF new
<1>2. \/ new = st
      \/ new.prevsignedprekey = st.cursignedprekey /\ new.cursignedprekey = spk
  BY <1>1 DEF Store
<1> QED BY <1>2 DEF new

(* Each call leaves the store answering for what was announced before.     *)

PreKeyOffers == SUBSET [ik : Key, pk : PreKey]
SignedOffers == SUBSET [ik : Key, spk : PreKey]

LEMMA RefillAnswers ==
  ASSUME NEW st, GoodStore(st), st.init, NEW b \in Nat, NEW rnd \in Nat,
         NEW pks \in PreKeyOffers, NEW spks \in SignedOffers, Answers(st, pks, spks)
  PROVE  LET new == omemoRefillPreKeys(st, b, rnd).store
         IN Answers(new, pks, spks) /\ new.identity = st.identity
<1> DEFINE new == omemoRefillPreKeys(st, b, rnd).store
           n == Count(st, rnd)
<1>1. st \in Store /\ st.pkcounter \in 1..IdMax /\ st.made \in Nat
  BY StoreAssumption DEF GoodStore, Whole, Store
<1>2. rnd \in Int /\ n \in 0..IdMax
  BY <1>1, FilledPlaces, StoreAssumption
<1>3. /\ new.made = st.made + n
      /\ new.pkcounter = IncrementBy(st.pkcounter, n)
      /\ \A i \in Slot : new.prekeys[i] = st.prekeys[i] \/ new.prekeys[i].kp.seq > st.made
  BY <1>1, <1>2, RefillFresh
<1>4. /\ new.init = st.init /\ new.identity = st.identity
      /\ new.cursignedprekey = st.cursignedprekey
      /\ new.prevsignedprekey = st.prevsignedprekey
  <2>1. /\ new.init = st.init /\ new.identity = st.identity
        /\ new.cursignedprekey = st.cursignedprekey
    BY <1>1, <1>2, RefillKeeps
  <2>2. new.prevsignedprekey = st.prevsignedprekey
    BY <1>1, <1>2, RefillFresh
  <2> QED BY <2>1, <2>2
<1> HIDE DEF new, n
<1>5. ASSUME NEW o \in pks, o.ik = new.identity, o.pk.id # 0
      PROVE  /\ o.pk.kp.seq \in 1..new.made
             /\ new.made - o.pk.kp.seq < IdMax =>
                  o.pk.id = IdBefore(new.pkcounter, new.made - o.pk.kp.seq)
             /\ \A i \in Slot :
                  new.prekeys[i].id # 0 /\ new.prekeys[i].kp.seq = o.pk.kp.seq =>
                    new.prekeys[i] = o.pk
  <2>1. /\ o.pk.kp.seq \in 1..st.made
        /\ st.made - o.pk.kp.seq < IdMax =>
             o.pk.id = IdBefore(st.pkcounter, st.made - o.pk.kp.seq)
        /\ \A i \in Slot :
             st.prekeys[i].id # 0 /\ st.prekeys[i].kp.seq = o.pk.kp.seq =>
               st.prekeys[i] = o.pk
    BY <1>4, <1>5 DEF Answers, AnswersForPreKeys
  <2> DEFINE age == st.made - o.pk.kp.seq
  <2>2. age \in Nat /\ new.made - o.pk.kp.seq = age + n
    BY <1>1, <1>2, <1>3, <2>1
  <2>3. ASSUME age + n < IdMax PROVE o.pk.id = IdBefore(new.pkcounter, age + n)
    <3>1. age < IdMax
      BY <1>2, <2>2, <2>3, StoreAssumption
    <3> HIDE DEF age
    <3>2. IdBefore(IncrementBy(st.pkcounter, n), age + n) = IdBefore(st.pkcounter, age)
      BY <1>1, <1>2, <2>2, <2>3, OldIdAges
    <3> QED BY <1>3, <2>1, <3>1, <3>2 DEF age
  <2>4. \A i \in Slot : new.prekeys[i].id # 0 /\ new.prekeys[i].kp.seq = o.pk.kp.seq =>
                          new.prekeys[i] = o.pk
    BY <1>1, <1>3, <2>1
  <2>5. o.pk.kp.seq \in 1..new.made
    BY <1>1, <1>2, <1>3, <2>1
  <2> QED BY <2>2, <2>3, <2>4, <2>5
<1>6. AnswersForPreKeys(new, pks)
  BY <1>5 DEF AnswersForPreKeys
<1>7. AnswersForSigned(new, spks) /\ SignedNumbered(new)
  BY <1>4 DEF Answers, AnswersForSigned, SignedNumbered, Rotations
<1> QED BY <1>4, <1>6, <1>7 DEF Answers, new

LEMMA RotateAnswers ==
  ASSUME NEW st, GoodStore(st), st.init, NEW b \in Nat, NEW rnd \in Nat,
         NEW pks \in PreKeyOffers, NEW spks \in SignedOffers, Answers(st, pks, spks)
  PROVE  LET new == omemoRotateSignedPreKey(st, b, rnd).store
         IN Answers(new, pks, spks) /\ new.identity = st.identity
<1> DEFINE new == omemoRotateSignedPreKey(st, b, rnd).store
           n == st.cursignedprekey.id
           seq == st.cursignedprekey.kp.seq
<1>1. st \in Store /\ n \in 1..IdMax /\ seq \in Nat \ {0}
  BY DEF GoodStore, Answers, SignedNumbered
<1>2. /\ new \in Store
      /\ new.init = st.init /\ new.identity = st.identity
      /\ new.prekeys = st.prekeys /\ new.pkcounter = st.pkcounter
      /\ new.made = st.made
      /\ new = st \/ new.cursignedprekey.id # 0
  BY <1>1, RotateOutcome
<1>3. \/ new = st
      \/ /\ new.prevsignedprekey = st.cursignedprekey
         /\ new.cursignedprekey.id = IncrementWrapSkipZero(n)
         /\ new.cursignedprekey.kp.seq = seq + 1
  BY <1>1, RotateSigned
<1> HIDE DEF new
<1>4. AnswersForPreKeys(new, pks)
  BY <1>2 DEF Answers, AnswersForPreKeys
<1>5. CASE new = st
  BY <1>2, <1>5 DEF new
<1>6. CASE new # st
  <2>1. /\ new.cursignedprekey.id = IncrementBy(n, 1)
        /\ new.cursignedprekey.id \in 1..IdMax
        /\ n = IdBefore(new.cursignedprekey.id, 1)
    BY <1>1, <1>3, <1>6, StoreAssumption
       DEF IncrementBy, IncrementWrapSkipZero, IdBefore
  <2>2. SignedNumbered(new)
    <3>1. new.cursignedprekey.kp.seq \in Nat \ {0}
      BY <1>1, <1>3, <1>6
    <3>2. /\ new.cursignedprekey.kp.seq = new.prevsignedprekey.kp.seq + 1
          /\ new.prevsignedprekey.id = IdBefore(new.cursignedprekey.id, 1)
      BY <1>3, <1>6, <2>1
    <3> QED BY <2>1, <3>1, <3>2 DEF SignedNumbered
  <2>3. ASSUME NEW o \in spks, o.ik = new.identity
        PROVE  /\ o.spk.kp.seq \in 1..new.cursignedprekey.kp.seq
               /\ Rotations(new, o.spk) = 0 => o.spk = new.cursignedprekey
               /\ Rotations(new, o.spk) = 1 => o.spk = new.prevsignedprekey
               /\ Rotations(new, o.spk) < IdMax =>
                    o.spk.id = IdBefore(new.cursignedprekey.id, Rotations(new, o.spk))
    <3> DEFINE age == Rotations(st, o.spk)
    <3>1. /\ o.spk.kp.seq \in 1..seq
          /\ age = 0 => o.spk = st.cursignedprekey
          /\ age < IdMax => o.spk.id = IdBefore(n, age)
      BY <1>2, <2>3 DEF Answers, AnswersForSigned
    <3>2. age \in Nat /\ Rotations(new, o.spk) = age + 1
      BY <1>1, <1>3, <1>6, <3>1 DEF Rotations
    <3>3. ASSUME age + 1 < IdMax
          PROVE  o.spk.id = IdBefore(new.cursignedprekey.id, age + 1)
      <4>1. 1 \in 0..IdMax /\ age < IdMax
        BY <3>2, <3>3, StoreAssumption
      <4> HIDE DEF age, n
      <4>2. IdBefore(IncrementBy(n, 1), age + 1) = IdBefore(n, age)
        BY <1>1, <3>2, <3>3, <4>1, OldIdAges
      <4> QED BY <2>1, <3>1, <4>1, <4>2
    <3>4. o.spk.kp.seq \in 1..new.cursignedprekey.kp.seq
      BY <1>1, <1>3, <1>6, <3>1
    <3> HIDE DEF age
    <3> QED BY <1>3, <1>6, <3>1, <3>2, <3>3, <3>4
  <2>4. AnswersForSigned(new, spks)
    BY <2>3 DEF AnswersForSigned
  <2> QED BY <1>2, <1>4, <2>2, <2>4 DEF Answers, new
<1> QED BY <1>5, <1>6

LEMMA RemoveAnswers ==
  ASSUME NEW st, GoodStore(st), NEW k \in Slot,
         NEW pks \in PreKeyOffers, NEW spks \in SignedOffers, Answers(st, pks, spks)
  PROVE  LET new == [st EXCEPT !.prekeys[k] = NoPreKey]
         IN Answers(new, pks, spks) /\ new.identity = st.identity
<1> DEFINE new == [st EXCEPT !.prekeys[k] = NoPreKey]
<1>1. st \in Store
  BY DEF GoodStore
<1>2. /\ new.init = st.init /\ new.identity = st.identity
      /\ new.cursignedprekey = st.cursignedprekey
      /\ new.prevsignedprekey = st.prevsignedprekey
      /\ new.pkcounter = st.pkcounter /\ new.made = st.made
      /\ \A i \in Slot : new.prekeys[i].id # 0 => new.prekeys[i] = st.prekeys[i]
  BY <1>1 DEF Store, NoPreKey
<1> HIDE DEF new
<1>3. AnswersForPreKeys(new, pks)
  BY <1>2 DEF Answers, AnswersForPreKeys
<1>4. AnswersForSigned(new, spks) /\ SignedNumbered(new)
  BY <1>2 DEF Answers, AnswersForSigned, SignedNumbered, Rotations
<1> QED BY <1>2, <1>3, <1>4 DEF Answers, new

(* A zeroed store, or one set up in this run, answers for nothing yet.     *)
LEMMA FreshAnswers ==
  ASSUME NEW st, NEW pks, NEW spks, \A o \in pks \cup spks : o.ik # st.identity
  PROVE  SignedNumbered(st) => Answers(st, pks, spks)
  BY DEF Answers, AnswersForPreKeys, AnswersForSigned

(* Announcing is answering for the store's own keys.                       *)
LEMMA AnnounceAnswers ==
  ASSUME NEW st, GoodStore(st), st.init,
         NEW pks \in PreKeyOffers, NEW spks \in SignedOffers, Answers(st, pks, spks)
  PROVE  Answers(st,
                 pks \cup {[ik |-> st.identity, pk |-> st.prekeys[i]] : i \in Slot},
                 spks \cup {[ik |-> st.identity, spk |-> st.cursignedprekey]})
<1>1. /\ st \in Store /\ NumberedByAge(st)
      /\ st.pkcounter \in 0..IdMax /\ st.made \in Nat
      /\ \A i \in Slot : st.prekeys[i] \in PreKey
  BY DEF GoodStore, Store
<1>2. ASSUME NEW k \in Slot, st.prekeys[k].id # 0
      PROVE  /\ st.prekeys[k].kp.seq \in 1..st.made
             /\ st.made - st.prekeys[k].kp.seq < IdMax =>
                  st.prekeys[k].id = IdBefore(st.pkcounter, st.made - st.prekeys[k].kp.seq)
             /\ \A i \in Slot :
                  st.prekeys[i].id # 0 /\ st.prekeys[i].kp.seq = st.prekeys[k].kp.seq =>
                    st.prekeys[i] = st.prekeys[k]
  BY <1>1, <1>2 DEF NumberedByAge, Age
<1>3. AnswersForPreKeys(st,
        pks \cup {[ik |-> st.identity, pk |-> st.prekeys[i]] : i \in Slot})
  BY <1>2 DEF Answers, AnswersForPreKeys
<1>4. /\ st.cursignedprekey.id \in 1..IdMax
      /\ st.cursignedprekey.kp.seq \in Nat \ {0}
  BY DEF Answers, SignedNumbered
<1>5. Rotations(st, st.cursignedprekey) = 0
  BY <1>4 DEF Rotations
<1>6. st.cursignedprekey.id = IdBefore(st.cursignedprekey.id, 0)
  BY <1>4 DEF IdBefore
<1>7. AnswersForSigned(st,
        spks \cup {[ik |-> st.identity, spk |-> st.cursignedprekey]})
  BY <1>4, <1>5, <1>6 DEF Answers, AnswersForSigned
<1> QED BY <1>3, <1>7 DEF Answers

(* Within a turn of the counter the id of a number is an id.               *)
LEMMA IdBeforeType ==
  ASSUME NEW n \in 1..IdMax, NEW k \in 0..IdMax - 1
  PROVE  IdBefore(n, k) \in 1..IdMax
  BY StoreAssumption DEF IdBefore

(* A store that has the id of an offered prekey has the offered key, as    *)
(* long as neither survived a turn of the counter.                         *)
LEMMA PreKeyFound ==
  ASSUME NEW st, GoodStore(st), NEW pks, NEW spks, Answers(st, pks, spks),
         NEW o \in pks, o.ik = st.identity, o.pk.id # 0, st.made - o.pk.kp.seq < IdMax,
         NEW found, found = FindPreKey(st, o.pk.id), found # Null,
         ~ (st.made - found.kp.seq >= IdMax)
  PROVE  found = o.pk
<1>1. st \in Store /\ NumberedByAge(st)
  BY DEF GoodStore
<1>2. PICK i \in Slot : found = st.prekeys[i] /\ st.prekeys[i].id = o.pk.id
  <2> DEFINE S == {i \in Slot : st.prekeys[i].id = o.pk.id}
  <2>1. S # {} /\ found = st.prekeys[CHOOSE i \in S : \A j \in S : i <= j]
    BY DEF FindPreKey
  <2>2. PICK m \in S : \A j \in S : m <= j
    <3>1. S \subseteq Nat
      BY StoreAssumption DEF Slot
    <3> QED BY <2>1, <3>1, LeastExists
  <2>3. (CHOOSE i \in S : \A j \in S : i <= j) \in S
    BY <2>2
  <2> QED BY <2>1, <2>3
<1> DEFINE a == st.made - o.pk.kp.seq
           b == st.made - found.kp.seq
           n == st.pkcounter
<1>3. /\ o.pk.kp.seq \in 1..st.made
      /\ o.pk.id = IdBefore(n, a)
      /\ found.kp.seq = o.pk.kp.seq => found = o.pk
  BY <1>1, <1>2 DEF Answers, AnswersForPreKeys
<1>4. found.kp.seq \in 1..st.made /\ st.made \in Nat /\ n \in 1..IdMax
  <2>1. found.kp.seq \in 1..st.made
    BY <1>1, <1>2 DEF NumberedByAge
  <2> QED BY <1>1, <2>1 DEF NumberedByAge, Store
<1>5. found.id = IdBefore(n, b)
  <2>1. Age(st, i) = b /\ b < IdMax
    BY <1>2, <1>4, StoreAssumption DEF Age
  <2> QED BY <1>1, <1>2, <2>1 DEF NumberedByAge
<1>6. a \in 0..IdMax - 1 /\ b \in 0..IdMax - 1
  BY <1>3, <1>4, StoreAssumption
<1>7. IdBefore(n, a) = IdBefore(n, b)
  BY <1>2, <1>3, <1>5
<1> HIDE DEF a, b, n
<1>8. a = b
  BY <1>4, <1>6, <1>7, AgesTellIds
<1> QED BY <1>3, <1>4, <1>8 DEF a, b

(* An offered signed prekey is found while it is current and after one     *)
(* rotation; later its id leads to no key.                                 *)
LEMMA SignedFound ==
  ASSUME NEW st, GoodStore(st), st.init, NEW pks, NEW spks, Answers(st, pks, spks),
         NEW o \in spks, o.ik = st.identity
  PROVE  LET age == st.cursignedprekey.kp.seq - o.spk.kp.seq
             found == FindSignedPreKey(st, o.spk.id)
         IN /\ age >= 0
            /\ age \in {0, 1} => found = o.spk
            /\ age >= 2 /\ age < IdMax => found = Null
<1> DEFINE age == st.cursignedprekey.kp.seq - o.spk.kp.seq
           n == st.cursignedprekey.id
           prev == st.prevsignedprekey
           found == FindSignedPreKey(st, o.spk.id)
<1>1. st \in Store
  BY DEF GoodStore
<1>3. /\ n \in 1..IdMax /\ st.cursignedprekey.kp.seq \in Nat \ {0}
      /\ \/ st.cursignedprekey.kp.seq = 1 /\ prev = NoPreKey
         \/ prev.id = IdBefore(n, 1)
  BY DEF Answers, SignedNumbered
<1>4. /\ o.spk.kp.seq \in 1..st.cursignedprekey.kp.seq
      /\ age = 0 => o.spk = st.cursignedprekey
      /\ age = 1 => o.spk = prev
      /\ age < IdMax => o.spk.id = IdBefore(n, age)
  BY <1>1 DEF Answers, AnswersForSigned, Rotations
<1>5. age \in Nat /\ n = IdBefore(n, 0)
  BY <1>3, <1>4 DEF IdBefore
<1>6. ASSUME age < IdMax PROVE o.spk.id # 0
  <2>1. age \in 0..IdMax - 1
    BY <1>5, <1>6, StoreAssumption
  <2> HIDE DEF age, n
  <2>2. IdBefore(n, age) \in 1..IdMax
    BY <1>3, <2>1, IdBeforeType
  <2> QED BY <1>4, <1>6, <2>2, StoreAssumption
<1>7. found = IF o.spk.id = 0 THEN Null
              ELSE IF st.cursignedprekey.id = o.spk.id THEN st.cursignedprekey
              ELSE IF prev.id = o.spk.id THEN prev ELSE Null
  BY DEF FindSignedPreKey
<1> HIDE DEF found, prev, age, n
<1>8. age = 0 => found = o.spk
  BY <1>4, <1>6, <1>7, StoreAssumption
<1>9. ASSUME age = 1 PROVE found = o.spk
  <2>1. o.spk = prev /\ o.spk.id # 0 /\ o.spk.id = IdBefore(n, 1)
    BY <1>4, <1>6, <1>9, StoreAssumption
  <2>2. IdBefore(n, 1) # n
    BY <1>3, StoreAssumption DEF IdBefore
  <2> QED BY <1>7, <2>1, <2>2 DEF n
<1>10. ASSUME age >= 2, age < IdMax PROVE found = Null
  <2>1. o.spk.id # 0 /\ o.spk.id = IdBefore(n, age)
    BY <1>4, <1>6, <1>10
  <2>2. age \in 0..IdMax - 1 /\ 0 \in 0..IdMax - 1 /\ 1 \in 0..IdMax - 1
    BY <1>5, <1>10, StoreAssumption
  <2>3. age # 0 /\ age # 1
    BY <1>10
  <2>4. IdBefore(n, age) # IdBefore(n, 0) /\ IdBefore(n, age) # IdBefore(n, 1)
    BY <1>3, <2>2, <2>3, AgesTellIds
  <2>5. prev.id = 0 \/ prev.id = IdBefore(n, 1)
    BY <1>3 DEF NoPreKey
  <2> QED BY <1>5, <1>7, <2>1, <2>4, <2>5 DEF n
<1>11. /\ age >= 0
       /\ age \in {0, 1} => found = o.spk
       /\ age >= 2 /\ age < IdMax => found = Null
  BY <1>5, <1>8, <1>9, <1>10
<1> QED BY <1>11 DEF found, age
=============================================================================
