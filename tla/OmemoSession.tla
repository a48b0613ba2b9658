---------------------------- MODULE OmemoSession ----------------------------
(***************************************************************************)
(* The session of omemo.c (struct omemoSession): X3DH set-up and the       *)
(* Double Ratchet, as pure functions on a session record.  A function that *)
(* can fail returns a record with "ret" beside what it changed.            *)
(*                                                                         *)
(* Cryptography is symbolic.  A public key is the tuple <<device, kind,    *)
(* seq, boot>>, a Diffie-Hellman output the pair of the keys that went in, *)
(* a root key the sequence of the outputs it was derived from, a chain key *)
(* its root and the number of steps made from it; a message key is named   *)
(* by the chain key it is derived from.  Zeroed memory is <<>>.            *)
(*                                                                         *)
(* A definition Faulty_X is X with a mistake in it; nothing uses it.  The  *)
(* properties are known to tell it from X.                                 *)
(***************************************************************************)
EXTENDS OmemoStore, Sequences

CONSTANTS
  Device,       \* the devices that talk to each other
  HeartbeatAt,  \* messages received in one chain before a heartbeat (53)
  Callbacks,    \* which store of skipped message keys the program installs
  MaxSkip       \* its capacity or limit (MAX_SKIP_KEYS, MKSKIPPEDN)

(* "limit": README.md refuses a key when told that more than MaxSkip are   *)
(* to come; "array": test/omemo.c refuses it when MaxSkip are held;        *)
(* "refuse": example/im.c stores it and returns an error all the same;     *)
(* "none": no callback is set, omemo.c drops the key.                      *)
ASSUME SessionAssumption ==
  /\ HeartbeatAt \in Nat \ {0}
  /\ Callbacks \in {"limit", "array", "refuse", "none"}
  /\ MaxSkip \in Nat

OMEMO_ECRYPTO == -2

SESSION_UNINIT    == 0
SESSION_INIT      == 1
SESSION_READY     == 2
SESSION_HEARTBEAT == 3

Zero == <<>>
ZeroChain == [root |-> Zero, i |-> 0]

ZeroState ==
  [dhs |-> Zero, dhr |-> Zero, rk |-> Zero, cks |-> ZeroChain, ckr |-> ZeroChain,
   ns |-> 0, nr |-> 0, pn |-> 0]

ZeroSession ==
  [init |-> SESSION_UNINIT, identity |-> Zero, remoteidentity |-> Zero,
   state |-> ZeroState, usedek |-> Zero, usedpk_id |-> 0, usedspk_id |-> 0]

(* The public key of a key pair of device d.                               *)
Pub(d, kind, kp) == IF kp = NoKey THEN Zero ELSE <<d, kind, kp.seq, kp.boot>>

----------------------------------------------------------------------------
(* Key derivation.                                                         *)

DH(x, y) == {x, y}

FirstChain(rk) == [root |-> rk, i |-> 0]

Faulty_NextChain(ck) == ck

NextChain(ck) == [ck EXCEPT !.i = @ + 1]

GetSharedSecret(isbob, ika, ska, eka, ikb, spkb, opkb) ==
  << DH(IF isbob THEN ska ELSE ika, IF isbob THEN ikb ELSE spkb),
     DH(IF isbob THEN ika ELSE ska, IF isbob THEN spkb ELSE ikb),
     DH(ska, spkb),
     DH(eka, opkb) >>

DeriveRootKey(rk, dhs, dhr) == Append(rk, DH(dhs, dhr))

----------------------------------------------------------------------------
(* Setting up.                                                             *)

RatchetInitAlice(sk, ekb, eka) ==
  LET rk == DeriveRootKey(sk, eka, ekb)
  IN [ZeroState EXCEPT !.dhs = eka, !.dhr = ekb, !.rk = rk, !.cks = FirstChain(rk)]

(* The rest of the state stays as it was.                                  *)
RatchetInitBob(state, sk, ekb) == [state EXCEPT !.dhs = ekb, !.rk = sk]

(* "bundle" is what the peer announced; "eka" the key pair generated here; *)
(* "fault" where the source of randomness or the driver fails.  A zeroed   *)
(* key has no shared secret with any other.  A failure in the last         *)
(* derivation zeroes the state the session had.                            *)
omemoInitiateSession(d, s, st, bundle, eka, fault) ==
  LET ik == Pub(d, "ik", st.identity)
      sk == GetSharedSecret(FALSE, ik, eka, eka, bundle.ik, bundle.spk, bundle.pk)
  IN IF ~bundle.signed THEN [ret |-> OMEMO_ECORRUPT, session |-> s]
     ELSE IF fault = "random" THEN [ret |-> OMEMO_ERANDOM, session |-> s]
     ELSE IF Zero \in {bundle.ik, bundle.spk, bundle.pk}
     THEN [ret |-> OMEMO_ECORRUPT, session |-> s]
     ELSE IF fault = "derive"
          THEN [ret |-> OMEMO_ECRYPTO, session |-> [s EXCEPT !.state = ZeroState]]
     ELSE [ret |-> 0,
           session |-> [init |-> SESSION_INIT, identity |-> ik,
                        remoteidentity |-> bundle.ik,
                        state |-> RatchetInitAlice(sk, bundle.spk, eka),
                        usedek |-> eka, usedpk_id |-> bundle.pk_id,
                        usedspk_id |-> bundle.spk_id]]

----------------------------------------------------------------------------
(* Encryption.  A message carries the name of the key it is encrypted and  *)
(* authenticated with, and "ad", the identities its MAC covers.            *)

NoMessage == [body |-> 0]

(* The chain key steps before the driver can fail, Ns only after.          *)
EncryptKeyImpl(s, body, fault) ==
  LET prekey == s.init = SESSION_INIT
      stepped == [s EXCEPT !.state.cks = NextChain(@)]
  IN IF s.init = SESSION_UNINIT
     THEN [ret |-> OMEMO_ESTATE, session |-> s, msg |-> NoMessage]
     ELSE IF fault = "crypto"
     THEN [ret |-> OMEMO_ECRYPTO, session |-> stepped, msg |-> NoMessage]
     ELSE [ret |-> 0,
           session |-> [stepped EXCEPT !.state.ns = @ + 1],
           msg |-> [body |-> body, n |-> s.state.ns, pn |-> s.state.pn,
                    dh |-> s.state.dhs, mk |-> s.state.cks,
                    ad |-> <<s.identity, s.remoteidentity>>,
                    isprekey |-> prekey,
                    pk_id |-> IF prekey THEN s.usedpk_id ELSE 0,
                    spk_id |-> IF prekey THEN s.usedspk_id ELSE 0,
                    ik |-> IF prekey THEN s.identity ELSE Zero,
                    ek |-> IF prekey THEN s.usedek ELSE Zero]]

(* On an error the session is put back as it was.                          *)
PutBack(s, r) == IF r.ret = 0 THEN r ELSE [r EXCEPT !.session = s]

omemoEncryptKey(s, body, fault) == PutBack(s, EncryptKeyImpl(s, body, fault))

Faulty_HeartbeatDue(s) == s.state.nr >= HeartbeatAt /\ s.init # SESSION_UNINIT

HeartbeatDue(s) == s.state.nr >= HeartbeatAt /\ s.init = SESSION_READY

(* An empty message once HeartbeatAt messages came in one chain, and not   *)
(* again until the session is READY again.                                 *)
omemoHeartbeat(s, body, fault) ==
  LET Beaten(r) == IF r.ret # 0 THEN r ELSE [r EXCEPT !.session.init = SESSION_HEARTBEAT]
      nothing == [ret |-> 0, session |-> s, msg |-> NoMessage]
  IN IF HeartbeatDue(s) THEN Beaten(omemoEncryptKey(s, body, fault))
     ELSE IF s.state.nr < HeartbeatAt /\ s.init = SESSION_HEARTBEAT
     THEN [nothing EXCEPT !.session.init = SESSION_READY]
     ELSE nothing

----------------------------------------------------------------------------
(* The store of skipped message keys, behind two callbacks.  "skipped" is  *)
(* the set of keys it holds.                                               *)

omemoLoadMessageKey(skipped, dh, nr) ==
  IF Callbacks = "none" THEN {} ELSE {k \in skipped : k.dh = dh /\ k.nr = nr}

(* The program's own callback fails, where there is one.                   *)
LoadFails(fault) == fault = "load" /\ Callbacks # "none"

Faulty_RemoveSkippedKey(skipped, loaded) == skipped

(* A key that is loaded is taken out of the store.                         *)
RemoveSkippedKey(skipped, loaded) == skipped \ loaded

Faulty_StoreRefuses(held, amount) == held + 1 >= MaxSkip

(* Is the key refused when "held" keys are there and the library says that *)
(* "amount" are to come?  A negative amount is the unsigned 2^64 - |amount|*)
(* of the code.                                                            *)
StoreRefuses(held, amount) ==
  CASE Callbacks = "limit"  -> amount > MaxSkip \/ amount < 0
    [] Callbacks = "array"  -> held >= MaxSkip
    [] Callbacks = "refuse" -> TRUE
    [] Callbacks = "none"   -> FALSE

----------------------------------------------------------------------------
(* Decryption.                                                             *)

GetAmountSkipped(nr, n) == IF n > nr THEN n - nr ELSE 0

(* Where skipping up to message n stops: at the first key the store        *)
(* refuses, or at n.                                                       *)
SkipEnd(s, skipped, n, fullamount) ==
  LET nr == s.state.nr
      refused == {j \in nr .. n - 1 :
                    StoreRefuses(Cardinality(skipped) + (j - nr), fullamount - (j - nr))}
  IN CHOOSE j \in refused \cup {n} : \A k \in refused \cup {n} : j <= k

(* Key j of the receiving chain of s.                                      *)
SkippedKey(s, j) ==
  [dh |-> s.state.dhr, nr |-> j, mk |-> [s.state.ckr EXCEPT !.i = @ + (j - s.state.nr)]]

(* "none" keeps nothing, "refuse" keeps the key it refuses.                *)
Stored(nr, end, n) ==
  CASE Callbacks = "none"   -> {}
    [] Callbacks = "refuse" -> {j \in nr .. n - 1 : j <= end}
    [] OTHER                -> nr .. end - 1

SkipTo(s, skipped, n, end) ==
  [ret |-> IF end = n THEN 0 ELSE OMEMO_EUSER,
   session |-> [s EXCEPT !.state.nr = end,
     !.state.ckr.i = @ + (end - s.state.nr) + (IF end = n THEN 0 ELSE 1)],
   skipped |-> skipped \cup {SkippedKey(s, j) : j \in Stored(s.state.nr, end, n)}]

(* Steps the receiving chain up to message n, handing the keys on the way  *)
(* to the store one by one, until one is refused.                          *)
SkipMessageKeys(s, skipped, n, fullamount) ==
  IF s.state.nr >= n THEN [ret |-> 0, session |-> s, skipped |-> skipped]
  ELSE SkipTo(s, skipped, n, SkipEnd(s, skipped, n, fullamount))

Faulty_PreviousLength(state) == state.ns - 1

(* PN = Ns                                                                 *)
PreviousLength(state) == state.ns

(* "new" is the key pair generated here.  When that fails, the receiving   *)
(* half of the step has been made.                                         *)
DHRatchet(state, dh, new, fault) ==
  LET rk1 == DeriveRootKey(state.rk, state.dhs, dh)
      rk2 == DeriveRootKey(rk1, new, dh)
      half == [state EXCEPT !.pn = PreviousLength(state), !.ns = 0, !.nr = 0,
                            !.dhr = dh, !.rk = rk1, !.ckr = FirstChain(rk1)]
  IN IF fault = "random" THEN [ret |-> OMEMO_ERANDOM, state |-> half]
     ELSE [ret |-> 0,
           state |-> [half EXCEPT !.dhs = new, !.rk = rk2, !.cks = FirstChain(rk2)]]

Faulty_Unseal(s, skipped, m, mk, fault) ==
  [ret |-> 0, session |-> [s EXCEPT !.init = SESSION_READY], skipped |-> skipped]

(* What is left once the message key is there: the MAC, the padding.       *)
Unseal(s, skipped, m, mk, fault) ==
  IF fault = "crypto"
  THEN [ret |-> OMEMO_ECRYPTO, session |-> s, skipped |-> skipped]
  ELSE IF mk # m.mk \/ m.ad # <<s.remoteidentity, s.identity>>
  THEN [ret |-> OMEMO_ECORRUPT, session |-> s, skipped |-> skipped]
  ELSE [ret |-> 0, session |-> [s EXCEPT !.init = SESSION_READY], skipped |-> skipped]

(* "skip" is what came of skipping the messages before m in its chain: the *)
(* next key of the chain is m's.                                           *)
ReceiveNext(skip, m, fault) ==
  IF skip.ret # 0 THEN skip
  ELSE Unseal([skip.session EXCEPT !.state.ckr = NextChain(@), !.state.nr = @ + 1],
              skip.skipped, m, skip.session.state.ckr, fault)

(* "rest" is what came of skipping the rest of the old chain, "step" of    *)
(* the ratchet step after it.                                              *)
ReceiveFirst(rest, step, m, nskips, fault) ==
  LET s == [rest.session EXCEPT !.state = step.state]
  IN IF step.ret # 0 THEN [ret |-> step.ret, session |-> s, skipped |-> rest.skipped]
     ELSE ReceiveNext(SkipMessageKeys(s, rest.skipped, m.n, nskips), m, fault)

(* A message of a chain that is new here.                                  *)
ReceiveNewChain(rest, m, new, nskips, fault) ==
  IF rest.ret # 0 THEN rest
  ELSE ReceiveFirst(rest, DHRatchet(rest.session.state, m.dh, new, fault), m, nskips, fault)

Faulty_Gone(s, m) == s.state.dhr = m.dh /\ m.n <= s.state.nr

(* The chain went past the message.                                        *)
Gone(s, m) == s.state.dhr = m.dh /\ m.n < s.state.nr

DecryptKeyImpl(s, skipped, m, new, fault) ==
  LET shouldstep == s.state.dhr # m.dh
      loaded == omemoLoadMessageKey(skipped, m.dh, m.n)
      old == GetAmountSkipped(s.state.nr, m.pn)
      amount == GetAmountSkipped(s.state.nr, m.n)
  IN IF LoadFails(fault)
     THEN [ret |-> OMEMO_EUSER, session |-> s, skipped |-> skipped]
     ELSE IF loaded # {}
     THEN Unseal(s, RemoveSkippedKey(skipped, loaded), m, (CHOOSE k \in loaded : TRUE).mk, fault)
     ELSE IF Gone(s, m)
     THEN [ret |-> OMEMO_EKEYGONE, session |-> s, skipped |-> skipped]
     ELSE IF shouldstep
     THEN ReceiveNewChain(SkipMessageKeys(s, skipped, m.pn, old + m.n), m, new, old, fault)
     ELSE ReceiveNext(SkipMessageKeys(s, skipped, m.n, amount), m, fault)

(* A prekey message sets up the session of a device that has none.         *)
AcceptPreKey(d, s, st, m) ==
  LET pk == FindPreKey(st, m.pk_id)
      spk == FindSignedPreKey(st, m.spk_id)
      ik == Pub(d, "ik", st.identity)
      spkpub == Pub(d, "spk", spk.kp)
      sk == GetSharedSecret(TRUE, ik, spkpub, Pub(d, "pk", pk.kp), m.ik, m.ek, m.ek)
  IN IF pk = Null \/ spk = Null THEN [ret |-> OMEMO_ECORRUPT, session |-> s]
     ELSE [ret |-> 0,
           session |-> [s EXCEPT !.usedpk_id = m.pk_id, !.identity = ik,
                                 !.remoteidentity = m.ik,
                                 !.state = RatchetInitBob(@, sk, spkpub)]]

Faulty_PreKeyRole(s) ==
  IF s.init \in {SESSION_INIT, SESSION_UNINIT} THEN "open" ELSE "inner"

(* What a prekey message means to the session: nothing while its own       *)
(* set-up is unanswered, a new session if there is none, and otherwise     *)
(* only the message inside counts.                                         *)
PreKeyRole(s) ==
  IF s.init = SESSION_INIT THEN "refuse"
  ELSE IF s.init = SESSION_UNINIT THEN "open" ELSE "inner"

Faulty_Answered(s) == s

(* The first answer to a session set up here.                              *)
Answered(s) ==
  IF s.init = SESSION_INIT
  THEN [s EXCEPT !.usedpk_id = 0, !.usedspk_id = 0, !.usedek = Zero] ELSE s

(* The session a message is decrypted in.                                  *)
SessionFor(d, s, st, m) ==
  IF m.isprekey
  THEN CASE PreKeyRole(s) = "refuse" -> [ret |-> OMEMO_ESTATE, session |-> s]
         [] PreKeyRole(s) = "open"   -> AcceptPreKey(d, s, st, m)
         [] PreKeyRole(s) = "inner"  -> [ret |-> 0, session |-> s]
  ELSE IF s.init = SESSION_UNINIT THEN [ret |-> OMEMO_ESTATE, session |-> s]
  ELSE [ret |-> 0, session |-> Answered(s)]

DecryptIn(d, opened, st, skipped, m, new, fault) ==
  IF opened.ret # 0
  THEN [ret |-> opened.ret, session |-> opened.session, skipped |-> skipped]
  ELSE IF opened.session.identity # Pub(d, "ik", st.identity)
  THEN [ret |-> OMEMO_ESTORE, session |-> opened.session, skipped |-> skipped]
  ELSE DecryptKeyImpl(opened.session, skipped, m, new, fault)

DecryptGenericKeyImpl(d, s, st, skipped, m, new, fault) ==
  DecryptIn(d, SessionFor(d, s, st, m), st, skipped, m, new, fault)

(* What the callbacks did to the skipped keys is not the library's to      *)
(* undo.                                                                   *)
omemoDecryptKey(d, s, st, skipped, m, new, fault) ==
  PutBack(s, DecryptGenericKeyImpl(d, s, st, skipped, m, new, fault))

----------------------------------------------------------------------------
(* The shape of a session and of a message.                                *)

PubKey == {Zero} \cup (Device \X {"ik", "spk", "pk", "ek"} \X Nat \X Nat)
RootKey == Seq(SUBSET PubKey)
ChainKey == [root : RootKey, i : Nat]

State == [dhs : PubKey, dhr : PubKey, rk : RootKey, cks : ChainKey, ckr : ChainKey,
          ns : Nat, nr : Nat, pn : Nat]

Session == [init : SESSION_UNINIT .. SESSION_HEARTBEAT,
            identity : PubKey, remoteidentity : PubKey, state : State,
            usedek : PubKey, usedpk_id : 0..IdMax, usedspk_id : 0..IdMax]

Message == [body : Nat, n : Nat, pn : Nat, dh : PubKey, mk : ChainKey,
            ad : PubKey \X PubKey, isprekey : BOOLEAN,
            pk_id : 0..IdMax, spk_id : 0..IdMax, ik : PubKey, ek : PubKey]
=============================================================================
