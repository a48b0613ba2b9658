------------------------------ MODULE Drivers -------------------------------
(***************************************************************************)
(* The two implementations of driver.h's curve functions under the code    *)
(* of omemo.c that calls them: every device is built with one of them, and *)
(* what one makes the other has to accept.  A session of two devices makes *)
(* keys, signs and checks one and agrees on a secret; besides, what both   *)
(* drivers compute is compared part by part.                               *)
(***************************************************************************)
EXTENDS Hacl

CONSTANTS
  Samples,    \* numbers that stand for random bytes, of users' keys
  Scalars,    \* the same, of numbers to reduce
  Limbs51,    \* the same, of elements in limbs
  Encodings,  \* y-coordinates of bytes taken for a point, below 2^31
  MsgMax,     \* messages have up to this many bytes
  KeyLen      \* bytes of the key that is signed

ASSUME CaseAssumption ==
  /\ Samples \cup Scalars \cup Encodings \cup Limbs51 \subseteq Nat
  /\ \A len \in {MsgMax, 2 * F25519_SIZE + KeyLen} :
       2 * F25519_SIZE + len < 2 ^ (Width - 3)  \* the bits of a hashed message fit in a word

L == INSTANCE Limbs
Real == INSTANCE Field25519 WITH F25519_SIZE <- 32
RealQ == INSTANCE ModOrder WITH Size <- 32, order <- RealOrder, mu <- RealMu

Drivers == {"c25519", "hacl"}
Versions == {"omemo", "omemo2"}

VARIABLES given, keys, sig, got
vars == <<given, keys, sig, got>>

(* Bytes that look random.                                                 *)
Random(n, len) == Listed(len, LAMBDA i : (n * i * 41 + n * n * 7 + i * i * 3 + 5 * n) % 256)
----------------------------------------------------------------------------
(* driver.h.                                                               *)
omemoDriverCvPrvToPub(d, prv) ==
  IF d = "hacl" THEN H_omemoDriverCvPrvToPub(prv) ELSE C_omemoDriverCvPrvToPub(prv)
omemoDriverEdSeedToPubPrv(d, seed) ==
  IF d = "hacl" THEN H_omemoDriverEdSeedToPubPrv(seed) ELSE C_omemoDriverEdSeedToPubPrv(seed)
omemoDriverEdPubToCvPub(d, ed) ==
  IF d = "hacl" THEN H_omemoDriverEdPubToCvPub(ed) ELSE C_omemoDriverEdPubToCvPub(ed)
omemoDriverCvPrvToEdPub(d, prv) ==
  IF d = "hacl" THEN H_omemoDriverCvPrvToEdPub(prv) ELSE C_omemoDriverCvPrvToEdPub(prv)
omemoDriverCvPubToEdPub(d, cv) ==
  IF d = "hacl" THEN H_omemoDriverCvPubToEdPub(cv) ELSE C_omemoDriverCvPubToEdPub(cv)
omemoDriverEdSignMod(d, pub, prv, msg, n) ==
  IF d = "hacl" THEN H_omemoDriverEdSignMod(pub, prv, msg, n)
  ELSE C_omemoDriverEdSignMod(pub, prv, msg, n)
omemoDriverEdVerify(d, s, pub, msg, n) ==
  IF d = "hacl" THEN H_omemoDriverEdVerify(s, pub, msg, n) ELSE C_omemoDriverEdVerify(s, pub, msg, n)
omemoDriverX25519(d, prv, pub) ==
  IF d = "hacl" THEN H_omemoDriverX25519(prv, pub) ELSE C_omemoDriverX25519(prv, pub)
----------------------------------------------------------------------------
(* omemo.c.                                                                *)
SignOf(key) == key[Len(key)] \div 128
WithSign(key, sign) == [key EXCEPT ![Len(key)] = (@ % 128) + 128 * sign]

GenerateKeyPair(d, rnd) ==
  With(Clamped(rnd), LAMBDA prv : [prv |-> prv, pub |-> omemoDriverCvPrvToPub(d, prv)])

GenerateEdKeyPair(d, seed) ==
  With(omemoDriverEdSeedToPubPrv(d, seed), LAMBDA pp2 : [prv |-> pp2[2], pub |-> pp2[1]])

(* In OMEMO 0.3 the sign of the Edwards key travels in the signature.      *)
CalculateCurveSignature(d, version, ik, rnd, msg) ==
  With(IF version = "omemo2" THEN ik.pub ELSE omemoDriverCvPrvToEdPub(d, ik.prv), LAMBDA ed :
    With(omemoDriverEdSignMod(d, ed, ik.prv, msg \o rnd, Len(msg)), LAMBDA s :
      IF version = "omemo2" THEN s ELSE WithSign(s, SignOf(ed))))

Faulty_VerifySignature(d, version, s, pub, msg) ==
  With(IF version = "omemo2" THEN pub ELSE WithSign(omemoDriverCvPubToEdPub(d, pub), 0),
       LAMBDA p : omemoDriverEdVerify(d, IF version = "omemo2" THEN s ELSE WithSign(s, 0), p, msg, Len(msg)))

VerifySignature(d, version, s, pub, msg) ==
  With(IF version = "omemo2" THEN <<s, pub>>
       ELSE <<WithSign(s, 0), WithSign(omemoDriverCvPubToEdPub(d, pub), SignOf(s))>>,
       LAMBDA sp : omemoDriverEdVerify(d, sp[1], sp[2], msg, Len(msg)))

DoX25519(d, prv, pub) == omemoDriverX25519(d, prv, pub)

(* The identity key as an X25519 key, by omemoInitiateSession and by       *)
(* DecryptGenericKeyImpl.                                                  *)
ExchangeKey(d, version, ik) ==
  IF version = "omemo2" THEN omemoDriverEdPubToCvPub(d, WithSign(ik, 0)) ELSE ik
----------------------------------------------------------------------------
None == <<>>

Sessions == [kind : {"session"}, signer : Drivers, other : Drivers, version : Versions, n : Samples]

Damages == {"none", "message", "r", "s", "key"}

(* The signer's identity key and the other's prekey.                       *)
Generate ==
  /\ given.kind = "session" /\ keys = None
  /\ LET rnd == Random(given.n, F25519_SIZE)
     IN keys' = [ik |-> IF given.version = "omemo2" THEN GenerateEdKeyPair(given.signer, rnd)
                        ELSE GenerateKeyPair(given.signer, rnd),
                 pk |-> GenerateKeyPair(given.other, Random(given.n + 100, F25519_SIZE))]
  /\ UNCHANGED <<given, sig, got>>

Message == Random(given.n + 200, KeyLen)

Sign ==
  /\ keys # None /\ sig = None /\ got = None
  /\ sig' = CalculateCurveSignature(given.signer, given.version, keys.ik,
                                    Random(given.n + 300, 2 * F25519_SIZE), Message)
  /\ UNCHANGED <<given, keys, got>>

Flipped(bytes, i) == [bytes EXCEPT ![i] = (@ + 128) % 256]

(* The other checks the signature, of which a part was damaged.            *)
Check(damage) ==
  /\ sig # None /\ got = None
  /\ LET s == CASE damage = "r" -> Flipped(sig, 1)
                [] damage = "s" -> Flipped(sig, F25519_SIZE + 1)
                [] OTHER -> sig
         msg == IF damage = "message" THEN Flipped(Message, KeyLen) ELSE Message
         pub == IF damage = "key" THEN keys.pk.pub ELSE keys.ik.pub
     IN got' = [damage |-> damage,
                ok |-> VerifySignature(given.other, given.version, s, pub, msg)]
  /\ UNCHANGED <<given, keys, sig>>

(* Both compute the secret of the identity key and the prekey.             *)
Agree ==
  /\ keys # None /\ sig = None /\ got = None
  /\ got' = <<DoX25519(given.signer, keys.ik.prv, keys.pk.pub),
              DoX25519(given.other, keys.pk.prv,
                       ExchangeKey(given.other, given.version, keys.ik.pub))>>
  /\ UNCHANGED <<given, keys, sig>>
----------------------------------------------------------------------------
(* The parts compared: what is got is a sequence of pairs, but for points. *)
Compare(kind, results) ==
  /\ given.kind = kind /\ got = None
  /\ got' = results
  /\ UNCHANGED <<given, keys, sig>>

(* A prefix in two parts and a message, and a key alone.                   *)
CompareHashes ==
  Compare("hash",
    LET pre1 == Random(1, F25519_SIZE)
        pre2 == Random(2, F25519_SIZE)
        msg == Random(given.n + 3, MsgMax)
    IN <<<<HashWithPrefix(pre1 \o pre2, msg, given.n), sha512_pre_pre2_msg(pre1, pre2, given.n, msg)>>,
         <<expand_key(Random(given.n, F25519_SIZE)), secret_expand(Random(given.n, F25519_SIZE))>>>>)

(* A hash reduced, and multiplied and added, at the size of the code.      *)
CompareScalars ==
  Compare("scalar",
    With2(IF given.n = 0 THEN Listed(64, LAMBDA i : 255) ELSE Random(given.n, 64),
          Random(given.n + 400, 32),
          LAMBDA hash, secret :
            With2(RealQ!barrett_reduction(hash), Real!fprime_from_bytes(hash, RealOrder),
                  LAMBDA h, c :
                    With(Real!fprime_from_bytes(secret, RealOrder), LAMBDA e :
                      <<<<c, h>>,
                        <<Real!fprime_mul(c, e, RealOrder), RealQ!mul_modq(h, secret)>>,
                        <<Real!fprime_add(c, e, RealOrder), RealQ!add_modq(h, e)>>>>)))) 

(* Bytes as a point, and the root from which c25519.c takes the parity.    *)
CompareEncodings ==
  Compare("encoding",
    With(f25519_load(given.n), LAMBDA y :
      With(WithSign(y, given.sign), LAMBDA bytes :
        [c |-> ed25519_try_unpack(bytes), h |-> point_decompress(bytes),
         root |-> f25519_sqrt(SquareOfX(y))])))

(* An element in limbs, of sizes the operations are used on: sums are not  *)
(* reduced, differences have a multiple of p.                              *)
Element(n) ==
  CASE n = 0 -> Listed(5, LAMBDA i : L!Times(IF i = 2 THEN 10 ELSE 9, L!Word64(255, 255, 7)))
    [] n = 1 -> Listed(5, LAMBDA i : L!Word64(255, 255, 7))
    [] n = 2 -> Listed(5, LAMBDA i : IF i = 1 THEN L!Word64(237, 255, 7) ELSE L!Word64(255, 255, 7))
    [] n = 3 -> Listed(5, LAMBDA i : IF i = 1 THEN L!Word64(236, 255, 7) ELSE L!Word64(255, 255, 7))
    [] n = 4 -> Listed(5, LAMBDA i : L!Word64(0, 0, 0))
    [] OTHER -> Listed(5, LAMBDA i : L!Low51(Random(n + 50 * i, 8)))

(* Its value, by c25519.c's arithmetic.                                    *)
Normal(x) == Real!f25519_normalize(x)

RECURSIVE Horner(_, _, _)
Horner(f, i, r) ==
  IF i = 0 THEN Normal(r)
  ELSE With(Real!f25519_mul_c(Real!f25519_mul_c(Real!f25519_mul_c(r, 2 ^ 17), 2 ^ 17), 2 ^ 17),
            LAMBDA s : Horner(f, i - 1, Real!f25519_add(s, L!Pad(f[i], 32))))
Value(f) == With(f, LAMBDA g : Horner(g, 5, Real!f25519_load(0)))

(* The operations on two elements; those that come from a multiplication   *)
(* are stored, since others are not small enough for that.                 *)
CompareLimbs ==
  Compare("limbs",
    With2(Element(given.n), Element(given.n + 1), LAMBDA f, g :
      With2(Value(f), Value(g), LAMBDA x, y :
        With2(L!Hacl_Impl_Curve25519_Field51_fmul2(<<f, g>>, <<g, f>>),
              L!Hacl_Impl_Curve25519_Field51_fsqr2(<<f, g>>), LAMBDA m, q :
          <<<<Value(m[1]), Normal(Real!f25519_mul(x, y))>>,
            <<L!Hacl_Bignum25519_store_51(m[2]), Value(m[1])>>,
            <<Value(q[1]), Normal(Real!Square(x))>>,
            <<L!Hacl_Bignum25519_store_51(q[2]), Normal(Real!Square(y))>>,
            <<Value(L!Hacl_Impl_Curve25519_Field51_fmul1(f, <<65, 219, 1, 0, 0, 0, 0, 0>>)),
              Normal(Real!f25519_mul_c(x, 121665))>>,
            <<Value(L!Hacl_Impl_Curve25519_Field51_fadd(f, g)), Normal(Real!f25519_add(x, y))>>,
            <<Value(L!Hacl_Impl_Curve25519_Field51_fsub(f, g)), Normal(Real!f25519_sub(x, y))>>,
            <<Value(L!Hacl_Bignum25519_load_51(x)), x>>>>))))

(* The chains reach 2^255 - 21 and 2^252 - 2: a power is its exponent.     *)
RECURSIVE DoubledExponent(_, _)
DoubledExponent(e, n) == IF n = 0 THEN e ELSE With(L!Added(e, e), LAMBDA d : DoubledExponent(d, n - 1))
Exponent(low, high) == <<low>> \o Listed(30, LAMBDA i : 255) \o <<high, 0>>

CompareChains ==
  Compare("chain",
    <<<<L!finv(L!Pad(<<1>>, 33), DoubledExponent, L!Added), Exponent(235, 127)>>,
      <<L!chain252(L!Pad(<<1>>, 33), DoubledExponent, L!Added), Exponent(254, 15)>>>>)
----------------------------------------------------------------------------
Parts ==
  [kind : {"hash"}, n : 0..MsgMax] \cup [kind : {"scalar"}, n : Scalars]
    \cup [kind : {"encoding"}, n : Encodings, sign : {0, 1}] \cup [kind : {"limbs"}, n : Limbs51]
    \cup [kind : {"chain"}, n : {0}]

Init == given \in Sessions \cup Parts /\ keys = None /\ sig = None /\ got = None

Next ==
  \/ Generate
  \/ Sign
  \/ \E damage \in Damages : Check(damage)
  \/ Agree
  \/ CompareHashes
  \/ CompareScalars
  \/ CompareEncodings
  \/ CompareLimbs
  \/ CompareChains

Spec == Init /\ [][Next]_vars
----------------------------------------------------------------------------
Checked == given.kind = "session" /\ sig # None /\ got # None

(* The secret of the signer's identity key and the other's prekey is the   *)
(* same on both sides and not zero, whichever drivers they were built with *)
(* and whichever form the identity key travels in.                         *)
SecretsAgree ==
  given.kind = "session" /\ sig = None /\ got # None => got[1].ok /\ got[1] = got[2]

(* A signature that one driver made is taken by the other, although in     *)
(* OMEMO 0.3 the key that is sent has no sign, and one with a part of it,  *)
(* the message or the key replaced is not.                                 *)
KeyVerifies == Checked => (got.ok <=> got.damage = "none")

Agreed(kind) == given.kind = kind /\ got # None => \A i \in DOMAIN got : got[i][1] = got[i][2]

(* SHA-512 of whole blocks and of a stream that is buffered are the same,  *)
(* at every length of the message around the ends of blocks.               *)
HashesAgree == Agreed("hash")

IsReduced(x) == f25519_normalize(x) = x

(* hacl.c takes the bytes for a point that c25519.c does, except those     *)
(* whose y is not reduced and those of x = 0 with the sign set, and finds  *)
(* the x of the packed parity.  c25519.c finds the same, except where its  *)
(* root comes out unreduced: then it is the x of the other parity, so that *)
(* the two hold a key to be its own negative.  There are no other          *)
(* encodings, of y at its limits, of points and of no points, on which     *)
(* they differ.                                                            *)
EncodingsAgree ==
  given.kind = "encoding" /\ got # None =>
    LET x == f25519_normalize(got.c.x)
        zero == x = f25519_zero
    IN /\ got.h.ok <=> got.c.ok /\ IsReduced(f25519_load(given.n)) /\ ~(zero /\ given.sign = 1)
       /\ got.h.ok =>
            /\ got.h.p.x[1] % 2 = given.sign
            /\ x = IF zero \/ IsReduced(got.root) THEN got.h.p.x
                   ELSE f25519_normalize(f25519_neg(got.h.p.x))

(* Barrett's reduction is the one bit by bit, and so are products and sums *)
(* of what is reduced.  The operations on limbs compute what those on      *)
(* bytes do, of limbs that were not reduced, of p and of 2^255 - 1 too,    *)
(* and the chains of hacl.c are the powers p - 2 and (p + 3) / 8.          *)
NumbersAgree == Agreed("scalar") /\ Agreed("limbs") /\ Agreed("chain")
=============================================================================
