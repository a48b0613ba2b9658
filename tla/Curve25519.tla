----------------------------- MODULE Curve25519 -----------------------------
(***************************************************************************)
(* The X25519 and the EdDSA of c25519.c, a driver of omemo.c: the ladder,  *)
(* the points of the twisted Edwards curve, packing, signing, verifying    *)
(* and the map between the two curves.  A curve over the small field has   *)
(* the shape of Curve25519: a Montgomery coefficient A = 1258, a cofactor  *)
(* 8 and a base point of prime order 2^28 + 3625.  Bits are numbered from  *)
(* the highest byte of an element, as the field's size is.                 *)
(***************************************************************************)
EXTENDS Field25519, Sha512

ASSUME HashAssumption == F25519_SIZE = 4 => SHA512_HASH_SIZE = 2 * F25519_SIZE

Sized(real, small) == IF F25519_SIZE = 32 THEN real ELSE small
Bits == 8 * F25519_SIZE

(* The lowest three bits are cleared, and the second highest bit is the    *)
(* highest one set.                                                        *)
Faulty_Clamped(e) == [e EXCEPT ![F25519_SIZE] = (@ % 64) + 64]

Clamped(e) ==
  [e EXCEPT ![1] = @ - (@ % 8), ![F25519_SIZE] = (@ % 64) + 64]
----------------------------------------------------------------------------
(* X25519: an x-coordinate is a pair <<x, z>>, for x / z.                  *)
c25519_base_x == f25519_load(Sized(9, 20))

A24 == Sized(486662, 1258)

xc_double(p) ==
  With3(Square(p[1]), Square(p[2]), f25519_mul(p[1], p[2]), LAMBDA x1sq, z1sq, x1z1 :
    <<Square(f25519_sub(x1sq, z1sq)),
      f25519_mul_c(f25519_mul(x1z1, f25519_add(z1sq, f25519_add(x1sq, f25519_mul_c(x1z1, A24)))),
                   4)>>)

(* The sum of p2 and p3, whose difference is p1.                           *)
xc_diffadd(p1, p2, p3) ==
  With2(f25519_mul(f25519_add(p2[1], p2[2]), f25519_sub(p3[1], p3[2])),
        f25519_mul(f25519_sub(p2[1], p2[2]), f25519_add(p3[1], p3[2])),
        LAMBDA da, cb : <<f25519_mul(p1[2], Square(f25519_add(da, cb))),
                          f25519_mul(p1[1], Square(f25519_sub(da, cb)))>>)

(* From the multiples m and m - 1 of q to 2m + bit and the one below it.   *)
LadderStep(q, s, bit) ==
  With2(xc_diffadd(q, s[1], s[2]), xc_double(s[1]), LAMBDA below, m :
    IF bit = 1 THEN <<xc_diffadd(below, m, q), m>> ELSE <<m, below>>)

(* The steps for the bits i - 1 down to j of e.                            *)
RECURSIVE Ladder(_, _, _, _, _)
Ladder(q, e, s, i, j) ==
  IF i = j + 1 THEN LadderStep(q, s, BitAt(e, j))
  ELSE With(Ladder(q, e, s, i, (i + j) \div 2),
            LAMBDA half : Ladder(q, e, half, (i + j) \div 2, j))

(* The second highest bit of e is taken to be set, the highest to be clear.*)
c25519_smult(q, e) ==
  With3(q, e, <<q, f25519_one>>, LAMBDA x, n, p :
    With(Ladder(p, n, <<p, <<f25519_one, f25519_zero>>>>, Bits - 2, 0)[1],
         LAMBDA m : f25519_normalize(f25519_mul(f25519_inv(m[2]), m[1]))))

----------------------------------------------------------------------------
(* Edwards points, in extended coordinates.                                *)
Point(x, y, z, t) == [x |-> x, y |-> y, z |-> z, t |-> t]

ed25519_base == Point(
  Sized(
    <<26, 213, 37, 143, 96, 45, 86, 201, 178, 167, 37, 149, 96, 199, 44, 105,
      92, 220, 214, 253, 49, 226, 164, 192, 254, 83, 110, 205, 211, 54, 105,
      33>>,
    <<110, 217, 211, 26>>),
  Sized(
    <<88, 102, 102, 102, 102, 102, 102, 102, 102, 102, 102, 102, 102, 102,
      102, 102, 102, 102, 102, 102, 102, 102, 102, 102, 102, 102, 102, 102,
      102, 102, 102, 102>>,
    <<186, 48, 12, 67>>),
  f25519_one,
  Sized(
    <<163, 221, 183, 165, 179, 138, 222, 109, 245, 82, 81, 119, 128, 159,
      240, 32, 125, 227, 171, 100, 142, 78, 234, 102, 101, 118, 139, 215, 15,
      95, 135, 103>>,
    <<216, 13, 216, 60>>))

ed25519_neutral == Point(f25519_zero, f25519_one, f25519_one, f25519_zero)

ed25519_d == Sized(
    <<163, 120, 89, 19, 202, 77, 235, 117, 171, 216, 65, 65, 77, 10, 112, 0,
      152, 232, 121, 119, 121, 64, 199, 140, 115, 254, 111, 43, 238, 108, 3,
      82>>,
    <<8, 169, 144, 10>>)

ed25519_k == Sized(
    <<89, 241, 178, 38, 148, 155, 214, 235, 86, 177, 131, 130, 154, 20, 224,
      0, 48, 209, 243, 238, 242, 128, 142, 25, 231, 252, 223, 86, 220, 217,
      6, 36>>,
    <<16, 82, 33, 21>>)

RealOrder ==
    <<237, 211, 245, 92, 26, 99, 18, 88, 214, 156, 247, 162, 222, 249, 222,
      20, 0, 0, 0, 0, 0, 0, 0, 0, 0, 0, 0, 0, 0, 0, 0, 16>>
ed25519_order == Sized(RealOrder, <<41, 14, 0, 16>>)

ed25519_project(x, y) == Point(x, y, f25519_one, f25519_mul(x, y))

(* <<x, y>>, both normalized.                                              *)
ed25519_unproject(p) ==
  With(f25519_inv(p.z), LAMBDA z1 :
    <<f25519_normalize(f25519_mul(p.x, z1)), f25519_normalize(f25519_mul(p.y, z1))>>)

(* y, with the parity of x in its highest bit.                             *)
ed25519_pack(x, y) ==
  With2(f25519_normalize(x), f25519_normalize(y), LAMBDA tmp, c :
    [c EXCEPT ![F25519_SIZE] = (@ % 128) + (tmp[1] % 2) * 128])

(* x^2 = (y^2 - 1) / (1 + d y^2).                                          *)
SquareOfX(y) ==
  With(Square(y), LAMBDA ysq :
    f25519_mul(f25519_sub(ysq, f25519_one),
               f25519_inv(f25519_add(f25519_mul(ysq, ed25519_d), f25519_one))))

(* The root of that with the packed parity.                                *)
ed25519_try_unpack(comp) ==
  With(comp, LAMBDA bytes :
    With([bytes EXCEPT ![F25519_SIZE] = @ % 128], LAMBDA y :
      With(SquareOfX(y), LAMBDA c :
        With(f25519_sqrt(c), LAMBDA a :
          With(f25519_select(a, f25519_neg(a), a[1] % 2 # bytes[F25519_SIZE] \div 128),
               LAMBDA x :
                 [x |-> x, y |-> y,
                  ok |-> f25519_eq(f25519_normalize(Square(x)), f25519_normalize(c))])))))

(* The products that end an addition and a doubling.                       *)
FromEFGH(e, f, g, h) ==
  CHOOSE p \in {Point(f25519_mul(e1, f1), f25519_mul(g1, h1), f25519_mul(f1, g1), f25519_mul(e1, h1)) :
                  e1 \in {e}, f1 \in {f}, g1 \in {g}, h1 \in {h}} : TRUE

Twice(x) == With(x, LAMBDA y : f25519_add(y, y))

ed25519_add(q1, q2) ==
  With2(q1, q2, LAMBDA p1, p2 :
    With2(<<f25519_mul(f25519_sub(p1.y, p1.x), f25519_sub(p2.y, p2.x)),
            f25519_mul(f25519_add(p1.y, p1.x), f25519_add(p2.y, p2.x))>>,
          <<f25519_mul(f25519_mul(p1.t, p2.t), ed25519_k), Twice(f25519_mul(p1.z, p2.z))>>,
          LAMBDA ab, cd :
            FromEFGH(f25519_sub(ab[2], ab[1]), f25519_sub(cd[2], cd[1]),
                     f25519_add(cd[2], cd[1]), f25519_add(ab[2], ab[1]))))

ed25519_double(q) ==
  With(q, LAMBDA p :
    With3(Square(p.x), Square(p.y), Square(p.z), LAMBDA a, b, zsq :
      With(f25519_sub(b, a), LAMBDA g :
        FromEFGH(f25519_sub(f25519_sub(Square(f25519_add(p.x, p.y)), a), b),
                 f25519_sub(g, Twice(zsq)), g,
                 f25519_sub(f25519_neg(b), a)))))

(* r doubled, and p added where e has a bit, for the bits i - 1 down to j. *)
RECURSIVE SmultFrom(_, _, _, _, _)
SmultFrom(r, p, e, i, j) ==
  IF i = j + 1
  THEN With(ed25519_double(r), LAMBDA s : IF BitAt(e, j) = 1 THEN ed25519_add(s, p) ELSE s)
  ELSE With(SmultFrom(r, p, e, i, (i + j) \div 2),
            LAMBDA half : SmultFrom(half, p, e, (i + j) \div 2, j))

ed25519_smult(q, n) ==
  With2(q, n, LAMBDA p, e : SmultFrom(ed25519_neutral, p, e, Bits, 0))
----------------------------------------------------------------------------
(* Signatures.                                                             *)
Half(s, i) == SubSeq(s, 1 + i * F25519_SIZE, (i + 1) * F25519_SIZE)  \* i = 0 or 1

expand_key(secret) ==
  With(sha512_get(sha512_final(sha512_initial_state, secret, F25519_SIZE), 0, 2 * F25519_SIZE),
       LAMBDA expanded : Clamped(expanded))

upp(packed) ==
  With(ed25519_try_unpack(packed),
       LAMBDA u : [ok |-> u.ok, p |-> ed25519_project(u.x, u.y)])

pp(p) == With(ed25519_unproject(p), LAMBDA a : ed25519_pack(a[1], a[2]))

edsign_sm_pack(k) == pp(ed25519_smult(ed25519_base, k))

hash_with_prefix(prefix, message, len) ==
  fprime_from_bytes(HashWithPrefix(prefix, message, len), ed25519_order)

hash_message(r, a, m, len) == hash_with_prefix(r \o a, m, len)

edsign_verify(signature, pub, message, len) ==
  With2(hash_message(Half(signature, 0), pub, message, len), upp(pub), LAMBDA z, p :
    With2(upp(Half(signature, 0)), ed25519_smult(p.p, z), LAMBDA q, zp :
      /\ p.ok
      /\ q.ok
      /\ f25519_eq(edsign_sm_pack(Half(signature, 1)), pp(ed25519_add(zp, q.p)))))

(* Between the Edwards y and the Montgomery x: the second is not reduced.  *)
morph25519_e2m(y) ==
  With(y, LAMBDA v :
    f25519_normalize(f25519_mul(f25519_add(f25519_one, v),
                                f25519_inv(f25519_sub(f25519_one, v)))))

morph25519_mx2ey(mx) ==
  With(mx, LAMBDA u :
    f25519_mul(f25519_sub(u, f25519_one), f25519_inv(f25519_add(u, f25519_one))))
----------------------------------------------------------------------------
(* The functions of driver.h.                                              *)

(* A message with random bytes after its first len ones is signed: the     *)
(* nonce is the hash of a mark, the secret and all of it, the challenge    *)
(* that of the first len bytes.                                            *)
Mark == Listed(F25519_SIZE, LAMBDA i : IF i = 1 THEN 254 ELSE 255)

C_omemoDriverEdSignMod(pub, secret, message, len) ==
  With(hash_with_prefix(Mark \o secret, message, len + 2 * F25519_SIZE), LAMBDA k :
    With(edsign_sm_pack(k), LAMBDA r :
      With2(hash_message(r, pub, message, len), fprime_from_bytes(secret, ed25519_order),
            LAMBDA z, e :
              r \o fprime_add(fprime_mul(z, e, ed25519_order), k, ed25519_order))))

C_omemoDriverEdVerify(sig, pub, msg, msgn) == edsign_verify(sig, pub, msg, msgn)

(* <<pub, prv>>.                                                           *)
C_omemoDriverEdSeedToPubPrv(seed) ==
  With(Half(expand_key(seed), 0), LAMBDA prv : <<edsign_sm_pack(prv), prv>>)

C_omemoDriverEdPubToCvPub(ed) == morph25519_e2m(ed)
C_omemoDriverCvPrvToEdPub(prv) == edsign_sm_pack(prv)
C_omemoDriverCvPubToEdPub(cv) == morph25519_mx2ey(cv)
C_omemoDriverCvPrvToPub(prv) == c25519_smult(c25519_base_x, prv)

(* The secret, and whether it is not zero.                                 *)
C_omemoDriverX25519(prv, pub) ==
  With(c25519_smult(pub, prv), LAMBDA out : [ok |-> ~f25519_eq(out, f25519_zero), out |-> out])
=============================================================================
