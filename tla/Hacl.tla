-------------------------------- MODULE Hacl --------------------------------
(***************************************************************************)
(* The X25519 and the EdDSA of hacl.c, the other driver of omemo.c.  Its   *)
(* field elements are five limbs in the code; here an element is the bytes *)
(* of Field25519, whose operations on residues stand for those on limbs    *)
(* (the limbs are in Limbs.tla).  The tables of multiples of the base      *)
(* point, data in the code, are computed.  Numbers mod the order are bytes *)
(* where the code has limbs of seven bytes.                                *)
(***************************************************************************)
EXTENDS Curve25519

(* z^(2^250 - 1), squared n times.                                         *)
RECURSIVE fsquare_times(_, _)
fsquare_times(z, n) == IF n = 1 THEN Square(z) ELSE With(Square(z), LAMBDA s : fsquare_times(s, n - 1))
Chain250(z, n) == fsquare_times(Ones(z, z, Bits - 7), n)

Hacl_Curve25519_51_finv(e) ==
  With(e, LAMBDA i :
    With(Square(i), LAMBDA a : f25519_mul(Chain250(i, 5),
                                          f25519_mul(f25519_mul(fsquare_times(a, 2), i), a))))

pow2_252m2(e) == With(e, LAMBDA z : f25519_mul(Chain250(z, 2), Square(z)))

(* What is loaded from bytes: without the highest bit.                     *)
load_51(s) == [s EXCEPT ![F25519_SIZE] = @ % 128]
----------------------------------------------------------------------------
(* X25519.                                                                 *)
FromSquares(d, c) ==
  With2(d, f25519_sub(d, c), LAMBDA d1, c1 :
    <<f25519_mul(d1, c),
      f25519_mul(c1, f25519_add(f25519_mul_c(c1, Sized(121665, 314)), d1))>>)

point_double(nq) == FromSquares(Square(f25519_add(nq[1], nq[2])), Square(f25519_sub(nq[1], nq[2])))

(* <<2 nq, nq + nq_p1>>, where q is their difference.                      *)
point_add_and_double(q, nq, nq_p1) ==
  With2(f25519_mul(f25519_sub(nq_p1[1], nq_p1[2]), f25519_add(nq[1], nq[2])),
        f25519_mul(f25519_add(nq_p1[1], nq_p1[2]), f25519_sub(nq[1], nq[2])),
        LAMBDA d, c :
          <<point_double(nq),
            <<Square(f25519_add(d, c)), f25519_mul(Square(f25519_sub(d, c)), q[1])>>>>)

cswap2(bit, ps) == IF bit = 1 THEN <<ps[2], ps[1]>> ELSE ps

(* s = <<the two points, swap>>, for the bits i - 1 down to j of the key.  *)
RECURSIVE LadderBits(_, _, _, _, _)
LadderBits(q, key, s, i, j) ==
  IF i = j + 1
  THEN With2(BitAt(key, j), s, LAMBDA bit, t :
         With(cswap2((t[2] + bit) % 2, t[1]),
              LAMBDA ps : <<point_add_and_double(q, ps[1], ps[2]), bit>>))
  ELSE With(LadderBits(q, key, s, i, (i + j) \div 2),
            LAMBDA half : LadderBits(q, key, half, (i + j) \div 2, j))

(* The highest bits of the key are taken to be 01, the lowest to be 000.   *)
montgomery_ladder(key, init) ==
  With2(key, init, LAMBDA k, q :
    With(LadderBits(q, k, <<point_add_and_double(q, q, <<f25519_one, f25519_zero>>), 1>>,
                    Bits - 2, 3),
         LAMBDA s : With(cswap2(s[2], s[1])[1],
                         LAMBDA nq : point_double(point_double(point_double(nq))))))

encode_point(i) ==
  With(i, LAMBDA p : f25519_normalize(f25519_mul(Hacl_Curve25519_51_finv(p[2]), p[1])))

Hacl_Curve25519_51_scalarmult(priv, pub) ==
  encode_point(montgomery_ladder(priv, <<load_51(pub), f25519_one>>))
----------------------------------------------------------------------------
(* Edwards points.                                                         *)
Hacl_Impl_Ed25519_PointDouble_point_double(q) ==
  With(q, LAMBDA p :
    With2(Square(p.x), Square(p.y), LAMBDA x2, y2 :
      With2(f25519_add(x2, y2), f25519_sub(x2, y2), LAMBDA h, g :
        FromEFGH(f25519_sub(h, Square(f25519_add(p.x, p.y))),
                 f25519_add(Twice(Square(p.z)), g), g, h))))

Hacl_Impl_Ed25519_PointAdd_point_add(q1, q2) ==
  With2(q1, q2, LAMBDA p, q :
    With2(<<f25519_mul(f25519_sub(p.y, p.x), f25519_sub(q.y, q.x)),
            f25519_mul(f25519_add(p.y, p.x), f25519_add(q.y, q.x))>>,
          <<f25519_mul(Twice(p.z), q.z), f25519_mul(f25519_mul(ed25519_k, p.t), q.t)>>,
          LAMBDA ba, dc :
            FromEFGH(f25519_sub(ba[2], ba[1]), f25519_sub(dc[1], dc[2]),
                     f25519_add(dc[1], dc[2]), f25519_add(ba[2], ba[1]))))

make_point_inf == ed25519_neutral

is_0(x) == x = f25519_zero

mul_modp_sqrt_m1(x) ==
  f25519_mul(x, Sized(<<176, 160, 14, 74, 39, 27, 238, 196, 120, 228, 47, 173, 6, 24, 67, 47,
                        167, 215, 251, 61, 153, 0, 77, 43, 11, 223, 193, 79, 128, 36, 131, 43>>,
                      <<4, 10, 127, 90>>))

(* y from p on.                                                            *)
NotReduced(y) ==
  /\ y[1] >= 237
  /\ \A i \in 2 .. F25519_SIZE - 1 : y[i] = 255
  /\ y[F25519_SIZE] = 127

IsRoot(x3, x2) == is_0(f25519_normalize(f25519_sub(Square(x3), x2)))

(* x^2 = (y^2 - 1) / (1 + d y^2), with the given parity; zero has one sign.*)
RecoverX(y0, sign) ==
  With2(y0, Square(y0), LAMBDA y, y2 :
    With(f25519_normalize(
           f25519_mul(f25519_sub(y2, f25519_one),
                      Hacl_Curve25519_51_finv(f25519_add(f25519_mul(ed25519_d, y2), f25519_one)))),
         LAMBDA x2 :
           IF is_0(x2) THEN [ok |-> sign = 0, x |-> f25519_zero]
           ELSE With(pow2_252m2(x2), LAMBDA root :
             With(f25519_normalize(IF IsRoot(root, x2) THEN root ELSE mul_modp_sqrt_m1(root)),
                  LAMBDA x3 :
                    [ok |-> IsRoot(x3, x2),
                     x |-> IF x3[1] % 2 = sign THEN x3
                           ELSE f25519_normalize(f25519_sub(f25519_zero, x3))]))))

Faulty_recover_x(y, sign) == RecoverX(y, sign)

recover_x(y, sign) ==
  IF NotReduced(y) THEN [ok |-> FALSE, x |-> f25519_zero] ELSE RecoverX(y, sign)

point_decompress(s) ==
  With(load_51(s), LAMBDA y :
    With(recover_x(y, s[F25519_SIZE] \div 128),
         LAMBDA r : [ok |-> r.ok, p |-> Point(r.x, y, f25519_one, f25519_mul(r.x, y))]))

point_compress(q) ==
  With(q, LAMBDA p :
    With(Hacl_Curve25519_51_finv(p.z), LAMBDA zinv :
      With2(f25519_normalize(f25519_mul(p.x, zinv)), f25519_normalize(f25519_mul(p.y, zinv)),
            LAMBDA x, out : [out EXCEPT ![F25519_SIZE] = @ + (x[1] % 2) * 128])))

point_equal(p, q) ==
  LET Cross(a, z) == f25519_normalize(f25519_mul(a, z))
  IN Cross(p.x, q.z) = Cross(q.x, p.z) /\ Cross(p.y, q.z) = Cross(q.y, p.z)

point_negate(p) ==
  [p EXCEPT !.x = f25519_sub(f25519_zero, @), !.t = f25519_sub(f25519_zero, @)]
----------------------------------------------------------------------------
(* Multiples of points, by windows of a scalar's bits.                     *)
bn_get_bits(b, i, l) ==
  LET Bit(j) == IF i + j < Bits THEN BitAt(b, i + j) ELSE 0
      from[j \in 0..l] == IF j = l THEN 0 ELSE Bit(j) + 2 * from[j + 1]
  IN from[0]

(* The multiples 0 to n - 1 of q, at the places 1 to n.                    *)
RECURSIVE TableFrom(_, _, _)
TableFrom(q, n, table) ==
  IF Len(table) = n THEN table
  ELSE With(Hacl_Impl_Ed25519_PointDouble_point_double(table[1 + Len(table) \div 2]),
            LAMBDA twice :
              With(table \o <<twice, Hacl_Impl_Ed25519_PointAdd_point_add(q, twice)>>,
                   LAMBDA t : TableFrom(q, n, t)))

Multiples(q, n) == With(q, LAMBDA p : TableFrom(p, n, <<make_point_inf, p>>))

RECURSIVE DoubledTimes(_, _)
DoubledTimes(p, n) ==
  IF n = 0 THEN p
  ELSE With(Hacl_Impl_Ed25519_PointDouble_point_double(p), LAMBDA q : DoubledTimes(q, n - 1))

(* The bits from i on of the scalar, whose table it is, added to p.        *)
PlusWindow(p, table, scalar, i, l) ==
  Hacl_Impl_Ed25519_PointAdd_point_add(p, table[1 + bn_get_bits(scalar, i, l)])

(* The tables of the base point g and of g 2^64, g 2^128, g 2^192.         *)
Word == 2 * F25519_SIZE

RECURSIVE PrecompFrom(_, _)
PrecompFrom(g, n) ==
  IF n = 0 THEN <<>>
  ELSE <<Multiples(g, 16)>> \o With(DoubledTimes(g, Word), LAMBDA h : PrecompFrom(h, n - 1))
precomp_tables == PrecompFrom(ed25519_base, 4)

(* The words w, w - 1, ..., 1 of the scalar, at the same four bits.        *)
RECURSIVE PlusWords(_, _, _, _, _)
PlusWords(p, ts, scalar, i, w) ==
  IF w = 0 THEN p
  ELSE With(PlusWindow(p, ts[w], scalar, (w - 1) * Word + i, 4),
            LAMBDA q : PlusWords(q, ts, scalar, i, w - 1))

(* The words side by side, k bits of each to go.                           *)
RECURSIVE MulG(_, _, _, _)
MulG(out, scalar, ts, k) ==
  IF k = 0 THEN out
  ELSE With(PlusWords(DoubledTimes(out, 4), ts, scalar, k - 4, 4),
            LAMBDA p : MulG(p, scalar, ts, k - 4))

point_mul_g(scalar) ==
  With2(scalar, precomp_tables, LAMBDA n, ts : MulG(make_point_inf, n, ts, Word))

(* Windows of five bits, i bits of both scalars to go.                     *)
RECURSIVE MulDouble(_, _, _, _, _, _)
MulDouble(out, scalar1, scalar2, g, table2, i) ==
  IF i = 0 THEN out
  ELSE With(PlusWindow(PlusWindow(DoubledTimes(out, 5), table2, scalar2, i - 5, 5),
                       g, scalar1, i - 5, 5),
            LAMBDA p : MulDouble(p, scalar1, scalar2, g, table2, i - 5))

point_mul_g_double_vartime(scalar1, scalar2, q2) ==
  LET top == 5 * ((Bits - 1) \div 5)
  IN With2(Multiples(ed25519_base, 32), Multiples(q2, 32), LAMBDA g, table2 :
       With2(scalar1, scalar2, LAMBDA n1, n2 :
         MulDouble(PlusWindow(g[1 + bn_get_bits(n1, top, 5)], table2, n2, top, 5),
                   n1, n2, g, table2, top)))

point_negate_mul_double_g_vartime(scalar1, scalar2, q2) ==
  point_mul_g_double_vartime(scalar1, scalar2, point_negate(q2))
----------------------------------------------------------------------------
(* Numbers mod the order, and what is 2^512 divided by it.                 *)
RealMu == <<27, 19, 44, 10, 163, 229, 156, 237, 167, 41, 99, 8, 93, 33, 6, 33, 235, 255, 255, 255,
            255, 255, 255, 255, 255, 255, 255, 255, 255, 255, 255, 255, 15>>
Mu == Sized(RealMu, <<12, 215, 241, 255, 15>>)

Q == INSTANCE ModOrder WITH Size <- F25519_SIZE, order <- ed25519_order, mu <- Mu
----------------------------------------------------------------------------
(* Signatures, and the functions of driver.h.                              *)
sha512_modq_pre_pre2(prefix, prefix2, len, input) ==
  Q!barrett_reduction(sha512_pre_pre2_msg(prefix, prefix2, len, input))

point_mul_g_compress(s) == point_compress(point_mul_g(s))

secret_expand(secret) == With(Hacl_Hash_SHA2_hash_512(secret), LAMBDA expanded : Clamped(expanded))

Hacl_Ed25519_verify(public_key, msg_len, msg, signature) ==
  With2(point_decompress(public_key), point_decompress(Half(signature, 0)), LAMBDA a, r :
    /\ a.ok
    /\ r.ok
    /\ ~Q!gte_q(Half(signature, 1))
    /\ With(point_negate_mul_double_g_vartime(
              Half(signature, 1),
              sha512_modq_pre_pre2(Half(signature, 0), public_key, msg_len, msg), a.p),
            LAMBDA exp_d : point_equal(exp_d, r.p)))

H_omemoDriverEdSignMod(public_key, s, msg, msg_len) ==
  With(sha512_modq_pre_pre2(Mark, s, msg_len + 2 * F25519_SIZE, msg), LAMBDA rq :
    With(point_mul_g_compress(rq), LAMBDA rs :
      With(sha512_modq_pre_pre2(rs, public_key, msg_len, msg),
           LAMBDA hq : rs \o Q!add_modq(rq, Q!mul_modq(hq, s)))))

H_omemoDriverEdVerify(sig, pub, msg, msgn) == Hacl_Ed25519_verify(pub, msgn, msg, sig)
H_omemoDriverCvPrvToEdPub(sec) == point_mul_g_compress(sec)

(* <<pub, prv>>.                                                           *)
H_omemoDriverEdSeedToPubPrv(seed) ==
  With(Half(secret_expand(seed), 0), LAMBDA a : <<point_mul_g_compress(a), a>>)

H_omemoDriverEdPubToCvPub(e) ==
  With(load_51(e), LAMBDA ey :
    f25519_normalize(f25519_mul(f25519_add(f25519_one, ey),
                                Hacl_Curve25519_51_finv(f25519_sub(f25519_one, ey)))))

H_omemoDriverCvPubToEdPub(m) ==
  With(load_51(m), LAMBDA mx :
    f25519_normalize(f25519_mul(f25519_sub(mx, f25519_one),
                                Hacl_Curve25519_51_finv(f25519_add(mx, f25519_one)))))

H_omemoDriverCvPrvToPub(prv) == Hacl_Curve25519_51_scalarmult(prv, c25519_base_x)

H_omemoDriverX25519(prv, pub) ==
  With(Hacl_Curve25519_51_scalarmult(prv, pub),
       LAMBDA out : [ok |-> \E i \in 1..F25519_SIZE : out[i] # 0, out |-> out])
=============================================================================
