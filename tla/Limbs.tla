------------------------------- MODULE Limbs --------------------------------
(***************************************************************************)
(* The field elements of hacl.c as they are: five limbs of 51 bits, each   *)
(* in a word of 64, the limbs not reduced after every operation.  A word   *)
(* is its eight bytes, and a 128-bit sum of products sixteen, so that the  *)
(* arithmetic is the one of the code at its real size; the values are      *)
(* taken mod p by c25519.c's field.                                        *)
(***************************************************************************)
EXTENDS Once

P == INSTANCE Field25519 WITH F25519_SIZE <- 32

Pad(x, n) == Listed(n, LAMBDA i : IF i <= Len(x) THEN x[i] ELSE 0)
Word64(low, others, high) == <<low>> \o Listed(5, LAMBDA i : others) \o <<high, 0>>

(* Sums, and products with a small number, of words.                       *)
Added(x, y) == With2(x, y, LAMBDA a, b : P!Carry([i \in 1..Len(a) |-> a[i] + b[i]], 0).r)
Times(n, x) == With(x, LAMBDA a : P!Carry([i \in 1..8 |-> n * a[i]], 0).r)

Low51(x) == Listed(8, LAMBDA i : IF i < 7 THEN x[i] ELSE IF i = 7 THEN x[7] % 8 ELSE 0)
Shifted51(x) ==
  LET At(i) == IF i <= Len(x) THEN x[i] ELSE 0
  IN Listed(8, LAMBDA i : At(i + 6) \div 8 + (At(i + 7) % 8) * 32)

(* x[1] y[1] + ... + x[n] y[n] in 128 bits.                                *)
Dot(xs, ys) ==
  With2(xs, ys, LAMBDA u, v :
    LET Term(j, k, i) == IF i + 1 - k \in 1..8 THEN u[j][k] * v[j][i + 1 - k] ELSE 0
        Sum(i) == LET upto[m \in 0 .. 8 * Len(u)] ==
                        IF m = 0 THEN 0
                        ELSE upto[m - 1] + Term(1 + (m - 1) \div 8, 1 + ((m - 1) % 8), i)
                  IN upto[8 * Len(u)]
    IN P!Carry([i \in 1..16 |-> Sum(i)], 0).r)

(* Five sums carried into limbs, from the first on.                        *)
RECURSIVE Pass(_, _, _)
Pass(ws, c, limbs) ==
  IF Len(limbs) = 5 THEN [limbs |-> limbs, c |-> c]
  ELSE With(Added(ws[Len(limbs) + 1], Pad(c, Len(ws[Len(limbs) + 1]))),
            LAMBDA v : Pass(ws, Shifted51(v), Append(limbs, Low51(v))))

(* What is carried out of the last counts 19 times in the first.           *)
Carried(ws) ==
  With(Pass(ws, Pad(<<>>, 8), <<>>), LAMBDA p :
    With(Added(p.limbs[1], Times(19, p.c)), LAMBDA l :
      [p.limbs EXCEPT ![1] = Low51(l), ![2] = Added(@, Shifted51(l))]))

Hacl_Impl_Curve25519_Field51_fadd(f, g) ==
  With2(f, g, LAMBDA a, b : Listed(5, LAMBDA i : Added(a[i], b[i])))

(* f + 8p - g.                                                             *)
EightP(i) == IF i = 1 THEN Word64(104, 255, 63) ELSE Word64(248, 255, 63)
Hacl_Impl_Curve25519_Field51_fsub(f, g) ==
  With2(f, g, LAMBDA a, b :
    Listed(5, LAMBDA i : P!Minus(Added(a[i], EightP(i)), b[i], 8).r))

Hacl_Impl_Curve25519_Field51_fmul(f, g) ==
  With3(f, g, Listed(5, LAMBDA j : Times(19, g[j])), LAMBDA f1, f2, tmp :
    Carried(Listed(5, LAMBDA i :
      Dot(f1, Listed(5, LAMBDA j : IF j <= i THEN f2[i + 1 - j] ELSE tmp[i + 6 - j])))))

(* On pairs of elements.                                                   *)
Hacl_Impl_Curve25519_Field51_fmul2(f, g) ==
  <<Hacl_Impl_Curve25519_Field51_fmul(f[1], g[1]), Hacl_Impl_Curve25519_Field51_fmul(f[2], g[2])>>

Hacl_Impl_Curve25519_Field51_fmul1(f, n) ==
  With(f, LAMBDA a : Carried(Listed(5, LAMBDA i : Dot(<<n>>, <<a[i]>>))))

(* Every product of two different limbs once, doubled.                     *)
Hacl_Impl_Curve25519_Field51_fsqr(f0) ==
  With3(f0, Times(38, f0[3]),
        <<Times(2, f0[1]), Times(2, f0[2]), Times(19, f0[4]), Times(19, f0[5])>>,
        LAMBDA f, d2, d :
          With(Times(2, d[4]), LAMBDA d4 :
            Carried(<<Dot(<<f[1], d4, d2>>, <<f[1], f[2], f[4]>>),
                      Dot(<<d[1], d4, d[3]>>, <<f[2], f[3], f[4]>>),
                      Dot(<<d[1], f[2], d4>>, <<f[3], f[2], f[4]>>),
                      Dot(<<d[1], d[2], f[5]>>, <<f[4], f[3], d[4]>>),
                      Dot(<<d[1], d[2], f[3]>>, <<f[5], f[4], f[3]>>)>>)))

Hacl_Impl_Curve25519_Field51_fsqr2(f) ==
  <<Hacl_Impl_Curve25519_Field51_fsqr(f[1]), Hacl_Impl_Curve25519_Field51_fsqr(f[2])>>

Hacl_Bignum25519_reduce_513(a) == With(a, LAMBDA f : Carried(f))

(* Carried once, and p taken away if that leaves p or more.                *)
reduce(out) ==
  With(Hacl_Bignum25519_reduce_513(out), LAMBDA f :
    IF f[1] \in {Word64(l, 255, 7) : l \in 237..255} /\ \A i \in 2..5 : f[i] = Word64(255, 255, 7)
    THEN <<P!Minus(f[1], Word64(237, 255, 7), 8).r>> \o Listed(4, LAMBDA i : Word64(0, 0, 0))
    ELSE f)

(* Bits are gathered into bytes.                                           *)
ByteOf(k, Bit(_)) ==
  LET from[b \in 0..8] == IF b = 8 THEN 0 ELSE Bit(8 * k + b) + 2 * from[b + 1]
  IN from[0]

(* From and to the 32 bytes of a number, the highest bit of which is lost. *)
Hacl_Bignum25519_load_51(input) ==
  With(input, LAMBDA s :
    Listed(5, LAMBDA i :
      Listed(8, LAMBDA k :
        ByteOf(k - 1, LAMBDA b : IF b < 51 THEN P!BitAt(s, 51 * (i - 1) + b) ELSE 0))))

Hacl_Bignum25519_store_51(input) ==
  With(reduce(input), LAMBDA f :
    Listed(32, LAMBDA k :
      ByteOf(k - 1, LAMBDA b : IF b < 255 THEN P!BitAt(f[1 + b \div 51], b % 51) ELSE 0)))
----------------------------------------------------------------------------
(* The chains of squarings and multiplications, over what Squared n times  *)
(* and multiplied may mean.                                                *)
finv(i, Squared(_, _), Mul(_, _)) ==
  LET a == Squared(i, 1)
      b == Mul(Squared(a, 2), i)
      a1 == Mul(b, a)
      b1 == Mul(Squared(a1, 1), b)
      b10 == Mul(Squared(b1, 5), b1)
      c10 == Mul(Squared(b10, 10), b10)
      b11 == Mul(Squared(Mul(Squared(c10, 20), c10), 10), b10)
      c1 == Mul(Squared(b11, 50), b11)
      t01 == Mul(Squared(Mul(Squared(c1, 100), c1), 50), b11)
  IN Mul(Squared(t01, 5), a1)

chain252(z, Squared(_, _), Mul(_, _)) ==
  LET a == Squared(z, 1)
      b0 == Mul(Squared(a, 2), z)
      a1 == Mul(b0, a)
      b1 == Mul(Squared(a1, 1), b0)
      b5 == Mul(Squared(b1, 5), b1)
      c0 == Mul(Squared(b5, 10), b5)
      b == Mul(Squared(Mul(Squared(c0, 20), c0), 10), b5)
      c == Mul(Squared(b, 50), b)
      t0 == Mul(Squared(Mul(Squared(c, 100), c), 50), b)
  IN Mul(Squared(t0, 2), Squared(z, 1))
=============================================================================
