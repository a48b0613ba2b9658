----------------------------- MODULE Field25519 -----------------------------
(***************************************************************************)
(* The arithmetic of c25519.c: f25519, the field mod 2^255 - 19, and       *)
(* fprime, the integers mod the order of the base point.  An element is a  *)
(* little-endian sequence of bytes, as in the code; only their number is a *)
(* parameter, so that the field is the one mod 2^(8 * F25519_SIZE - 1) -   *)
(* 19.  The arithmetic on bytes, their carries and their constants are     *)
(* those of the code.                                                      *)
(***************************************************************************)
EXTENDS Once

CONSTANT F25519_SIZE  \* 32 in the code

ASSUME SizeAssumption == F25519_SIZE \in {4, 32}

BitAt(x, i) == (x[1 + i \div 8] \div 2 ^ (i % 8)) % 2

(* The bytes of a small number.                                            *)
f25519_load(c) ==
  Listed(F25519_SIZE, LAMBDA i : IF i > 4 THEN 0 ELSE (c \div 256^(i - 1)) % 256)
f25519_zero == f25519_load(0)
f25519_one == f25519_load(1)

(* A sum kept in columns, carried into bytes from the first on: "c" is     *)
(* what is carried in, and in the result what is carried out.              *)
RECURSIVE Carried(_, _, _)
Carried(columns, c, r) ==
  IF Len(r) = Len(columns) THEN [r |-> r, c |-> c]
  ELSE With(c + columns[Len(r) + 1],
            LAMBDA v : Carried(columns, v \div 256, Append(r, v % 256)))

Carry(columns, c) == Carried(columns, c, <<>>)

(* The product of two numbers of any length, and the difference in n bytes *)
(* with what is carried out, which is negative for a borrow.               *)
Product(x, y) ==
  With2(x, y, LAMBDA a, b :
    LET Term(i, j) == IF i - j \in 0 .. Len(b) - 1 THEN a[j] * b[i + 1 - j] ELSE 0
        ColumnOf(i) == LET upto[j \in 0..Len(a)] == IF j = 0 THEN 0 ELSE upto[j - 1] + Term(i, j)
                     IN upto[Len(a)]
    IN Carry([i \in 1 .. Len(a) + Len(b) |-> ColumnOf(i)], 0).r)

Minus(x, y, n) == With2(x, y, LAMBDA a, b : Carry([i \in 1..n |-> a[i] - b[i]], 0))

Columns(F(_)) == [i \in 1..F25519_SIZE |-> F(i)]

(* The columns carried, then reduced once: 2^255 is 19.                    *)
Reduced(columns, c) ==
  With(Carry(columns, c),
       LAMBDA x : Carry([x.r EXCEPT ![F25519_SIZE] = @ % 128],
                        (2 * x.c + x.r[F25519_SIZE] \div 128) * 19).r)

f25519_select(zero, one, condition) == IF condition THEN one ELSE zero

(* x - p when that is not negative.                                        *)
f25519_normalize(x) ==
  With(Carry([x EXCEPT ![F25519_SIZE] = @ % 128], (x[F25519_SIZE] \div 128) * 19).r,
       LAMBDA y : With(Carry([y EXCEPT ![F25519_SIZE] = @ - 128], 19),
                       LAMBDA minusp : f25519_select(minusp.r, y, minusp.c < 0)))

f25519_eq(x, y) == x = y

f25519_add(r, s) == With2(r, s, LAMBDA a, b : Reduced(Columns(LAMBDA i : a[i] + b[i]), 0))

(* a + 2p - b, so that no byte is negative.                                *)
TwoP(i) == IF i < F25519_SIZE THEN 65280 ELSE 0
Faulty_f25519_sub(r, s) ==
  With2(r, s, LAMBDA a, b : Reduced(Columns(LAMBDA i : TwoP(i) + a[i] - b[i]), 256))

f25519_sub(r, s) ==
  With2(r, s, LAMBDA a, b : Reduced(Columns(LAMBDA i : TwoP(i) + a[i] - b[i]), 218))

f25519_neg(r) == With(r, LAMBDA a : Reduced(Columns(LAMBDA i : TwoP(i) - a[i]), 218))

(* Column i of a product: what lies 2^256 higher counts 38 times.          *)
ProductColumn(a, b, i) ==
  LET Term(j) == IF j <= i THEN a[j] * b[i + 1 - j]
                           ELSE a[j] * b[i + 1 + F25519_SIZE - j] * 38
      upto[j \in 0..F25519_SIZE] == IF j = 0 THEN 0 ELSE upto[j - 1] + Term(j)
  IN upto[F25519_SIZE]

f25519_mul(r, s) ==
  With2(r, s, LAMBDA a, b : Reduced(Columns(LAMBDA i : ProductColumn(a, b, i)), 0))

f25519_mul_c(r, b) == With(r, LAMBDA a : Reduced(Columns(LAMBDA i : b * a[i]), 0))

Square(x) == With(x, LAMBDA y : f25519_mul(y, y))

(* r^2 x, n times over: n binary digits 1 of an exponent.                  *)
RECURSIVE Ones(_, _, _)
Ones(r, x, n) ==
  IF n = 1 THEN f25519_mul(Square(r), x)
  ELSE With(Ones(r, x, n \div 2), LAMBDA half : Ones(half, x, n - n \div 2))

(* x^(p - 2): the digits of p - 2 are ones, then 01011.                    *)
f25519_inv(e) ==
  With(e, LAMBDA x :
    LET ones == Ones(x, x, 8 * F25519_SIZE - 7)
        ones01 == f25519_mul(Square(Square(ones)), x)
    IN Ones(Square(ones01), x, 2))

(* x^((p - 5) / 8): ones, then 01.                                         *)
exp2523(e) ==
  With(e, LAMBDA x : f25519_mul(Square(Square(Ones(x, x, 8 * F25519_SIZE - 7))), x))

(* A root of a, if it has one: with v = (2a)^((p - 5) / 8), a v (2av^2 - 1).*)
f25519_sqrt(e) ==
  With(e, LAMBDA a :
    With2(f25519_mul_c(a, 2), exp2523(f25519_mul_c(a, 2)), LAMBDA x, v :
      f25519_mul(f25519_mul(v, a),
                 f25519_sub(f25519_mul(x, Square(v)), f25519_load(1)))))

----------------------------------------------------------------------------
(* fprime: numbers below a modulus, of FPRIME_SIZE = F25519_SIZE bytes.    *)
raw_add(x, p) == With2(x, p, LAMBDA a, b : Carry([i \in 1..F25519_SIZE |-> a[i] + b[i]], 0).r)

raw_try_sub(x, p) ==
  With2(x, p, LAMBDA a, b :
    With(Minus(a, b, F25519_SIZE), LAMBDA minusp : IF minusp.c < 0 THEN a ELSE minusp.r))

(* The place of the highest bit.                                           *)
prime_msb(p) ==
  CHOOSE i \in 0 .. 8 * F25519_SIZE - 1 :
    BitAt(p, i) = 1 /\ \A j \in i + 1 .. 8 * F25519_SIZE - 1 : BitAt(p, j) = 0

shift_n_bits(x, n) == With(x, LAMBDA a : Carry([i \in 1..F25519_SIZE |-> a[i] * 2 ^ n], 0).r)

Or1(x, bit) == [x EXCEPT ![1] = @ + bit]  \* of a number that is even

(* The bits i - 1 to j of x shifted in one by one, n reduced each time.    *)
RECURSIVE ShiftedIn(_, _, _, _, _)
ShiftedIn(n, x, i, j, modulus) ==
  IF i = j THEN n
  ELSE IF i = j + 1 THEN raw_try_sub(Or1(shift_n_bits(n, 1), BitAt(x, j)), modulus)
  ELSE With(ShiftedIn(n, x, i, (i + j) \div 2, modulus),
            LAMBDA half : ShiftedIn(half, x, (i + j) \div 2, j, modulus))

(* Any number of bytes mod the modulus: as many of the highest bits as     *)
(* cannot reach it are loaded at once, bytes first and then single bits.   *)
fprime_from_bytes(x, modulus) ==
  LET len == Len(x)
      msb == prime_msb(modulus)
      preload_total == IF msb - 1 < 8 * len THEN msb - 1 ELSE 8 * len
      preload_bytes == preload_total \div 8
      preload_bits == preload_total % 8
      bytes == [i \in 1..F25519_SIZE |->
                  IF i <= preload_bytes THEN x[len - preload_bytes + i] ELSE 0]
      first == IF preload_bits = 0 THEN bytes
               ELSE Or1(shift_n_bits(bytes, preload_bits),
                        x[len - preload_bytes] \div 2 ^ (8 - preload_bits))
  IN With(first, LAMBDA n : ShiftedIn(n, x, 8 * len - preload_total, 0, modulus))

fprime_add(r, a, modulus) == raw_try_sub(raw_add(r, a), modulus)

(* r doubled, and a added where b has a bit, for the bits i - 1 down to j. *)
RECURSIVE DoubledAndAdded(_, _, _, _, _, _)
DoubledAndAdded(r, a, b, i, j, modulus) ==
  IF i = j + 1
  THEN With(raw_try_sub(shift_n_bits(r, 1), modulus),
            LAMBDA s : IF BitAt(b, j) = 1 THEN fprime_add(s, a, modulus) ELSE s)
  ELSE With(DoubledAndAdded(r, a, b, i, (i + j) \div 2, modulus),
            LAMBDA half : DoubledAndAdded(half, a, b, (i + j) \div 2, j, modulus))

fprime_mul(a, b, modulus) ==
  With2(a, b, LAMBDA c, d : DoubledAndAdded(f25519_load(0), c, d, prime_msb(modulus) + 1, 0, modulus))
=============================================================================
