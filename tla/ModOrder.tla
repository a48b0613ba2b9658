------------------------------ MODULE ModOrder ------------------------------
(***************************************************************************)
(* The numbers mod the order of the base point in hacl.c, as bytes: five   *)
(* limbs of seven bytes in the code.                                       *)
(***************************************************************************)
EXTENDS Once

CONSTANTS
  Size,   \* bytes of a number
  order,  \* the order
  mu      \* 2^(16 Size) divided by it

F == INSTANCE Field25519 WITH F25519_SIZE <- Size

From(s, at, n) == SubSeq(s, at + 1, at + n)

(* s mod the order, for s below twice the order.                           *)
Faulty_LessOrder(s) == s

LessOrder(s) ==
  With(s, LAMBDA a :
    With(F!Minus(a, order \o <<0>>, Size + 1), LAMBDA t : IF t.c < 0 THEN a ELSE t.r))

(* The quotient is found from the highest bytes and is at most one short.  *)
barrett_reduction(t0) ==
  With(t0, LAMBDA t :
    LET q == From(F!Product(From(t, Size - 1, Size + 1), mu), Size + 1, Size + 1)
        qmul == From(F!Product(q, order), 0, Size + 1)
    IN From(LessOrder(F!Minus(t, qmul, Size + 1).r), 0, Size))

mul_modq(x, y) == barrett_reduction(F!Product(x, y))

add_modq(x, y) ==
  With2(x, y, LAMBDA a, b :
    From(LessOrder(F!Carry([i \in 1 .. Size + 1 |-> IF i > Size THEN 0 ELSE a[i] + b[i]], 0).r),
         0, Size))

gte_q(s) == F!Minus(s, order, Size).c >= 0
=============================================================================
