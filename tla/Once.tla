-------------------------------- MODULE Once --------------------------------
(***************************************************************************)
(* Values that are computed once and then used several times, as the       *)
(* locals of a C function are: LET and the parameters of operators name    *)
(* expressions, a bound variable names a value.                            *)
(***************************************************************************)
EXTENDS Integers, Sequences

With(x, Op(_)) == CHOOSE y \in {Op(v) : v \in {x}} : TRUE
With2(x, y, Op(_, _)) == CHOOSE z \in {Op(u, v) : u \in {x}, v \in {y}} : TRUE
With3(x, y, z, Op(_, _, _)) ==
  CHOOSE r \in {Op(u, v, w) : u \in {x}, v \in {y}, w \in {z}} : TRUE

(* The n values F(1) ... F(n), computed.                                   *)
Listed(n, F(_)) == [i \in 1..n |-> F(i)] \o <<>>
=============================================================================
