------------------------------- MODULE Sha512 -------------------------------
(***************************************************************************)
(* SHA-512 twice: the one of c25519.c, which is handed whole blocks and a  *)
(* last part, and the one of hacl.c, which buffers what it is given.  The  *)
(* words have WordBytes bytes in place of 8, the constants are cut to      *)
(* their highest bytes, and a rotation is taken mod the width; blocks have *)
(* 16 words and the hash 8, and there are 80 rounds.                       *)
(***************************************************************************)
EXTENDS Once

CONSTANT WordBytes

ASSUME WordBytesAssumption == WordBytes \in {1, 2}

Width == 8 * WordBytes
SHA512_BLOCK_SIZE == 16 * WordBytes
SHA512_HASH_SIZE == 8 * WordBytes

(* The bytes from, from + 1, ... of s, counted from 0 as in C.             *)
Bytes(s, from, n) == SubSeq(s, from + 1, from + n)
Zeros(n) == Listed(n, LAMBDA i : 0)

Cut(n) == n \div (2 ^ (16 - Width))

sha512_initial_state ==
  <<Cut(27145), Cut(47975), Cut(15470), Cut(42319), Cut(20750), Cut(39685), Cut(8067), Cut(23520)>>

round_k ==
  <<17034, 28983, 46528, 59829, 14678, 23025, 37439, 43804, 55303, 4739,
    9265, 21772, 29374, 32990, 39900, 49563, 58523, 61374, 4033, 9228,
    11753, 19060, 23728, 30457, 38974, 43057, 45059, 48985, 50912, 54695,
    1738, 5161, 10167, 11803, 19756, 21304, 25866, 30314, 33218, 37490,
    41663, 43034, 49739, 51052, 53650, 54937, 62478, 4202, 6564, 7735,
    10056, 13488, 14620, 20184, 23452, 26670, 29839, 30885, 33992, 36039,
    37054, 42064, 48889, 50801, 51751, 53638, 60122, 62845, 1776, 2659,
    4415, 7025, 10459, 13002, 15518, 17181, 19653, 22911, 24523, 27716>>

(* Bitwise operations on words, by the tables of those on bytes.           *)
Column(a, b, i) == ((a \div 2 ^ i) % 2) + ((b \div 2 ^ i) % 2)
XorTable ==
  [a \in 1..256 |-> [b \in 1..256 |->
     LET from[i \in 0..8] == IF i = 8 THEN 0 ELSE 2 * from[i + 1] + (Column(a - 1, b - 1, i) % 2)
     IN from[0]] \o <<>>] \o <<>>
AndTable ==
  [a \in 1..256 |-> [b \in 1..256 |->
     LET from[i \in 0..8] == IF i = 8 THEN 0 ELSE 2 * from[i + 1] + (Column(a - 1, b - 1, i) \div 2)
     IN from[0]] \o <<>>] \o <<>>

ByTable(table, x, y) ==
  CHOOSE z \in {256 * table[1 + (a \div 256)][1 + (b \div 256)] + table[1 + (a % 256)][1 + (b % 256)] :
                   a \in {x}, b \in {y}} : TRUE

Xored(x, y) == ByTable(XorTable, x, y)
Anded(x, y) == ByTable(AndTable, x, y)
Negated(x) == 2 ^ Width - 1 - x
Plus(x, y) == (x + y) % (2 ^ Width)

(* (x << l) | (x >> r), where l and r add up to the width.                 *)
Turned(x, l, r) == With(x, LAMBDA a : ((a % (2 ^ (r % Width))) * 2 ^ (l % Width)) + (a \div (2 ^ (r % Width))))
Shifted(x, r) == x \div (2 ^ (r % Width))

(* Words from and to bytes, the highest byte first.                        *)
load64(x, i) == IF WordBytes = 1 THEN x[i] ELSE 256 * x[2 * i - 1] + x[2 * i]
store64(v) == IF WordBytes = 1 THEN <<v>> ELSE <<v \div 256, v % 256>>

Loaded(blk) == With(blk, LAMBDA x : Listed(16, LAMBDA i : load64(x, i)))

RECURSIVE Stored(_, _)
Stored(h, bytes) ==
  IF Len(bytes) = SHA512_HASH_SIZE THEN bytes
  ELSE With(bytes \o store64(h[1 + Len(bytes) \div WordBytes]), LAMBDA b : Stored(h, b))

Added(h, v) == With2(h, v, LAMBDA a, b : Listed(8, LAMBDA i : Plus(a[i], b[i])))
----------------------------------------------------------------------------
(* c25519.c.                                                               *)
rot64(x, bits) == Turned(x, Width - (bits % Width), bits)

(* One round of v = <<a, ..., h>> with the word wi and the constant k.     *)
Round(v, k, wi) ==
  LET S0 == Xored(Xored(rot64(v[1], 28), rot64(v[1], 34)), rot64(v[1], 39))
      S1 == Xored(Xored(rot64(v[5], 14), rot64(v[5], 18)), rot64(v[5], 41))
      ch == Xored(Anded(v[5], v[6]), Anded(Negated(v[5]), v[7]))
      maj == Xored(Xored(Anded(v[1], v[2]), Anded(v[1], v[3])), Anded(v[2], v[3]))
  IN With((v[8] + S1 + ch + k + wi) % (2 ^ Width), LAMBDA temp1 :
       <<Plus(temp1, S0 + maj), v[1], v[2], v[3], Plus(v[4], temp1), v[5], v[6], v[7]>>)

(* w[i + 16], which takes the place of w[i].                               *)
NextWord(w, i) ==
  LET W(j) == w[1 + ((i + j) % 16)]
      s0 == Xored(Xored(rot64(W(1), 1), rot64(W(1), 8)), Shifted(W(1), 7))
      s1 == Xored(Xored(rot64(W(14), 19), rot64(W(14), 61)), Shifted(W(14), 6))
  IN (W(0) + s0 + W(9) + s1) % (2 ^ Width)

(* The rounds from i to j - 1, in halves; r is <<v, w>>.                   *)
RECURSIVE Rounds(_, _, _)
Rounds(r, i, j) ==
  IF j = i + 1
  THEN <<Round(r[1], Cut(round_k[j]), r[2][1 + (i % 16)]),
         [r[2] EXCEPT ![1 + (i % 16)] = NextWord(r[2], i)]>>
  ELSE With(Rounds(r, i, (i + j) \div 2), LAMBDA half : Rounds(half, (i + j) \div 2, j))

sha512_block(s, blk) ==
  With2(s, Loaded(blk), LAMBDA h, w : Added(h, Rounds(<<h, w>>, 0, 80)[1]))

Faulty_sha512_final(s, blk, total_size) ==
  LET last_size == total_size % SHA512_BLOCK_SIZE
      temp == Bytes(blk, 0, last_size) \o <<128>>
      size == store64((total_size * 8) % (2 ^ Width))
      Filled(n) == Zeros(SHA512_BLOCK_SIZE - n)
  IN IF last_size > SHA512_BLOCK_SIZE - WordBytes - 1
     THEN With(sha512_block(s, temp \o Filled(last_size + 1)),
               LAMBDA t : sha512_block(t, Filled(WordBytes) \o size))
     ELSE sha512_block(s, temp \o Filled(last_size + 1 + WordBytes) \o size)

(* The last part of total_size bytes: what does not fill a block, 16#80#,  *)
(* zeros, and the number of bits, in a block more when it does not fit.    *)
(* The size is taken to fit in a word.                                     *)
sha512_final(s, blk, total_size) ==
  LET last_size == total_size % SHA512_BLOCK_SIZE
      temp == Bytes(blk, 0, last_size) \o <<128>>
      size == store64((total_size * 8) % (2 ^ Width))
      Filled(n) == Zeros(SHA512_BLOCK_SIZE - n)
  IN IF last_size > SHA512_BLOCK_SIZE - 2 * WordBytes - 1
     THEN With(sha512_block(s, temp \o Filled(last_size + 1)),
               LAMBDA t : sha512_block(t, Filled(WordBytes) \o size))
     ELSE sha512_block(s, temp \o Filled(last_size + 1 + WordBytes) \o size)

sha512_get(s, offset, len) == Bytes(Stored(s, <<>>), offset, len)

(* The whole blocks of the message from i on, and then its end.            *)
RECURSIVE AbsorbFrom(_, _, _, _, _)
AbsorbFrom(s, message, i, len, total_size) ==
  IF i + SHA512_BLOCK_SIZE <= len
  THEN With(sha512_block(s, Bytes(message, i, SHA512_BLOCK_SIZE)),
            LAMBDA t : AbsorbFrom(t, message, i + SHA512_BLOCK_SIZE, len, total_size))
  ELSE sha512_final(s, Bytes(message, i, len - i), total_size)

(* The hash of hash_with_prefix, before it is reduced: a prefix shorter    *)
(* than a block and the first len bytes of the message.                    *)
HashWithPrefix(prefix, message, len) ==
  LET prefix_size == Len(prefix)
      first == SHA512_BLOCK_SIZE - prefix_size
      s == IF len < SHA512_BLOCK_SIZE /\ len + prefix_size < SHA512_BLOCK_SIZE
           THEN sha512_final(sha512_initial_state, prefix \o Bytes(message, 0, len),
                             len + prefix_size)
           ELSE AbsorbFrom(sha512_block(sha512_initial_state,
                                        prefix \o Bytes(message, 0, first)),
                           message, first, len, len + prefix_size)
  IN With(s, LAMBDA t : sha512_get(t, 0, SHA512_HASH_SIZE))
----------------------------------------------------------------------------
(* hacl.c.                                                                 *)
Hacl_Hash_SHA2_sha512_init == sha512_initial_state

RoundHacl(hash, k_t, ws_t) ==
  LET a0 == hash[1]
      b0 == hash[2]
      c0 == hash[3]
      e0 == hash[5]
      t2 == Xored(Turned(a0, 36, 28), Xored(Turned(a0, 30, 34), Turned(a0, 25, 39)))
              + Xored(Anded(a0, b0), Xored(Anded(a0, c0), Anded(b0, c0)))
  IN With((hash[8] + Xored(Turned(e0, 50, 14), Xored(Turned(e0, 46, 18), Turned(e0, 23, 41)))
             + Xored(Anded(e0, hash[6]), Anded(Negated(e0), hash[7])) + k_t + ws_t) % (2 ^ Width),
          LAMBDA t1 : <<Plus(t1, t2), a0, b0, c0, Plus(hash[4], t1), e0, hash[6], hash[7]>>)

RECURSIVE Rounds16(_, _, _, _, _)
Rounds16(hash, ws, i0, i, j) ==
  IF j = i + 1 THEN RoundHacl(hash, Cut(round_k[16 * i0 + j]), ws[j])
  ELSE With(Rounds16(hash, ws, i0, i, (i + j) \div 2),
            LAMBDA half : Rounds16(half, ws, i0, (i + j) \div 2, j))

(* The 16 words after these, each in the place of the one 16 before it.    *)
RECURSIVE NextWords(_, _, _)
NextWords(ws, i, j) ==
  IF j = i + 1
  THEN LET t15 == ws[1 + ((i + 1) % 16)]
           t7 == ws[1 + ((i + 9) % 16)]
           t2 == ws[1 + ((i + 14) % 16)]
           s1 == Xored(Turned(t2, 45, 19), Xored(Turned(t2, 3, 61), Shifted(t2, 6)))
           s0 == Xored(Turned(t15, 63, 1), Xored(Turned(t15, 56, 8), Shifted(t15, 7)))
       IN [ws EXCEPT ![j] = (s1 + t7 + s0 + @) % (2 ^ Width)]
  ELSE With(NextWords(ws, i, (i + j) \div 2), LAMBDA half : NextWords(half, (i + j) \div 2, j))

RECURSIVE FiveTimes(_, _, _)
FiveTimes(hash, ws, i0) ==
  IF i0 = 5 THEN hash
  ELSE With2(Rounds16(hash, ws, i0, 0, 16), IF i0 < 4 THEN NextWords(ws, 0, 16) ELSE ws,
             LAMBDA h, w : FiveTimes(h, w, i0 + 1))

sha512_update(b, hash) ==
  With2(hash, Loaded(b), LAMBDA h, w : Added(FiveTimes(h, w, 0), h))

RECURSIVE Hacl_Hash_SHA2_sha512_update_nblocks(_, _, _)
Hacl_Hash_SHA2_sha512_update_nblocks(len, b, st) ==
  IF len < SHA512_BLOCK_SIZE THEN st
  ELSE With2(sha512_update(Bytes(b, 0, SHA512_BLOCK_SIZE), st),
             Bytes(b, SHA512_BLOCK_SIZE, len - SHA512_BLOCK_SIZE),
             LAMBDA s, rest :
               Hacl_Hash_SHA2_sha512_update_nblocks(len - SHA512_BLOCK_SIZE, rest, s))

(* The number of bits takes two words here.                                *)
Hacl_Hash_SHA2_sha512_update_last(totlen, len, b, hash) ==
  LET blocks == IF len + 2 * WordBytes + 1 <= SHA512_BLOCK_SIZE THEN 1 ELSE 2
      totlen_buf == store64((totlen * 8) \div (2 ^ Width)) \o store64((totlen * 8) % (2 ^ Width))
      last == Bytes(b, 0, len) \o <<128>>
                \o Zeros(blocks * SHA512_BLOCK_SIZE - 2 * WordBytes - len - 1) \o totlen_buf
  IN Hacl_Hash_SHA2_sha512_update_nblocks(Len(last), last, hash)

Hacl_Hash_SHA2_sha512_finish(st) == Stored(st, <<>>)

Streaming == [block_state |-> Hacl_Hash_SHA2_sha512_init, buf |-> Zeros(SHA512_BLOCK_SIZE),
              total_len |-> 0]

(* How much of the buffer is in use: it is emptied only when more comes.   *)
InUse(total_len) ==
  IF total_len % SHA512_BLOCK_SIZE = 0 /\ total_len > 0 THEN SHA512_BLOCK_SIZE
  ELSE total_len % SHA512_BLOCK_SIZE

Overwritten(buf, at, data) ==
  Bytes(buf, 0, at) \o data \o Bytes(buf, at + Len(data), Len(buf) - at - Len(data))

(* A buffer that is full, or empty, and a chunk: its whole blocks but for  *)
(* the last are hashed, and the rest is kept.                              *)
Refilled(s, chunk) ==
  LET block_state1 == IF InUse(s.total_len) = 0 THEN s.block_state
                      ELSE Hacl_Hash_SHA2_sha512_update_nblocks(SHA512_BLOCK_SIZE, s.buf,
                                                                s.block_state)
      data1_len == Len(chunk) - InUse(Len(chunk))
      data2 == Bytes(chunk, data1_len, Len(chunk) - data1_len)
  IN [block_state |-> Hacl_Hash_SHA2_sha512_update_nblocks(data1_len, chunk, block_state1),
      buf |-> Overwritten(s.buf, 0, data2),
      total_len |-> s.total_len + Len(chunk)]

update_384_512(state, chunk) ==
  With2(state, chunk, LAMBDA s, c :
    LET sz == InUse(s.total_len)
        diff == SHA512_BLOCK_SIZE - sz
        Kept(data) == [s EXCEPT !.buf = Overwritten(@, sz, data), !.total_len = @ + Len(data)]
    IN IF Len(c) <= diff THEN Kept(c)
       ELSE IF sz = 0 THEN Refilled(s, c)
       ELSE With(Kept(Bytes(c, 0, diff)),
                 LAMBDA full : Refilled(full, Bytes(c, diff, Len(c) - diff))))

Hacl_Hash_SHA2_digest_512(state) ==
  With(state, LAMBDA s :
    Hacl_Hash_SHA2_sha512_finish(
      Hacl_Hash_SHA2_sha512_update_last(s.total_len, InUse(s.total_len), s.buf, s.block_state)))

sha512_pre_pre2_msg(prefix, prefix2, len, input) ==
  Hacl_Hash_SHA2_digest_512(
    update_384_512(update_384_512(update_384_512(Streaming, prefix), prefix2),
                   Bytes(input, 0, len)))

Hacl_Hash_SHA2_hash_512(input) ==
  With(input, LAMBDA ib :
    LET rem == Len(ib) % SHA512_BLOCK_SIZE
    IN Hacl_Hash_SHA2_sha512_finish(
         Hacl_Hash_SHA2_sha512_update_last(Len(ib), rem, Bytes(ib, Len(ib) - rem, rem),
           Hacl_Hash_SHA2_sha512_update_nblocks(Len(ib), ib, Hacl_Hash_SHA2_sha512_init))))
=============================================================================
