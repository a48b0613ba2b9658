CONSTANTS
  F25519_SIZE = 4
  WordBytes = 1
  Samples = {1, 2, 3}
  Scalars = {0, 1, 2, 3}
  Encodings = {0, 1, 2, 6, 7, 123456789, 268435456, 987654321, 1073741824, 1999999999,
               2147483618, 2147483627, 2147483628, 2147483629, 2147483630, 2147483631,
               2147483635, 2147483644, 2147483646, 2147483647,
               1059243714, 111722533, 17806783, 1879789024}
  Limbs51 = {0, 1, 2, 3, 4, 5}
  MsgMax = 20
  KeyLen = 5
SPECIFICATION Spec
INVARIANTS
  SecretsAgree
  KeyVerifies
  HashesAgree
  EncodingsAgree
  NumbersAgree
CHECK_DEADLOCK FALSE
