------------------------------- MODULE Ed25519 -------------------------------
(***************************************************************************)
(* The Ed25519 signatures of peer.py: the twisted Edwards curve            *)
(* -x^2 + y^2 = 1 + D x^2 y^2 over the field of Q elements, a base point   *)
(* of prime order L, keys of KeyBits bits.  The code has Q = 2^255 - 19;   *)
(* every other prime Q that is 5 modulo 8, smaller than 2^(KeyBits - 1),   *)
(* goes through the same steps.  A string of bytes is the number it        *)
(* encodes (little-endian).                                                *)
(***************************************************************************)
EXTENDS Integers, Sequences

CONSTANTS Q, D, BaseY, L,  \* field, curve, y of the base point, its order
          KeyBits,         \* bits of an encoded point, one of them a sign
          Hash(_)          \* SHA-512 of a sequence, as a number of 2 * KeyBits bits

ASSUME CurveAssumption == /\ Q \in Nat /\ Q % 8 = 5 /\ Q < 2^(KeyBits - 1)
                          /\ D \in 1..(Q - 1) /\ BaseY \in 0..(Q - 1)
                          /\ KeyBits \in Nat /\ KeyBits > 4 /\ L \in 1..Q

Pow(b, e) ==
  LET f[k \in Nat] == IF k = 0 THEN 1
                      ELSE LET h == f[k \div 2] IN
                           (((h * h) % Q) * (IF k % 2 = 1 THEN b % Q ELSE 1)) % Q
  IN f[e]

InvTable == [a \in 0..(Q - 1) |-> Pow(a, Q - 2)]
Inv(a) == InvTable[a % Q]

SqrtM1 == Pow(2, (Q - 1) \div 4)

(* The even root, or something that is none: decode_point checks.           *)
RecoverX(y) ==
  LET xx == ((y * y - 1) * Inv(D * ((y * y) % Q) + 1)) % Q
      r == Pow(xx, (Q + 3) \div 8)
      x == IF (r * r - xx) % Q # 0 THEN (r * SqrtM1) % Q ELSE r
  IN IF x % 2 # 0 THEN Q - x ELSE x

Base == <<RecoverX(BaseY), BaseY>>
Neutral == <<0, 1>>

Add(p, q) ==
  LET xy == (((p[1] * q[1]) % Q) * ((p[2] * q[2]) % Q)) % Q IN
  << ((p[1] * q[2] + q[1] * p[2]) % Q) * Inv(1 + D * xy) % Q,
     ((p[2] * q[2] + p[1] * q[1]) % Q) * Inv(1 - D * xy) % Q >>

(* Double and add, from the lowest bit of the scalar: the result, the addend *)
(* and the bits that are left.                                               *)
Point == Int \X Int

ScalarMult(p, e) ==
  LET f[s \in Point \X Point \X Nat] ==
        IF s[3] = 0 THEN s[1]
        ELSE f[<<IF s[3] % 2 = 1 THEN Add(s[1], s[2]) ELSE s[1], Add(s[2], s[2]), s[3] \div 2>>]
  IN f[<<Neutral, p, e>>]

OnCurve(p) ==
  LET x2 == (p[1] * p[1]) % Q
      y2 == (p[2] * p[2]) % Q
  IN (y2 - x2 - 1 - D * ((x2 * y2) % Q)) % Q = 0

(* Variant: the sign is not kept. *)
EncodeY(p) == p[2] % 2^(KeyBits - 1)

(* The sign bit is the lowest bit of x.                                     *)
EncodePoint(p) == (p[2] % 2^(KeyBits - 1)) + (p[1] % 2) * 2^(KeyBits - 1)

NoPoint == <<>>

(* y may be Q or more, and Q - x is Q where x is 0: neither is refused.     *)
DecodePoint(n) ==
  LET y == n % 2^(KeyBits - 1)
      even == RecoverX(y)
      x == IF even % 2 # n \div 2^(KeyBits - 1) THEN Q - even ELSE even
  IN IF OnCurve(<<x, y>>) THEN <<x, y>> ELSE NoPoint

-----------------------------------------------------------------------------
(* The facts of RFC 8032 about its parameters that the code relies on.  The   *)
(* Q - 2nd power is the inverse ("the field prime"), SqrtM1 is a root of -1,  *)
(* and RecoverX never divides by 0.                                           *)
ASSUME FieldAssumption ==
  /\ \A a \in 1..(Q - 1) : (a * Inv(a)) % Q = 1
  /\ (SqrtM1 * SqrtM1 + 1) % Q = 0
  /\ \A y \in 0..(Q - 1) : (D * ((y * y) % Q) + 1) % Q # 0

CurvePoint == {p \in (0..(Q - 1)) \X (0..(Q - 1)) : OnCurve(p)}
Subgroup == {ScalarMult(Base, n) : n \in 0..(L - 1)}

(* Points can be added, without an exception; the multiples of the base point *)
(* are a group of L elements ("group order"), and L is a prime.               *)
ASSUME GroupAssumption ==
  /\ Base \in CurvePoint
  /\ \A p, q \in CurvePoint : Add(p, q) \in CurvePoint
  /\ \A p, q \in Subgroup, r \in CurvePoint : Add(Add(p, q), r) = Add(p, Add(q, r))
  /\ \A p, q \in Subgroup : Add(p, q) \in Subgroup
  /\ ScalarMult(Base, L) = Neutral
  /\ \A m, n \in 0..(L - 1) : ScalarMult(Base, m) = ScalarMult(Base, n) => m = n
  /\ L > 1 /\ \A m, n \in 1..(L - 1) : (m * n) % L # 0

-----------------------------------------------------------------------------
(* The digest of the seed: its first half gives the secret scalar, the       *)
(* second one keys the nonces.                                               *)
Clamp(n) == (n % 2^(KeyBits - 2)) - (n % 8) + 2^(KeyBits - 2)

Secret(seed) == Clamp(Hash(<<seed>>) % 2^KeyBits)
Prefix(seed) == Hash(<<seed>>) \div 2^KeyBits

PublicFromSeed(seed) == EncodePoint(ScalarMult(Base, Secret(seed)))

Challenge(R, public, message) == Hash(<<R, public, message>>) % L

(* A signature is its two halves <<R, s>>.                                   *)
SignRaw(message, seed, public) ==
  LET r == Hash(<<Prefix(seed), message>>) % L
      R == EncodePoint(ScalarMult(Base, r))
  IN <<R, (r + Challenge(R, public, message) * Secret(seed)) % L>>

(* Variant: any scalar is taken. *)
VerifyAnyScalar(message, signature, public) ==
  /\ Len(signature) = 2
  /\ LET R == DecodePoint(signature[1])
         A == DecodePoint(public)
     IN /\ R # NoPoint /\ A # NoPoint
        /\ ScalarMult(Base, signature[2])
             = Add(R, ScalarMult(A, Challenge(signature[1], public, message)))

VerifyRaw(message, signature, public) ==
  /\ Len(signature) = 2
  /\ LET R == DecodePoint(signature[1])
         A == DecodePoint(public)
         s == signature[2]
     IN /\ R # NoPoint /\ A # NoPoint
        /\ s < L
        /\ ScalarMult(Base, s)
             = Add(R, ScalarMult(A, Challenge(signature[1], public, message)))
=============================================================================
