-------------------------------- MODULE DidKey --------------------------------
(***************************************************************************)
(* Node IDs (peer.py): the did:key of a public key is its bytes behind a   *)
(* two-byte code, as digits to the base 58 behind the letter z.  Bytes are *)
(* sequences of 0..255, texts sequences of digits 0..57 (digit 0 is        *)
(* written "1", digit 57 "z"); NoDigit is a character of no alphabet.      *)
(***************************************************************************)
EXTENDS Integers, Sequences, FiniteSets, SequencesExt

CONSTANT KeyLen  \* bytes of a public key (32)

ASSUME KeyLenAssumption == KeyLen \in Nat \ {0}

Multicodec == <<237, 1>>
Z == 57
NoDigit == 58

(* The number some digits to a base mean, the first one weighing most.      *)
Value(digits, base) ==
  LET v[n \in 0..Len(digits)] == IF n = 0 THEN 0 ELSE v[n - 1] * base + digits[n]
  IN v[Len(digits)]

(* The digits of a number, without leading zeros: none for 0.               *)
Digits(number, base) ==
  LET f[n \in Nat] == IF n = 0 THEN <<>> ELSE Append(f[n \div base], n % base)
  IN f[number]

(* A leading zero is no part of the number, so each is written by itself.   *)
LeadingZeros(s) == Cardinality({i \in 1..Len(s) : \A j \in 1..i : s[j] = 0})
Zeros(n) == [i \in 1..n |-> 0]

B58Encode(data) == Zeros(LeadingZeros(data)) \o Digits(Value(data, 256), 58)
(* Variant: leading zeros are lost. *)
B58DecodeNumber(text) ==
  IF NoDigit \in ToSet(text) THEN <<>> ELSE Digits(Value(text, 58), 256)

(* A text with a character of no alphabet raises: nothing is decoded.       *)
B58Decode(text) ==
  IF NoDigit \in ToSet(text) THEN <<>>
  ELSE Zeros(LeadingZeros(text)) \o Digits(Value(text, 58), 256)

(* The scheme "did:key:" may be there or not.                               *)
EncodeDid(public) == [scheme |-> TRUE, multibase |-> <<Z>> \o B58Encode(Multicodec \o public)]
NodeId(public) == [EncodeDid(public) EXCEPT !.scheme = FALSE]

(* The result where the code raises ValueError. *)
NoKey == <<>>

DecodeDid(did) ==
  LET raw == B58Decode(Tail(did.multibase))
      named == did.multibase # <<>> /\ Head(did.multibase) = Z
  IN IF named /\ IsPrefix(Multicodec, raw) /\ Len(raw) = 2 + KeyLen
     THEN SubSeq(raw, 3, Len(raw)) ELSE NoKey
=============================================================================
