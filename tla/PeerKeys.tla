------------------------------- MODULE PeerKeys -------------------------------
(***************************************************************************)
(* A node makes a key, signs a message and sends it with its Node ID       *)
(* (PeerIdentity, peer.py); what carries it may alter one part; the        *)
(* receiver checks it (verify).                                            *)
(***************************************************************************)
EXTENDS Ed25519, DidKey

CONSTANTS Seed, Message,  \* seeds and messages, numbers
          Unset

ASSUME KeySizeAssumption == KeyBits = 8 * KeyLen

(* With the code's L, above 2^(KeyBits - 4), this is so of every seed.      *)
ASSUME SecretAssumption ==
  \A seed \in Seed : Hash(<<seed>>) \in Nat /\ Secret(seed) % L # 0

(* A digest is a number, that of a signed message and of a challenge too.    *)
ASSUME DigestAssumption ==
  \A m \in Message :
    /\ \A seed \in Seed : Hash(<<Prefix(seed), m>>) \in Nat
    /\ \A p \in Subgroup, public \in [1..KeyLen -> 0..255] :
         Hash(<<EncodePoint(p), Value(public, 256), m>>) \in Nat

VARIABLES
  peer,    \* the node's identity: its seed and public key
  letter,  \* what it sends: Node ID, message, signature
  altered, \* the part that what carries it has changed
  verdict  \* what verify returns

keyvars == <<peer, letter, altered, verdict>>

Nothing == "nothing"
NotYet == "not yet"

Letter == [did : [scheme : BOOLEAN, multibase : Seq(0..NoDigit)], message : Message,
           signature : Seq(Nat)]

ASSUME LetterAssumption == Unset \notin Letter

(* A number as KeyLen bytes: the order of the bytes is of no account here.  *)
Bytes(n) ==
  LET digits == Digits(n, 256)
  IN Zeros(KeyLen - Len(digits)) \o digits

KeysInit == /\ peer = Unset /\ letter = Unset
            /\ altered = Nothing /\ verdict = NotYet

(* PeerIdentity.from_seed, also of a seed that was drawn or read from disk. *)
FromSeed ==
  /\ peer = Unset
  /\ \E seed \in Seed : peer' = [seed |-> seed, public |-> PublicFromSeed(seed)]
  /\ UNCHANGED <<letter, altered, verdict>>

SignMessage ==
  /\ peer # Unset /\ letter = Unset
  /\ \E m \in Message :
       letter' = [did |-> EncodeDid(Bytes(peer.public)), message |-> m,
                  signature |-> SignRaw(m, peer.seed, peer.public)]
  /\ UNCHANGED <<peer, altered, verdict>>

(* Texts that differ from a Node ID in one place, in its length or scheme.  *)
Changed(text) ==
  {Front(text), Tail(text), <<>>, Append(text, 0), <<Z>> \o Zeros(1) \o Tail(text)}

NearDids(did) ==
  {[did EXCEPT !.scheme = FALSE]}
    \cup {[did EXCEPT !.multibase[i] = c] : i \in DOMAIN did.multibase, c \in 0..NoDigit}
    \cup {[did EXCEPT !.multibase = t] : t \in Changed(did.multibase)}

Alter ==
  /\ letter # Unset /\ altered = Nothing /\ verdict = NotYet
  /\ LET R == letter.signature[1]
         s == letter.signature[2]
     IN \/ /\ \E d \in NearDids(letter.did) \ {letter.did} : letter' = [letter EXCEPT !.did = d]
           /\ altered' = "did"
        \/ /\ \E m \in Message \ {letter.message} : letter' = [letter EXCEPT !.message = m]
           /\ altered' = "message"
        \/ /\ \E x \in 0..(2^KeyBits - 1) \ {s} : letter' = [letter EXCEPT !.signature = <<R, x>>]
           /\ altered' = "scalar"
        \/ /\ letter' = [letter EXCEPT !.signature = <<R>>]
           /\ altered' = "scalar"
  /\ UNCHANGED <<peer, verdict>>

Verify ==
  /\ letter # Unset /\ verdict = NotYet
  /\ LET public == DecodeDid(letter.did) IN
     verdict' = IF public = NoKey THEN "refused"
                ELSE IF VerifyRaw(letter.message, letter.signature, Value(public, 256))
                THEN "accepted" ELSE "refused"
  /\ UNCHANGED <<peer, letter, altered>>

KeysNext == FromSeed \/ SignMessage \/ Alter \/ Verify
-----------------------------------------------------------------------------
(* Properties *)

(* What a node signs verifies under its Node ID, with or without the scheme, *)
(* whatever the seed and the message.                                        *)
GenuineAccepted ==
  /\ verdict # NotYet
  /\ \/ altered = Nothing
     \/ letter.did = NodeId(Bytes(peer.public))
  => verdict = "accepted"

(* No other scalar is accepted with a signature's point, whatever its size;  *)
(* another message only if the two have one challenge, and another Node ID   *)
(* only if it decodes to the signer's own key or one of the same challenge.  *)
AlteredRefused ==
  verdict = "accepted" =>
    LET public == Value(DecodeDid(letter.did), 256)
        c == Challenge(letter.signature[1], public, letter.message)
    IN /\ altered # "scalar"
       /\ altered = "message" =>
            \E m \in Message \ {letter.message} :
              c = Challenge(letter.signature[1], peer.public, m)
       /\ altered = "did" /\ public # peer.public =>
            ScalarMult(DecodePoint(public), c)
              = ScalarMult(DecodePoint(peer.public),
                           Challenge(letter.signature[1], peer.public, letter.message))

(* A key has one Node ID: a text that decodes to a key is the one its key    *)
(* encodes to, up to the scheme.                                             *)
OneNodeId ==
  letter # Unset =>
    LET public == DecodeDid(letter.did) IN
    public # NoKey => letter.did.multibase = NodeId(public).multibase
=============================================================================
