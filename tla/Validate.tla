------------------------------ MODULE Validate ------------------------------
(***************************************************************************)
(* The checks of domain/validate.rs on the fields of a request, and the    *)
(* base64 of what is stored and returned as bytes.                         *)
(*                                                                         *)
(* A text is a sequence of the characters that the checks tell apart: a    *)
(* small letter and its capital, in ASCII and of two bytes, and others.    *)
(* Base64 keeps its shape, 4 digits for 3 bytes with padding, over digits  *)
(* below Radix^3 and bytes below Radix^4 (Radix is 4 in the code).  A      *)
(* refusal is the empty sequence, which no check accepts.                  *)
(***************************************************************************)
EXTENDS Integers, Sequences, FiniteSetsExt, Functions

CONSTANTS
  Radix,                                     \* of base64: what the bits a digit and a byte share can hold
  MIN_PASSWORD_LEN, MAX_PASSWORD_LEN, MAX_EMAIL_LEN, MAX_TITLE_LEN, MAX_LABEL_LEN,
  MAX_MODEL_LEN, ALLOWED_ALGORITHMS, Roles, MAX_CIPHERTEXT_BYTES, NONCE_LEN, PUBLIC_KEY_LEN,
  PublicKeys                                 \* the byte strings that crypto/keys.rs finds sound on their curve

Characters == {"a", "A", "at", "dot", "blank", "wide", "WIDE"}

ASSUME ValidateAssumption ==
  /\ Radix \in Nat \ {0, 1}
  /\ {MIN_PASSWORD_LEN, MAX_PASSWORD_LEN, MAX_EMAIL_LEN, MAX_TITLE_LEN, MAX_LABEL_LEN,
      MAX_MODEL_LEN, MAX_CIPHERTEXT_BYTES, NONCE_LEN, PUBLIC_KEY_LEN} \subseteq Nat
  /\ ALLOWED_ALGORITHMS \cup Roles \subseteq Seq(Characters)

Refused == <<>>

\* str::len, in bytes.
len(text) == Len(text) + Len(SelectSeq(text, LAMBDA c : c \in {"wide", "WIDE"}))

trim(text) ==
  LET solid == {i \in DOMAIN text : text[i] # "blank"}
  IN IF solid = {} THEN <<>> ELSE SubSeq(text, Min(solid), Max(solid))

to_ascii_lowercase(text) == [i \in DOMAIN text |-> IF text[i] = "A" THEN "a" ELSE text[i]]

\* Faulty: the case is kept.
email_as_typed(raw) == IF "at" \in Range(raw) THEN trim(raw) ELSE Refused

\* The domain is what follows the first '@'.
email(raw) ==
  LET e == to_ascii_lowercase(trim(raw))
      at == {i \in DOMAIN e : e[i] = "at"}
      domain == IF at = {} THEN <<>> ELSE SubSeq(e, Min(at) + 1, Len(e))
      valid == /\ len(e) <= MAX_EMAIL_LEN
               /\ at # {} /\ Min(at) > 1
               /\ "dot" \in Range(domain) /\ domain[1] # "dot" /\ domain[Len(domain)] # "dot"
               /\ "blank" \notin Range(e)
  IN IF valid THEN e ELSE Refused

password(raw) == IF len(raw) \in MIN_PASSWORD_LEN..MAX_PASSWORD_LEN THEN raw ELSE Refused

\* Counted in characters.
bounded(raw, max) == IF Len(trim(raw)) \in 1..max THEN trim(raw) ELSE Refused

title(raw) == bounded(raw, MAX_TITLE_LEN)
label(raw) == bounded(raw, MAX_LABEL_LEN)
model(raw) == bounded(raw, MAX_MODEL_LEN)

message_role(raw) == IF raw \in Roles THEN raw ELSE Refused

algorithm(raw) == IF trim(raw) \in ALLOWED_ALGORITHMS THEN trim(raw) ELSE Refused

-----------------------------------------------------------------------------
(* Base64 with padding, in its one canonical form.                         *)

Square == Radix * Radix
Cube == Radix * Radix * Radix

Digits == 0..(Cube - 1)
Bytes == 0..(Cube * Radix - 1)
Pad == Cube
Other == Pad + 1   \* outside of the alphabet

\* The three bytes of a group of four digits, and the four digits of three bytes.
byte(d1, d2, d3, d4, j) ==
  CASE j = 1 -> d1 * Radix + (d2 \div Square)
    [] j = 2 -> (d2 % Square) * Square + (d3 \div Radix)
    [] j = 3 -> (d3 % Radix) * Cube + d4

digit(b1, b2, b3, j) ==
  CASE j = 1 -> b1 \div Radix
    [] j = 2 -> (b1 % Radix) * Square + (b2 \div Square)
    [] j = 3 -> (b2 % Square) * Radix + (b3 \div Cube)
    [] j = 4 -> b3 % Cube

\* How many of the last two characters are padding.
pads(text) == IF text[Len(text)] # Pad THEN 0 ELSE IF text[Len(text) - 1] # Pad THEN 1 ELSE 2

\* Faulty: bits of the last digit that belong to no byte are ignored.
canonical_but_for_bits(text) ==
  /\ text # <<>> /\ Len(text) % 4 = 0
  /\ \A i \in DOMAIN text : text[i] \in (IF i > Len(text) - pads(text) THEN {Pad} ELSE Digits)

\* (The empty text decodes to nothing, which base64_field refuses.)
canonical(text) ==
  /\ text # <<>> /\ Len(text) % 4 = 0
  /\ \A i \in DOMAIN text : text[i] \in (IF i > Len(text) - pads(text) THEN {Pad} ELSE Digits)
  /\ pads(text) = 1 => text[Len(text) - 1] % Radix = 0
  /\ pads(text) = 2 => text[Len(text) - 2] % Square = 0

decode(text) ==
  LET d(k) == text[k] % Pad IN
  [i \in 1..((Len(text) \div 4) * 3 - pads(text)) |->
     LET g == 4 * ((i - 1) \div 3)
     IN byte(d(g + 1), d(g + 2), d(g + 3), d(g + 4), ((i - 1) % 3) + 1)]

encode(bytes) ==
  LET b(k) == IF k <= Len(bytes) THEN bytes[k] ELSE 0 IN
  [i \in 1..(((Len(bytes) + 2) \div 3) * 4) |->
     LET g == 3 * ((i - 1) \div 4)
         j == ((i - 1) % 4) + 1
     IN IF g + j > Len(bytes) + 1 THEN Pad ELSE digit(b(g + 1), b(g + 2), b(g + 3), j)]

base64_field(raw, max_decoded) ==
  IF canonical(raw) /\ Len(decode(raw)) \in 1..max_decoded THEN decode(raw) ELSE Refused

\* The field of a fixed length, on top of base64_field.
exactly(bytes, length) == IF Len(bytes) = length THEN bytes ELSE Refused

\* Off the curve, or of small order, is refused as well.
public_key(raw) ==
  LET bytes == exactly(base64_field(raw, PUBLIC_KEY_LEN), PUBLIC_KEY_LEN)
  IN IF bytes \in PublicKeys THEN bytes ELSE Refused
=============================================================================
