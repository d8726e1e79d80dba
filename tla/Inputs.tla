------------------------------- MODULE Inputs -------------------------------
(***************************************************************************)
(* What reaches the handlers of a process that has started: a client sends *)
(* a field, the server stores what its check makes of it, the client reads *)
(* it back and may send that again, as an editor of a title or a second    *)
(* device does.  The statements of the handlers are in AuthSessions and    *)
(* Store; the checks do not depend on the settings, so one configuration   *)
(* is enough.                                                              *)
(***************************************************************************)
EXTENDS Startup, Validate

CONSTANTS
  Addresses,    \* what clients put in the email field
  Texts,        \* what they put in the other text fields
  Encodings,    \* what they put in base64 fields
  ByteStrings   \* what they hold and encode themselves

ASSUME InputsAssumption ==
  /\ Addresses \cup Texts \subseteq Seq(Characters)
  /\ Encodings \subseteq Seq(0..Other)
  /\ ByteStrings \subseteq Seq(Bytes)

VARIABLE field  \* the last field: its name, what the client held, what it sent, what is stored

NoField == [name |-> "none", held |-> <<>>, sent |-> <<>>, stored |-> <<>>]

TextFields == {"password", "title", "label", "model", "role", "algorithm"}
ByteFields == {"ciphertext", "nonce", "public_key"}

check(name, raw) ==
  CASE name = "email" -> email(raw)
    [] name = "password" -> password(raw)
    [] name = "title" -> title(raw)
    [] name = "label" -> label(raw)
    [] name = "model" -> model(raw)
    [] name = "role" -> message_role(raw)
    [] name = "algorithm" -> algorithm(raw)
    [] name = "ciphertext" -> base64_field(raw, MAX_CIPHERTEXT_BYTES)
    [] name = "nonce" -> exactly(base64_field(raw, NONCE_LEN), NONCE_LEN)
    [] name = "public_key" -> public_key(raw)

\* What a response shows of a stored field: MessageResponse and KeyResponse
\* encode, the others return the text.
shown(name, stored) == IF name \in ByteFields THEN encode(stored) ELSE stored

Send(name, held, raw) ==
  field' = [name |-> name, held |-> held, sent |-> raw, stored |-> check(name, raw)]

\* Some text, or bytes that the client encodes.
Submit ==
  /\ pc = "serving" /\ env = Base /\ login = None /\ field = NoField
  /\ \/ \E raw \in Addresses : Send("email", raw, raw)
     \/ \E name \in TextFields, raw \in Texts : Send(name, raw, raw)
     \/ \E name \in ByteFields, raw \in Encodings : Send(name, <<>>, raw)
     \/ \E name \in ByteFields, bytes \in ByteStrings : Send(name, bytes, encode(bytes))
  /\ UNCHANGED vars

\* The client has read it back.
Answered ==
  /\ field # NoField
  /\ field' = NoField
  /\ UNCHANGED vars

InputsInit == Init /\ field = NoField

InputsNext == Submit \/ Answered \/ (Next /\ field = NoField /\ UNCHANGED field)

InputsSpec == InputsInit /\ [][InputsNext]_<<vars, field>>

-----------------------------------------------------------------------------
(* Properties.                                                             *)

\* What the server shows of a field it accepted, it accepts again and stores the
\* same (it never shows a password).  A base64 field comes back as the very text
\* that was sent, and a client that encodes bytes of a permitted length gets them
\* back.
FieldsSurviveTheRoundTrip ==
  /\ field.stored # Refused /\ field.name # "password" =>
       check(field.name, shown(field.name, field.stored)) = field.stored
  /\ field.name \in ByteFields =>
       /\ field.stored # Refused => shown(field.name, field.stored) = field.sent
       /\ field.stored \in {field.held, Refused} \/ field.held = <<>>
       /\ field.name = "ciphertext" /\ Len(field.held) \in 1..MAX_CIPHERTEXT_BYTES => field.stored = field.held

\* The account of an address does not depend on how it is typed: ASCII capitals and
\* blanks around it change neither whether it is accepted nor what register and
\* login look for, and two different addresses, also those that differ in the case
\* of a letter outside of ASCII, are never the same account.
MailboxIsAccount ==
  field.name = "email" =>
    LET capitals == [i \in DOMAIN field.sent |-> IF field.sent[i] = "a" THEN "A" ELSE field.sent[i]]
    IN /\ email(capitals) = field.stored
       /\ email(<<"blank">> \o field.sent \o <<"blank">>) = field.stored
       /\ field.stored # Refused =>
            \E i \in 0..(Len(field.sent) - Len(field.stored)) :
              \A j \in DOMAIN field.sent :
                IF j \in (i + 1)..(i + Len(field.stored))
                THEN field.stored[j - i] = (IF field.sent[j] = "A" THEN "a" ELSE field.sent[j])
                ELSE field.sent[j] = "blank"

-----------------------------------------------------------------------------
(* The inductive invariant.                                                *)

\* Inductive: there is no field, or what is stored of it is what its check
\* made of a text of its kind, which is the encoding of the bytes held, if any.
FieldInv ==
  \/ field = NoField
  \/ /\ field.stored = check(field.name, field.sent)
     /\ \/ field.name = "email" /\ field.sent \in Addresses /\ field.held = field.sent
        \/ field.name \in TextFields /\ field.sent \in Texts /\ field.held = field.sent
        \/ field.name \in ByteFields /\ field.sent \in Encodings /\ field.held = <<>>
        \/ field.name \in ByteFields /\ field.held \in ByteStrings /\ field.sent = encode(field.held)
=============================================================================
