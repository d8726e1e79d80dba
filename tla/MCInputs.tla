------------------------------ MODULE MCInputs ------------------------------
(***************************************************************************)
(* Types of 3 and 5 bits with numbers around each of their limits; texts   *)
(* up to an address with a blank; base64 with digits of 3 bits, up to two  *)
(* groups.                                                                 *)
(***************************************************************************)
EXTENDS Inputs

MCDefaults ==
  [DATABASE_MAX_CONNECTIONS |-> 3, RATE_LIMIT_REQUESTS |-> 4,
   ACCESS_TOKEN_TTL_SECS |-> 5, REFRESH_TOKEN_TTL_SECS |-> 6]

MCNumbers == {0, 1, 7, 8, 12, 13, 15, 16, 31, 32}

UpTo(S, length) == UNION {[1..n -> S] : n \in 0..length}

MCAddresses == UpTo(Characters, 6)
MCTexts == UpTo(Characters, 4)
MCAlgorithms == {<<"A", "A">>, <<"A", "a">>}
MCRoles == {<<"a">>, <<"a", "a">>}
MCEncodings == UpTo({0, 1, 2, 4, 5, Pad, Other}, 5) \cup [1..8 -> {0, 1, 4, Pad}]
MCPublicKeys == [1..PUBLIC_KEY_LEN -> Bytes] \ {<<0, 0, 0>>, <<1, 0, 0>>}
MCByteStrings == UpTo({0, 1, 8, 15}, 5)
=============================================================================
