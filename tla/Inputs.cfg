SPECIFICATION InputsSpec
CONSTANTS
  MaxU32 = 7
  MaxI64 = 15
  MaxU64 = 31
  MaxSpan = 13
  MaxTime = 12
  Leeway = 1
  Migrations = 2
  Clock = {0, 3}
  Numbers <- MCNumbers
  Defaults <- MCDefaults
  Radix = 2
  MIN_PASSWORD_LEN = 3
  MAX_PASSWORD_LEN = 5
  MAX_EMAIL_LEN = 5
  MAX_TITLE_LEN = 3
  MAX_LABEL_LEN = 2
  MAX_MODEL_LEN = 1
  MAX_CIPHERTEXT_BYTES = 4
  NONCE_LEN = 2
  PUBLIC_KEY_LEN = 3
  PublicKeys <- MCPublicKeys
  Texts <- MCTexts
  Addresses <- MCAddresses
  ALLOWED_ALGORITHMS <- MCAlgorithms
  Roles <- MCRoles
  Encodings <- MCEncodings
  ByteStrings <- MCByteStrings
INVARIANTS ServingIsConfigured TokensLiveAsPromised FieldsSurviveTheRoundTrip MailboxIsAccount
