---------------------------- MODULE InputsProofs ----------------------------
(***************************************************************************)
(* Proofs about Startup, Validate and Inputs, for all widths of the        *)
(* integer types, all limits, all texts and a base64 of any radix.         *)
(***************************************************************************)
EXTENDS Inputs, SequenceTheorems, WellFoundedInduction, TLAPS

-----------------------------------------------------------------------------
(* From the environment to a serving process.                              *)

\* Nothing has been started.
LEMMA StartupInitially ==
  Init => StartupInv
  BY StartupAssumption DEF Init, StartupInv

\* Every step of main and of issue_tokens keeps the invariant.
LEMMA StartupStep ==
  StartupInv /\ [Next]_vars => StartupInv'
  <1> SUFFICES ASSUME StartupInv, [Next]_vars PROVE StartupInv'
    OBVIOUS
  <1>0. Migrations \in Nat
    BY StartupAssumption
  <1>1. CASE Launch
    BY <1>0, <1>1 DEF Launch, StartupInv
  <1>2. CASE Exit
    BY <1>0, <1>2 DEF Exit, StartupInv
  <1>3. CASE Connect
    BY <1>0, <1>3 DEF Connect, StartupInv
  <1>4. CASE Migrate
    BY <1>0, <1>4 DEF Migrate, StartupInv
  <1>5. CASE Serve
    BY <1>0, <1>5 DEF Serve, StartupInv
  <1>6. CASE IssueTokens
    BY <1>0, <1>6 DEF IssueTokens, StartupInv, Login
  <1>7. CASE UNCHANGED vars
    BY <1>7 DEF vars, StartupInv, Login
  <1> QED BY <1>1, <1>2, <1>3, <1>4, <1>5, <1>6, <1>7 DEF Next

\* The invariant holds in every run of a process with requests.
LEMMA StartupInvariance ==
  InputsSpec => []StartupInv
  <1>1. InputsInit => StartupInv
    BY StartupInitially DEF InputsInit
  <1>2. StartupInv /\ [InputsNext]_<<vars, field>> => StartupInv'
    BY StartupStep DEF InputsNext, Submit, Answered
  <1> QED BY <1>1, <1>2, PTL DEF InputsSpec

\* A process that serves was configured soundly, whatever was tried before:
\* from_map refused every half set pair, blank key and weak secret.
THEOREM ServingSafety ==
  InputsSpec => []ServingIsConfigured
  <1>1. StartupInv => ServingIsConfigured
    <2> SUFFICES ASSUME StartupInv, pc = "serving" PROVE ServingIsConfigured
      BY DEF ServingIsConfigured
    <2>1. env \in Settings /\ accepted(env) /\ config = from_map(env) /\ schema = Migrations
      BY DEF StartupInv
    <2>2. /\ env.TLS_CERT_PATH \in Text /\ env.TLS_KEY_PATH \in Text
          /\ env.OPENAI_API_KEY \in Text /\ env.ANTHROPIC_API_KEY \in Text
          /\ env.JWT_SECRET \in Secrets
      BY <2>1 DEF Settings, TextSettings, Base, Text, Secrets
    <2>3. scheme = "plain" => env.TLS_CERT_PATH # "set" /\ env.TLS_KEY_PATH # "set"
      BY <2>1 DEF StartupInv, accepted, from_map, get
    <2>4. /\ config.provider = "openai" => env.OPENAI_API_KEY = "set"
          /\ config.provider = "anthropic" => env.ANTHROPIC_API_KEY = "set"
      BY <2>1, <2>2 DEF accepted, from_map, get, Text
    <2>5. env.ENVIRONMENT = "production" => env.JWT_SECRET = "strong"
      BY <2>1, <2>2 DEF accepted, production, get, Secrets
    <2>6. \A n \in DOMAIN Defaults :
            config.number[n] = IF env.number[n] = Unset THEN Defaults[n] ELSE env.number[n]
      BY <2>1 DEF from_map, parsed
    <2> QED BY <2>1, <2>3, <2>4, <2>5, <2>6 DEF ServingIsConfigured
  <1> QED BY <1>1, StartupInvariance, PTL

\* The sum of JwtService::issue: exact unless it leaves i64, and then in the past.
LEMMA IssueExact ==
  ASSUME NEW ttl \in 0..MaxU64, NEW now \in 0..MaxTime
  PROVE  /\ issue(ttl, now) \in Int
         /\ now + ttl <= MaxI64 => issue(ttl, now) = now + ttl
         /\ now + ttl > MaxI64 => issue(ttl, now) = now + ttl - (MaxU64 + 1)
  <1>1. /\ MaxI64 \in Nat /\ MaxU64 = 2 * MaxI64 + 1 /\ MaxTime \in Nat /\ MaxTime < MaxI64
        /\ ttl \in Nat /\ now \in Nat /\ ttl <= MaxU64 /\ now <= MaxTime
    BY StartupAssumption
  <1> DEFINE Q == MaxU64 + 1
             X == now + as_i64(ttl) + MaxI64 + 1
  <1>2. Q \in Nat /\ Q > 0 /\ X \in Nat /\ X < 2 * Q
    BY <1>1 DEF as_i64
  <1>3. X % Q = IF X < Q THEN X ELSE X - Q
    <2> HIDE DEF Q, X
    <2> QED BY <1>2
  <1>4. issue(ttl, now) = (X % Q) - (MaxI64 + 1)
    BY DEF issue, wrapping_add
  <1>5. CASE ttl <= MaxI64
    BY <1>1, <1>3, <1>4, <1>5 DEF as_i64
  <1>6. CASE ttl > MaxI64
    BY <1>1, <1>3, <1>4, <1>6 DEF as_i64
  <1> QED BY <1>1, <1>5, <1>6

\* An access token is good exactly as long as its login said, unless the sum of
\* JwtService::issue leaves i64, and then it is never good for longer.
THEOREM TokenLifetimes ==
  InputsSpec => []TokensLiveAsPromised
  <1>1. StartupInv => TokensLiveAsPromised
    <2> SUFFICES ASSUME StartupInv, login.started PROVE TokensLiveAsPromised
      BY DEF TokensLiveAsPromised
    <2>1. PICK now \in Clock : pc = "serving" /\ login = Login(now)
      BY DEF StartupInv, None
    <2> DEFINE ttl == config.number["ACCESS_TOKEN_TTL_SECS"]
               refresh_ttl == config.number["REFRESH_TOKEN_TTL_SECS"]
    <2>2. /\ login.now = now /\ login.expires_in = ttl /\ login.exp = issue(ttl, now)
          /\ login.granted = (refresh_ttl <= MaxSpan /\ now + refresh_ttl <= MaxTime)
          /\ login.expires_at = now + refresh_ttl
      BY <2>1 DEF Login
    <2>3. ttl \in 0..MaxU64
      <3>1. config = from_map(env) /\ accepted(env)
        BY <2>1 DEF StartupInv
      <3>2. "ACCESS_TOKEN_TTL_SECS" \in DOMAIN Defaults
        BY StartupAssumption
      <3>3. ttl = parsed("ACCESS_TOKEN_TTL_SECS", env.number["ACCESS_TOKEN_TTL_SECS"])
        BY <3>1, <3>2 DEF from_map
      <3>4. parses("ACCESS_TOKEN_TTL_SECS", env.number["ACCESS_TOKEN_TTL_SECS"])
        BY <3>1, <3>2 DEF accepted
      <3> QED BY <3>2, <3>3, <3>4, StartupAssumption DEF parses, parsed, Width, Unset
    <2>4. now \in 0..MaxTime
      BY StartupAssumption
    <2>5. ASSUME NEW time \in now..(MaxU64 + MaxU64)
          PROVE  /\ verify(issue(ttl, now), time) => time <= now + ttl + Leeway
                 /\ time <= now + ttl + Leeway /\ now + ttl <= MaxI64 => verify(issue(ttl, now), time)
      <3> HIDE DEF ttl
      <3> QED BY <2>3, <2>4, IssueExact, StartupAssumption DEF verify
    <2> QED BY <2>2, <2>5 DEF TokensLiveAsPromised
  <1> QED BY <1>1, StartupInvariance, PTL

-----------------------------------------------------------------------------
(* Texts.                                                                  *)

\* A nonempty set of naturals has a least member.
LEMMA Least ==
  ASSUME NEW T, T \subseteq Nat, T # {}
  PROVE  \E x \in T : \A y \in T : x <= y
  <1> DEFINE Below == {ss \in Nat \X Nat : ss[1] < ss[2]}
  <1>1. IsWellFoundedOn(Below, Nat)
    BY NatLessThanWellFounded DEF OpToRel
  <1> HIDE DEF Below
  <1>2. PICK x \in T : \A y \in T : ~(<<y, x>> \in Below)
    BY <1>1, WFMin
  <1>3. \A y \in T : x <= y
    <2> SUFFICES ASSUME NEW y \in T PROVE x <= y
      OBVIOUS
    <2>1. x \in Nat /\ y \in Nat
      OBVIOUS
    <2>2. y < x => <<y, x>> \in Below
      BY <2>1 DEF Below
    <2> QED BY <1>2, <2>1, <2>2
  <1> QED BY <1>3

\* Min and Max of a nonempty set of places of a text.
LEMMA Extremes ==
  ASSUME NEW n \in Nat, NEW T, T \subseteq 1..n, T # {}
  PROVE  /\ Min(T) \in T /\ \A y \in T : Min(T) <= y
         /\ Max(T) \in T /\ \A y \in T : y <= Max(T)
  <1>1. Min(T) \in T /\ \A y \in T : Min(T) <= y
    <2>1. T \subseteq Nat
      OBVIOUS
    <2> QED BY <2>1, Least DEF Min
  <1>2. Max(T) \in T /\ \A y \in T : y <= Max(T)
    <2> DEFINE M == {n - t : t \in T}
    <2>1. M \subseteq Nat
      OBVIOUS
    <2>0. M # {}
      OBVIOUS
    <2>2. PICK m \in M : \A y \in M : m <= y
      <3> HIDE DEF M
      <3> QED BY <2>0, <2>1, Least
    <2>3. PICK x \in T : m = n - x
      OBVIOUS
    <2>4. \A y \in T : y <= x
      <3> SUFFICES ASSUME NEW y \in T PROVE y <= x
        OBVIOUS
      <3>1. n - x <= n - y
        BY <2>2, <2>3
      <3> QED BY <3>1
    <2> QED BY <2>4 DEF Max
  <1> QED BY <1>1, <1>2

\* a and b are the first and the last place of x that is not blank.
Ends(x, a, b) ==
  /\ a \in DOMAIN x /\ b \in DOMAIN x /\ x[a] # "blank" /\ x[b] # "blank"
  /\ \A i \in DOMAIN x : x[i] # "blank" => a <= i /\ i <= b

\* trim keeps what lies between those places.
LEMMA TrimIs ==
  ASSUME NEW x \in Seq(Characters), NEW a, NEW b, Ends(x, a, b)
  PROVE  trim(x) = SubSeq(x, a, b) /\ 1 <= a /\ a <= b /\ b <= Len(x) /\ a \in Nat /\ b \in Nat
  <1> DEFINE solid == {i \in DOMAIN x : x[i] # "blank"}
  <1>0. Len(x) \in Nat /\ DOMAIN x = 1..Len(x)
    OBVIOUS
  <1>1. solid \subseteq 1..Len(x) /\ a \in solid /\ b \in solid
    BY <1>0 DEF Ends
  <1>2. /\ Min(solid) \in solid /\ \A y \in solid : Min(solid) <= y
        /\ Max(solid) \in solid /\ \A y \in solid : y <= Max(solid)
    <2> HIDE DEF solid
    <2> QED BY <1>0, <1>1, Extremes
  <1>3. Min(solid) = a /\ Max(solid) = b
    <2>1. a <= Min(solid) /\ Min(solid) <= a /\ b <= Max(solid) /\ Max(solid) <= b
      BY <1>1, <1>2 DEF Ends
    <2>0. \A i \in solid : i \in 1..Len(x)
      BY <1>1
    <2>2. Min(solid) \in Nat /\ Max(solid) \in Nat /\ a \in Nat /\ b \in Nat
      <3> HIDE DEF solid
      <3>1. Min(solid) \in 1..Len(x) /\ Max(solid) \in 1..Len(x) /\ a \in 1..Len(x) /\ b \in 1..Len(x)
        BY <1>1, <1>2, <2>0
      <3> QED BY <1>0, <3>1
    <2> HIDE DEF solid
    <2> QED BY <2>1, <2>2
  <1>4. trim(x) = SubSeq(x, Min(solid), Max(solid))
    BY <1>1 DEF trim
  <1>5. 1 <= a /\ a <= b /\ b <= Len(x) /\ a \in Nat /\ b \in Nat
    <2>1. a \in DOMAIN x /\ b \in DOMAIN x /\ a <= b
      BY DEF Ends
    <2> QED BY <1>0, <2>1
  <1> QED BY <1>3, <1>4, <1>5

\* It leaves nothing only of a text of blanks.
LEMMA TrimCases ==
  ASSUME NEW x \in Seq(Characters)
  PROVE  \/ trim(x) = <<>> /\ \A i \in DOMAIN x : x[i] = "blank"
         \/ \E a, b \in DOMAIN x : Ends(x, a, b)
  <1> DEFINE solid == {i \in DOMAIN x : x[i] # "blank"}
  <1>1. CASE solid = {}
    BY <1>1 DEF trim
  <1>2. CASE solid # {}
    <2>0. Len(x) \in Nat /\ DOMAIN x = 1..Len(x)
      OBVIOUS
    <2>1. solid \subseteq 1..Len(x)
      BY <2>0
    <2>2. /\ Min(solid) \in solid /\ \A y \in solid : Min(solid) <= y
          /\ Max(solid) \in solid /\ \A y \in solid : y <= Max(solid)
      <3> HIDE DEF solid
      <3> QED BY <1>2, <2>0, <2>1, Extremes
    <2>3. Ends(x, Min(solid), Max(solid))
      BY <2>2 DEF Ends
    <2> QED BY <2>2, <2>3
  <1> QED BY <1>1, <1>2

\* A trimmed text is a text, and trimming it again changes nothing.
LEMMA TrimTwice ==
  ASSUME NEW x \in Seq(Characters)
  PROVE  trim(x) \in Seq(Characters) /\ trim(trim(x)) = trim(x)
  <1>1. CASE trim(x) = <<>>
    <2>1. {i \in DOMAIN <<>> : <<>>[i] # "blank"} = {} /\ <<>> \in Seq(Characters)
      OBVIOUS
    <2>2. trim(<<>>) = <<>>
      BY <2>1 DEF trim
    <2> QED BY <1>1, <2>1, <2>2
  <1>2. ASSUME NEW a \in DOMAIN x, NEW b \in DOMAIN x, Ends(x, a, b)
        PROVE  trim(x) \in Seq(Characters) /\ trim(trim(x)) = trim(x)
    <2>1. trim(x) = SubSeq(x, a, b) /\ 1 <= a /\ a <= b /\ b <= Len(x) /\ a \in Nat /\ b \in Nat
      BY <1>2, TrimIs
    <2> DEFINE y == SubSeq(x, a, b)
    <2>2. y \in Seq(Characters) /\ Len(y) = b - a + 1 /\ \A i \in 1..(b - a + 1) : y[i] = x[a + i - 1]
      BY <2>1
    <2>3. Ends(y, 1, Len(y))
      <3> HIDE DEF y
      <3>1. y[1] = x[a] /\ y[Len(y)] = x[b] /\ Len(y) \in Nat /\ DOMAIN y = 1..Len(y) /\ 1 <= Len(y)
        BY <2>1, <2>2
      <3>2. \A i \in DOMAIN y : 1 <= i /\ i <= Len(y)
        BY <3>1
      <3>3. y[1] # "blank" /\ y[Len(y)] # "blank" /\ 1 \in DOMAIN y /\ Len(y) \in DOMAIN y
        <4>1. x[a] # "blank" /\ x[b] # "blank"
          BY <1>2 DEF Ends
        <4>2. 1 \in DOMAIN y /\ Len(y) \in DOMAIN y
          BY <3>1
        <4> QED BY <3>1, <4>1, <4>2
      <3> QED BY <3>2, <3>3 DEF Ends
    <2>4. trim(y) = SubSeq(y, 1, Len(y))
      <3> HIDE DEF y
      <3> QED BY <2>2, <2>3, TrimIs
    <2>5. SubSeq(y, 1, Len(y)) = y
      <3> HIDE DEF y
      <3> QED BY <2>2
    <2> QED BY <2>1, <2>2, <2>4, <2>5
  <1> QED BY <1>1, <1>2, TrimCases

\* Of a text of blanks nothing is left.
LEMMA TrimBlanks ==
  ASSUME NEW x, \A i \in DOMAIN x : x[i] = "blank"
  PROVE  trim(x) = <<>>
  <1>1. {i \in DOMAIN x : x[i] # "blank"} = {}
    OBVIOUS
  <1> QED BY <1>1 DEF trim

\* The case of a character is not seen by trim: texts with the same blanks lose
\* the same ends.
LEMMA TrimAlike ==
  ASSUME NEW x \in Seq(Characters), NEW y \in Seq(Characters), DOMAIN x = DOMAIN y,
         \A i \in DOMAIN x : x[i] = "blank" <=> y[i] = "blank"
  PROVE  \/ trim(x) = <<>> /\ trim(y) = <<>>
         \/ \E a, b \in Nat : /\ 1 <= a /\ a <= b /\ b <= Len(x) /\ Len(y) = Len(x)
                              /\ trim(x) = SubSeq(x, a, b) /\ trim(y) = SubSeq(y, a, b)
  <1>1. CASE \A i \in DOMAIN x : x[i] = "blank"
    BY <1>1, TrimBlanks
  <1>2. ASSUME NEW a \in DOMAIN x, NEW b \in DOMAIN x, Ends(x, a, b)
        PROVE  \E c, d \in Nat : /\ 1 <= c /\ c <= d /\ d <= Len(x) /\ Len(y) = Len(x)
                                 /\ trim(x) = SubSeq(x, c, d) /\ trim(y) = SubSeq(y, c, d)
    <2>1. Ends(y, a, b)
      BY <1>2 DEF Ends
    <2>2. Len(x) = Len(y)
      <3>1. DOMAIN x = 1..Len(x) /\ Len(x) \in Nat
        BY LenProperties
      <3>2. DOMAIN y = 1..Len(y) /\ Len(y) \in Nat
        BY LenProperties
      <3>3. \A m, n \in Nat : 1..m = 1..n => m = n
        OBVIOUS
      <3> QED BY ONLY <3>1, <3>2, <3>3, DOMAIN x = DOMAIN y
    <2>3. /\ trim(x) = SubSeq(x, a, b) /\ trim(y) = SubSeq(y, a, b)
          /\ 1 <= a /\ a <= b /\ b <= Len(x) /\ a \in Nat /\ b \in Nat
      BY <1>2, <2>1, TrimIs
    <2> QED BY <2>2, <2>3
  <1> QED BY <1>1, <1>2, TrimCases

\* Blanks around a text are lost.
LEMMA TrimPadded ==
  ASSUME NEW x \in Seq(Characters)
  PROVE  trim(<<"blank">> \o x \o <<"blank">>) = trim(x)
  <1> DEFINE y == <<"blank">> \o x \o <<"blank">>
             n == Len(x)
  <1>0. /\ <<"blank">> \in Seq(Characters) /\ Len(<<"blank">>) = 1 /\ <<"blank">>[1] = "blank"
        /\ n \in Nat /\ DOMAIN x = 1..n
    BY LenProperties DEF Characters
  <1> DEFINE z == <<"blank">> \o x
  <1>z. /\ z \in Seq(Characters) /\ Len(z) = n + 1
        /\ \A i \in 1..(n + 1) : z[i] = IF i <= 1 THEN <<"blank">>[i] ELSE x[i - 1]
    BY <1>0, ConcatProperties
  <1>y. /\ y \in Seq(Characters) /\ Len(y) = n + 2
        /\ \A i \in 1..(n + 2) : y[i] = IF i <= n + 1 THEN z[i] ELSE <<"blank">>[i - (n + 1)]
    <2> HIDE DEF z
    <2>1. y = z \o <<"blank">>
      BY DEF z
    <2> HIDE DEF y
    <2>2. /\ z \o <<"blank">> \in Seq(Characters) /\ Len(z \o <<"blank">>) = Len(z) + 1
          /\ \A i \in 1..(Len(z) + 1) :
               (z \o <<"blank">>)[i] = IF i <= Len(z) THEN z[i] ELSE <<"blank">>[i - Len(z)]
      BY <1>0, <1>z, ConcatProperties
    <2>3. (n + 1) + 1 = n + 2
      BY <1>0
    <2> QED BY <1>z, <2>1, <2>2, <2>3
  <1> HIDE DEF y, z
  <1>1. DOMAIN y = 1..(n + 2)
    BY <1>y, LenProperties
  <1>2. y[1] = "blank" /\ y[n + 2] = "blank" /\ \A i \in 1..n : y[i + 1] = x[i]
    <2>1. y[1] = "blank"
      BY <1>0, <1>y, <1>z
    <2>2. y[n + 2] = "blank"
      BY <1>0, <1>y
    <2>3. ASSUME NEW i \in 1..n PROVE y[i + 1] = x[i]
      BY <1>0, <1>y, <1>z
    <2> QED BY <2>1, <2>2, <2>3
  <1>3. \A k \in 1..(n + 2) : k # 1 /\ k # n + 2 => k - 1 \in 1..n /\ y[k] = x[k - 1]
    <2> SUFFICES ASSUME NEW k \in 1..(n + 2), k # 1, k # n + 2 PROVE k - 1 \in 1..n /\ y[k] = x[k - 1]
      OBVIOUS
    <2>1. k - 1 \in 1..n /\ (k - 1) + 1 = k
      BY <1>0
    <2> QED BY <1>2, <2>1
  <1>4. CASE trim(x) = <<>> /\ \A i \in DOMAIN x : x[i] = "blank"
    <2>1. \A k \in DOMAIN y : y[k] = "blank"
      BY <1>0, <1>1, <1>2, <1>3, <1>4
    <2>2. trim(y) = <<>>
      BY <2>1, TrimBlanks
    <2> QED BY <1>4, <2>2 DEF y
  <1>5. ASSUME NEW a \in DOMAIN x, NEW b \in DOMAIN x, Ends(x, a, b)
        PROVE  trim(y) = trim(x)
    <2>1. trim(x) = SubSeq(x, a, b) /\ 1 <= a /\ a <= b /\ b <= n /\ a \in Nat /\ b \in Nat
      BY <1>5, TrimIs
    <2>2. Ends(y, a + 1, b + 1)
      <3>1. y[a + 1] = x[a] /\ y[b + 1] = x[b] /\ x[a] # "blank" /\ x[b] # "blank"
        BY <1>0, <1>2, <1>5 DEF Ends
      <3>2. a + 1 \in DOMAIN y /\ b + 1 \in DOMAIN y
        BY <1>1, <2>1
      <3>3. ASSUME NEW k \in DOMAIN y, y[k] # "blank" PROVE a + 1 <= k /\ k <= b + 1
        <4>1. k - 1 \in DOMAIN x /\ x[k - 1] # "blank"
          BY <1>0, <1>1, <1>2, <1>3, <3>3
        <4>2. a <= k - 1 /\ k - 1 <= b
          BY <1>5, <4>1 DEF Ends
        <4>3. k \in Int
          BY <1>0, <1>1
        <4> QED BY <2>1, <4>2, <4>3
      <3>4. y[a + 1] # "blank" /\ y[b + 1] # "blank"
        BY <3>1
      <3> QED BY <3>2, <3>3, <3>4 DEF Ends
    <2>3. trim(y) = SubSeq(y, a + 1, b + 1)
      BY <1>y, <2>2, TrimIs
    <2>4. SubSeq(y, a + 1, b + 1) = SubSeq(x, a, b)
      <3> DEFINE u == SubSeq(y, a + 1, b + 1)
                 v == SubSeq(x, a, b)
      <3>1. /\ v \in Seq(Characters) /\ Len(v) = b - a + 1
            /\ \A i \in 1..(b - a + 1) : v[i] = x[a + i - 1]
        <4>1. \A i \in a..b : x[i] \in Characters
          BY <2>1, ElementOfSeq
        <4> QED BY <2>1, <4>1, SubSeqProperties
      <3>2. /\ u \in Seq(Characters) /\ Len(u) = b - a + 1
            /\ \A i \in 1..(b - a + 1) : u[i] = y[a + i]
        <4>1. \A i \in (a + 1)..(b + 1) : y[i] \in Characters
          BY <1>0, <1>y, <2>1, ElementOfSeq
        <4>2. PICK c, d \in Int : c = a + 1 /\ d = b + 1
          BY <2>1
        <4>3. /\ SubSeq(y, c, d) \in Seq(Characters)
              /\ Len(SubSeq(y, c, d)) = IF c <= d THEN d - c + 1 ELSE 0
              /\ \A i \in 1..(d - c + 1) : SubSeq(y, c, d)[i] = y[c + i - 1]
          BY <4>1, <4>2, SubSeqProperties
        <4> QED BY SMTT(30), <2>1, <4>2, <4>3
      <3>3. \A i \in 1..(b - a + 1) : y[a + i] = x[a + i - 1]
        <4> SUFFICES ASSUME NEW i \in 1..(b - a + 1) PROVE y[a + i] = x[a + i - 1]
          OBVIOUS
        <4>1. a + i - 1 \in 1..n /\ (a + i - 1) + 1 = a + i
          BY <1>0, <2>1
        <4> QED BY <1>2, <4>1
      <3> HIDE DEF u, v
      <3>4. \A i \in 1..Len(u) : u[i] = v[i]
        BY <3>1, <3>2, <3>3
      <3>5. u = v
        BY <3>1, <3>2, <3>4, SeqEqual
      <3> QED BY <3>5 DEF u, v
    <2> QED BY <2>1, <2>3, <2>4
  <1>6. trim(y) = trim(x)
    BY <1>4, <1>5, TrimCases DEF y
  <1> QED BY <1>6 DEF y

\* to_ascii_lowercase keeps the length and the blanks of a text.
LEMMA LowerIs ==
  ASSUME NEW x \in Seq(Characters)
  PROVE  /\ to_ascii_lowercase(x) \in Seq(Characters)
         /\ DOMAIN to_ascii_lowercase(x) = DOMAIN x /\ Len(to_ascii_lowercase(x)) = Len(x)
         /\ \A i \in DOMAIN x : /\ to_ascii_lowercase(x)[i] = IF x[i] = "A" THEN "a" ELSE x[i]
                                /\ to_ascii_lowercase(x)[i] = "blank" <=> x[i] = "blank"
  BY DEF to_ascii_lowercase, Characters

\* Texts that differ in case alone are trimmed to texts that differ in case alone.
LEMMA NormAlike ==
  ASSUME NEW x \in Seq(Characters), NEW y \in Seq(Characters),
         to_ascii_lowercase(x) = to_ascii_lowercase(y)
  PROVE  to_ascii_lowercase(trim(x)) = to_ascii_lowercase(trim(y))
  <1>1. DOMAIN x = DOMAIN y
    BY LowerIs
  <1>2. \A i \in DOMAIN x : (IF x[i] = "A" THEN "a" ELSE x[i]) = (IF y[i] = "A" THEN "a" ELSE y[i])
    BY <1>1, LowerIs
  <1>3. \A i \in DOMAIN x : x[i] = "blank" <=> y[i] = "blank"
    BY <1>2
  <1>4. CASE trim(x) = <<>> /\ trim(y) = <<>>
    BY <1>4
  <1>5. ASSUME NEW a \in Nat, NEW b \in Nat, 1 <= a, a <= b, b <= Len(x), Len(y) = Len(x),
               trim(x) = SubSeq(x, a, b), trim(y) = SubSeq(y, a, b)
        PROVE  to_ascii_lowercase(trim(x)) = to_ascii_lowercase(trim(y))
    <2>1. /\ SubSeq(x, a, b) \in Seq(Characters) /\ SubSeq(y, a, b) \in Seq(Characters)
          /\ DOMAIN SubSeq(x, a, b) = 1..(b - a + 1) /\ DOMAIN SubSeq(y, a, b) = 1..(b - a + 1)
          /\ \A i \in 1..(b - a + 1) : /\ SubSeq(x, a, b)[i] = x[a + i - 1]
                                       /\ SubSeq(y, a, b)[i] = y[a + i - 1]
                                       /\ a + i - 1 \in DOMAIN x
      BY <1>5
    <2>2. \A i \in 1..(b - a + 1) :
            to_ascii_lowercase(SubSeq(x, a, b))[i] = to_ascii_lowercase(SubSeq(y, a, b))[i]
      BY <1>2, <2>1 DEF to_ascii_lowercase
    <2>3. to_ascii_lowercase(SubSeq(x, a, b)) = to_ascii_lowercase(SubSeq(y, a, b))
      BY <2>1, <2>2 DEF to_ascii_lowercase
    <2> QED BY <1>5, <2>3
  <1> QED BY <1>1, <1>3, <1>4, <1>5, TrimAlike

\* The check of an address depends on it only as it is after trim and
\* to_ascii_lowercase.
LEMMA EmailAlike ==
  ASSUME NEW x, NEW y, to_ascii_lowercase(trim(x)) = to_ascii_lowercase(trim(y))
  PROVE  email(x) = email(y)
  BY DEF email

\* The address that is stored passes the check and is stored as it is.
LEMMA EmailTwice ==
  ASSUME NEW x \in Seq(Characters), email(x) # Refused
  PROVE  email(email(x)) = email(x)
  <1> DEFINE t == trim(x)
             e == to_ascii_lowercase(t)
  <1>1. email(x) = e
    BY DEF email, Refused
  <1>2. t \in Seq(Characters) /\ trim(t) = t
    BY TrimTwice
  <1>3. e \in Seq(Characters) /\ to_ascii_lowercase(e) = e
    <2> HIDE DEF t
    <2>1. e \in Seq(Characters)
      BY <1>2, LowerIs
    <2>2. to_ascii_lowercase(e) = e
      BY DEF to_ascii_lowercase
    <2> QED BY <2>1, <2>2
  <1>4. to_ascii_lowercase(trim(e)) = to_ascii_lowercase(trim(t))
    <2> HIDE DEF e, t
    <2>1. to_ascii_lowercase(e) = to_ascii_lowercase(t)
      BY <1>3 DEF e
    <2> QED BY <1>2, <1>3, <2>1, NormAlike
  <1>5. to_ascii_lowercase(trim(e)) = to_ascii_lowercase(trim(x))
    BY <1>2, <1>4
  <1> QED BY <1>1, <1>5, EmailAlike

-----------------------------------------------------------------------------
(* The fields of requests.                                                 *)

\* What is stored of a field is what its check made of it.
LEMMA FieldInvariance ==
  InputsSpec => []FieldInv
  <1>1. InputsInit => FieldInv
    BY DEF InputsInit, FieldInv
  <1>2. FieldInv /\ [InputsNext]_<<vars, field>> => FieldInv'
    <2> SUFFICES ASSUME FieldInv, [InputsNext]_<<vars, field>> PROVE FieldInv'
      OBVIOUS
    <2>1. ASSUME NEW raw \in Addresses, Send("email", raw, raw) PROVE FieldInv'
      BY <2>1 DEF Send, FieldInv
    <2>2. ASSUME NEW name \in TextFields, NEW raw \in Texts, Send(name, raw, raw) PROVE FieldInv'
      BY <2>2 DEF Send, FieldInv
    <2>3. ASSUME NEW name \in ByteFields, NEW raw \in Encodings, Send(name, <<>>, raw) PROVE FieldInv'
      BY <2>3 DEF Send, FieldInv
    <2>4. ASSUME NEW name \in ByteFields, NEW bytes \in ByteStrings, Send(name, bytes, encode(bytes))
          PROVE  FieldInv'
      BY <2>4 DEF Send, FieldInv
    <2>5. CASE Submit
      BY <2>1, <2>2, <2>3, <2>4, <2>5 DEF Submit
    <2>6. CASE Answered
      BY <2>6 DEF Answered, FieldInv
    <2>7. CASE UNCHANGED field
      BY <2>7 DEF FieldInv
    <2> QED BY <2>5, <2>6, <2>7 DEF InputsNext
  <1> QED BY <1>1, <1>2, PTL DEF InputsSpec

\* Whatever its case and the blanks around it, an address is one account, and
\* different addresses are different accounts.
THEOREM Mailboxes ==
  InputsSpec => []MailboxIsAccount
  <1>1. FieldInv => MailboxIsAccount
    <2> SUFFICES ASSUME FieldInv, field.name = "email" PROVE MailboxIsAccount
      BY DEF MailboxIsAccount
    <2> DEFINE x == field.sent
               e == field.stored
               capitals == [i \in DOMAIN x |-> IF x[i] = "a" THEN "A" ELSE x[i]]
    <2>1. x \in Seq(Characters) /\ e = email(x)
      BY InputsAssumption DEF FieldInv, NoField, TextFields, ByteFields, check
    <2> HIDE DEF x, e
    <2>2. email(capitals) = e
      <3>1. capitals \in Seq(Characters)
        BY <2>1 DEF Characters
      <3>2. to_ascii_lowercase(capitals) = to_ascii_lowercase(x)
        BY DEF to_ascii_lowercase
      <3> HIDE DEF capitals
      <3> QED BY <2>1, <3>1, <3>2, NormAlike, EmailAlike
    <2>3. email(<<"blank">> \o x \o <<"blank">>) = e
      BY <2>1, TrimPadded, EmailAlike
    <2>4. ASSUME e # Refused
          PROVE  \E i \in 0..(Len(x) - Len(e)) :
                   \A j \in DOMAIN x :
                     IF j \in (i + 1)..(i + Len(e))
                     THEN e[j - i] = (IF x[j] = "A" THEN "a" ELSE x[j])
                     ELSE x[j] = "blank"
      <3>1. e = to_ascii_lowercase(trim(x))
        BY <2>1, <2>4 DEF email, Refused
      <3>2. trim(x) # <<>>
        BY <2>4, <3>1 DEF to_ascii_lowercase, Refused
      <3>3. PICK a, b \in DOMAIN x : Ends(x, a, b)
        BY <2>1, <3>2, TrimCases
      <3>4. trim(x) = SubSeq(x, a, b) /\ 1 <= a /\ a <= b /\ b <= Len(x) /\ a \in Nat /\ b \in Nat
        BY <2>1, <3>3, TrimIs
      <3>5. /\ SubSeq(x, a, b) \in Seq(Characters) /\ Len(SubSeq(x, a, b)) = b - a + 1
            /\ \A k \in 1..(b - a + 1) : SubSeq(x, a, b)[k] = x[a + k - 1]
        BY <2>1, <3>4
      <3>6. /\ Len(e) = b - a + 1
            /\ \A k \in 1..(b - a + 1) : e[k] = IF x[a + k - 1] = "A" THEN "a" ELSE x[a + k - 1]
        <4> DEFINE t == SubSeq(x, a, b)
        <4>1. t \in Seq(Characters) /\ Len(t) = b - a + 1 /\ DOMAIN t = 1..(b - a + 1)
          BY <3>5
        <4>2. e = to_ascii_lowercase(t)
          BY <3>1, <3>4
        <4>3. \A k \in 1..(b - a + 1) : t[k] = x[a + k - 1]
          BY <3>5
        <4> HIDE DEF t
        <4>4. Len(e) = b - a + 1 /\ \A k \in DOMAIN t : e[k] = IF t[k] = "A" THEN "a" ELSE t[k]
          BY <4>1, <4>2, LowerIs
        <4> QED BY <4>1, <4>3, <4>4
      <3>7. ASSUME NEW j \in DOMAIN x
            PROVE  IF j \in ((a - 1) + 1)..((a - 1) + Len(e))
                   THEN e[j - (a - 1)] = (IF x[j] = "A" THEN "a" ELSE x[j])
                   ELSE x[j] = "blank"
        <4>1. j \in Nat
          BY <2>1
        <4>2. CASE a <= j /\ j <= b
          <5>1. j - (a - 1) \in 1..(b - a + 1) /\ a + (j - (a - 1)) - 1 = j
            BY <3>4, <4>1, <4>2
          <5>2. e[j - (a - 1)] = (IF x[j] = "A" THEN "a" ELSE x[j])
            <6> DEFINE k == j - (a - 1)
            <6>1. k \in 1..(b - a + 1) /\ a + k - 1 = j
              BY <5>1
            <6> HIDE DEF k
            <6>2. e[k] = IF x[a + k - 1] = "A" THEN "a" ELSE x[a + k - 1]
              BY <3>6, <6>1
            <6> QED BY <6>1, <6>2 DEF k
          <5>3. j \in ((a - 1) + 1)..((a - 1) + Len(e))
            BY <3>4, <3>6, <4>1, <4>2
          <5> QED BY <5>2, <5>3
        <4>3. CASE ~(a <= j /\ j <= b)
          BY <3>3, <3>4, <3>6, <4>1, <4>3 DEF Ends
        <4> QED BY <4>2, <4>3
      <3>8. a - 1 \in 0..(Len(x) - Len(e))
        BY <2>1, <3>4, <3>6
      <3> QED BY <3>7, <3>8
    <2> QED BY <2>2, <2>3, <2>4 DEF MailboxIsAccount, x, e
  <1> QED BY <1>1, FieldInvariance, PTL

-----------------------------------------------------------------------------
(* Base64.                                                                 *)

\* Two numbers in one, and apart again.
LEMMA Pack ==
  ASSUME NEW m \in Nat, NEW q \in Nat, NEW a \in 0..(m - 1), NEW b \in 0..(q - 1)
  PROVE  a * q + b \in 0..(m * q - 1) /\ (a * q + b) \div q = a /\ (a * q + b) % q = b
  <1>1. q > 0 /\ a \in Nat /\ b \in Nat /\ b < q /\ a <= m - 1
    OBVIOUS
  <1>2. (a * q + b) \div q = a /\ (a * q + b) % q = b
    BY <1>1
  <1>3. a * q <= (m - 1) * q /\ (m - 1) * q = m * q - q /\ a * q \in Nat /\ m * q \in Nat
    BY <1>1
  <1>4. a * q + b \in 0..(m * q - 1)
    BY <1>1, <1>3
  <1> QED BY <1>2, <1>4

\* A number in two parts, and whole again.
LEMMA Unpack ==
  ASSUME NEW m \in Nat, NEW q \in Nat \ {0}, NEW x \in 0..(m * q - 1)
  PROVE  /\ x \div q \in 0..(m - 1) /\ x % q \in 0..(q - 1)
         /\ (x \div q) * q + (x % q) = x
  <1>1. x \in Nat /\ x < m * q
    OBVIOUS
  <1>2. x \div q \in Nat /\ x % q \in 0..(q - 1) /\ (x \div q) * q + (x % q) = x
    BY <1>1
  <1>3. x \div q < m
    <2> DEFINE d == x \div q
    <2>1. d \in Nat /\ d * q <= x
      BY <1>1, <1>2
    <2> HIDE DEF d
    <2>2. d >= m => d * q >= m * q
      BY <2>1
    <2>3. d * q \in Nat /\ m * q \in Nat
      BY <2>1
    <2> QED BY <1>1, <2>1, <2>2, <2>3 DEF d
  <1> QED BY <1>2, <1>3

\* The sizes of digits and bytes: three and four times what they share.
LEMMA Sizes ==
  /\ Radix \in Nat \ {0} /\ Square \in Nat \ {0} /\ Cube \in Nat \ {0}
  /\ Digits = 0..(Cube * 1 - 1) /\ Digits = 0..(Square * Radix - 1) /\ Digits = 0..(Radix * Square - 1)
  /\ Bytes = 0..(Cube * Radix - 1) /\ Bytes = 0..(Square * Square - 1) /\ Bytes = 0..(Radix * Cube - 1)
  /\ 0 \in Digits /\ 0 \in Bytes /\ Pad = Cube
  <1>1. Radix \in Nat /\ Radix >= 2
    BY ValidateAssumption
  <1>2. PICK r \in Nat : r = Radix /\ r >= 2
    BY <1>1
  <1>3. r * r \in Nat /\ r * r > 0
    BY <1>2
  <1>4. PICK q \in Nat : q = r * r /\ q > 0
    BY <1>3
  <1>5. q * r \in Nat /\ q * r > 0 /\ q * r = r * q
    BY <1>2, <1>4
  <1>6. PICK c \in Nat : c = q * r /\ c > 0
    BY <1>5
  <1>7. c * r = q * q /\ c * r = r * c /\ c * r > 0
    <2>1. c * r = (q * r) * r /\ (q * r) * r = q * (r * r)
      BY <1>2, <1>4, <1>6
    <2>2. c * r > 0 /\ c * r = r * c
      BY <1>2, <1>6
    <2> QED BY <1>4, <2>1, <2>2
  <1>8. Radix = r /\ Square = q /\ Cube = c
    BY <1>2, <1>4, <1>6 DEF Square, Cube
  <1> QED BY <1>2, <1>4, <1>5, <1>6, <1>7, <1>8 DEF Digits, Bytes, Pad

\* Three bytes make four digits, which make the three bytes.
LEMMA GroupOfBytes ==
  ASSUME NEW b1 \in Bytes, NEW b2 \in Bytes, NEW b3 \in Bytes
  PROVE  LET d(j) == digit(b1, b2, b3, j) IN
         /\ \A j \in 1..4 : d(j) \in Digits
         /\ byte(d(1), d(2), d(3), d(4), 1) = b1
         /\ byte(d(1), d(2), d(3), d(4), 2) = b2
         /\ byte(d(1), d(2), d(3), d(4), 3) = b3
  <1> DEFINE d1 == b1 \div Radix
             d2 == (b1 % Radix) * Square + (b2 \div Square)
             d3 == (b2 % Square) * Radix + (b3 \div Cube)
             d4 == b3 % Cube
  <1>0. /\ Radix \in Nat \ {0} /\ Square \in Nat \ {0} /\ Cube \in Nat \ {0}
        /\ Radix \in Nat /\ Square \in Nat /\ Cube \in Nat
        /\ b1 \in 0..(Cube * Radix - 1) /\ b2 \in 0..(Square * Square - 1) /\ b3 \in 0..(Radix * Cube - 1)
    BY Sizes
  <1>1. /\ b1 \div Radix \in 0..(Cube - 1) /\ b1 % Radix \in 0..(Radix - 1)
        /\ (b1 \div Radix) * Radix + (b1 % Radix) = b1
    BY <1>0, Unpack
  <1>2. /\ b2 \div Square \in 0..(Square - 1) /\ b2 % Square \in 0..(Square - 1)
        /\ (b2 \div Square) * Square + (b2 % Square) = b2
    BY <1>0, Unpack
  <1>3. /\ b3 \div Cube \in 0..(Radix - 1) /\ b3 % Cube \in 0..(Cube - 1)
        /\ (b3 \div Cube) * Cube + (b3 % Cube) = b3
    BY <1>0, Unpack
  <1>4. d2 \in 0..(Radix * Square - 1) /\ d2 \div Square = b1 % Radix /\ d2 % Square = b2 \div Square
    <2> DEFINE u == b1 % Radix
               v == b2 \div Square
    <2>1. u \in 0..(Radix - 1) /\ v \in 0..(Square - 1)
      BY <1>1, <1>2
    <2> HIDE DEF u, v
    <2>2. /\ u * Square + v \in 0..(Radix * Square - 1)
          /\ (u * Square + v) \div Square = u /\ (u * Square + v) % Square = v
      BY <1>0, <2>1, Pack
    <2> QED BY <2>2 DEF u, v
  <1>5. d3 \in 0..(Square * Radix - 1) /\ d3 \div Radix = b2 % Square /\ d3 % Radix = b3 \div Cube
    <2> DEFINE u == b2 % Square
               v == b3 \div Cube
    <2>1. u \in 0..(Square - 1) /\ v \in 0..(Radix - 1)
      BY <1>2, <1>3
    <2> HIDE DEF u, v
    <2>2. /\ u * Radix + v \in 0..(Square * Radix - 1)
          /\ (u * Radix + v) \div Radix = u /\ (u * Radix + v) % Radix = v
      BY <1>0, <2>1, Pack
    <2> QED BY <2>2 DEF u, v
  <1>6. d1 \in Digits /\ d2 \in Digits /\ d3 \in Digits /\ d4 \in Digits
    BY <1>1, <1>3, <1>4, <1>5, Sizes DEF Digits
  <1>7. /\ digit(b1, b2, b3, 1) = d1 /\ digit(b1, b2, b3, 2) = d2
        /\ digit(b1, b2, b3, 3) = d3 /\ digit(b1, b2, b3, 4) = d4
    BY DEF digit
  <1>8. /\ byte(d1, d2, d3, d4, 1) = d1 * Radix + (d2 \div Square)
        /\ byte(d1, d2, d3, d4, 2) = (d2 % Square) * Square + (d3 \div Radix)
        /\ byte(d1, d2, d3, d4, 3) = (d3 % Radix) * Cube + d4
    BY DEF byte
  <1>9. \A j \in 1..4 : j = 1 \/ j = 2 \/ j = 3 \/ j = 4
    OBVIOUS
  <1> HIDE DEF d2, d3
  <1> QED BY <1>1, <1>2, <1>3, <1>4, <1>5, <1>6, <1>7, <1>8, <1>9

\* Four digits make three bytes, which make the four digits.
LEMMA GroupOfDigits ==
  ASSUME NEW d1 \in Digits, NEW d2 \in Digits, NEW d3 \in Digits, NEW d4 \in Digits
  PROVE  LET b(j) == byte(d1, d2, d3, d4, j) IN
         /\ b(1) \in Bytes /\ b(2) \in Bytes /\ b(3) \in Bytes
         /\ digit(b(1), b(2), b(3), 1) = d1 /\ digit(b(1), b(2), b(3), 2) = d2
         /\ digit(b(1), b(2), b(3), 3) = d3 /\ digit(b(1), b(2), b(3), 4) = d4
  <1> DEFINE b1 == d1 * Radix + (d2 \div Square)
             b2 == (d2 % Square) * Square + (d3 \div Radix)
             b3 == (d3 % Radix) * Cube + d4
  <1>0. /\ Radix \in Nat \ {0} /\ Square \in Nat \ {0} /\ Cube \in Nat \ {0}
        /\ Radix \in Nat /\ Square \in Nat /\ Cube \in Nat
        /\ d2 \in 0..(Radix * Square - 1) /\ d3 \in 0..(Square * Radix - 1)
    BY Sizes
  <1>1. /\ d2 \div Square \in 0..(Radix - 1) /\ d2 % Square \in 0..(Square - 1)
        /\ (d2 \div Square) * Square + (d2 % Square) = d2
    BY <1>0, Unpack
  <1>2. /\ d3 \div Radix \in 0..(Square - 1) /\ d3 % Radix \in 0..(Radix - 1)
        /\ (d3 \div Radix) * Radix + (d3 % Radix) = d3
    BY <1>0, Unpack
  <1>3. d1 \in 0..(Cube - 1) /\ d4 \in 0..(Cube - 1)
    BY DEF Digits
  <1>4. b1 \in 0..(Cube * Radix - 1) /\ b1 \div Radix = d1 /\ b1 % Radix = d2 \div Square
    BY SMTT(30), <1>1, <1>3, Sizes, Pack
  <1>5. b2 \in 0..(Square * Square - 1) /\ b2 \div Square = d2 % Square /\ b2 % Square = d3 \div Radix
    <2> DEFINE u == d2 % Square
               v == d3 \div Radix
    <2>1. u \in 0..(Square - 1) /\ v \in 0..(Square - 1)
      BY <1>1, <1>2
    <2> HIDE DEF u, v
    <2>2. /\ u * Square + v \in 0..(Square * Square - 1)
          /\ (u * Square + v) \div Square = u /\ (u * Square + v) % Square = v
      BY <1>0, <2>1, Pack
    <2> QED BY <2>2 DEF u, v
  <1>6. b3 \in 0..(Radix * Cube - 1) /\ b3 \div Cube = d3 % Radix /\ b3 % Cube = d4
    <2> DEFINE u == d3 % Radix
               v == d4
    <2>1. u \in 0..(Radix - 1) /\ v \in 0..(Cube - 1)
      BY <1>2, <1>3
    <2> HIDE DEF u, v
    <2>2. /\ u * Cube + v \in 0..(Radix * Cube - 1)
          /\ (u * Cube + v) \div Cube = u /\ (u * Cube + v) % Cube = v
      BY <1>0, <2>1, Pack
    <2> QED BY <2>2 DEF u, v
  <1>7. b1 \in Bytes /\ b2 \in Bytes /\ b3 \in Bytes
    BY <1>4, <1>5, <1>6, Sizes
  <1>8. /\ byte(d1, d2, d3, d4, 1) = b1 /\ byte(d1, d2, d3, d4, 2) = b2
        /\ byte(d1, d2, d3, d4, 3) = b3
    BY DEF byte
  <1>9. /\ digit(b1, b2, b3, 1) = b1 \div Radix
        /\ digit(b1, b2, b3, 2) = (b1 % Radix) * Square + (b2 \div Square)
        /\ digit(b1, b2, b3, 3) = (b2 % Square) * Radix + (b3 \div Cube)
        /\ digit(b1, b2, b3, 4) = b3 % Cube
    BY DEF digit
  <1> HIDE DEF b1, b2, b3
  <1> QED BY <1>1, <1>2, <1>4, <1>5, <1>6, <1>7, <1>8, <1>9

\* A byte of a text of bytes, or what the encoder takes for one after its end.
ByteOrNil(bytes, k) == IF k <= Len(bytes) THEN bytes[k] ELSE 0

\* A digit of a text, none for padding.
DigitAt(text, k) == text[k] % Pad

\* The encoding of bytes, digit by digit.
LEMMA EncodeAt ==
  ASSUME NEW bytes \in Seq(Bytes), NEW N \in Nat, N = (Len(bytes) + 2) \div 3
  PROVE  /\ Len(encode(bytes)) = N * 4 /\ DOMAIN encode(bytes) = 1..(N * 4)
         /\ encode(bytes) \in Seq(0..Other)
         /\ \A q \in 0..(N - 1), j \in 1..4 :
              encode(bytes)[4 * q + j] =
                IF 3 * q + j > Len(bytes) + 1 THEN Pad
                ELSE digit(ByteOrNil(bytes, 3 * q + 1), ByteOrNil(bytes, 3 * q + 2),
                           ByteOrNil(bytes, 3 * q + 3), j)
  <1> DEFINE b(k) == ByteOrNil(bytes, k)
             group(i) == 3 * ((i - 1) \div 4)
             place(i) == ((i - 1) % 4) + 1
             char(i) == IF group(i) + place(i) > Len(bytes) + 1 THEN Pad
                        ELSE digit(b(group(i) + 1), b(group(i) + 2), b(group(i) + 3), place(i))
  <1>1. encode(bytes) = [i \in 1..(N * 4) |-> char(i)]
    BY DEF encode, ByteOrNil
  <1>2. \A k \in Nat \ {0} : b(k) \in Bytes
    BY Sizes, ElementOfSeq DEF ByteOrNil
  <1>3. \A i \in 1..(N * 4) : char(i) \in 0..Other
    <2> SUFFICES ASSUME NEW i \in 1..(N * 4) PROVE char(i) \in 0..Other
      OBVIOUS
    <2>1. group(i) \in Nat /\ place(i) \in 1..4
      OBVIOUS
    <2>2. digit(b(group(i) + 1), b(group(i) + 2), b(group(i) + 3), place(i)) \in Digits
      <3> HIDE DEF b, group, place
      <3>1. b(group(i) + 1) \in Bytes /\ b(group(i) + 2) \in Bytes /\ b(group(i) + 3) \in Bytes
        BY <1>2, <2>1
      <3> QED BY <2>1, <3>1, GroupOfBytes
    <2>3. Pad \in 0..Other /\ \A d \in Digits : d \in 0..Other
      BY Sizes DEF Digits, Other, Pad
    <2> HIDE DEF b, group, place
    <2> QED BY <2>2, <2>3
  <1>4. \A q \in 0..(N - 1), j \in 1..4 :
          4 * q + j \in 1..(N * 4) /\ group(4 * q + j) = 3 * q /\ place(4 * q + j) = j
    OBVIOUS
  <1> HIDE DEF group, place
  <1>5. \A q \in 0..(N - 1), j \in 1..4 :
          encode(bytes)[4 * q + j] = IF 3 * q + j > Len(bytes) + 1 THEN Pad
                                     ELSE digit(b(3 * q + 1), b(3 * q + 2), b(3 * q + 3), j)
    BY <1>1, <1>4
  <1> HIDE DEF char
  <1>6. Len(encode(bytes)) = N * 4 /\ DOMAIN encode(bytes) = 1..(N * 4)
    BY <1>1
  <1>7. encode(bytes) \in Seq(0..Other)
    BY <1>1, <1>3
  <1> QED BY <1>5, <1>6, <1>7

\* The decoding of a text of whole groups, byte by byte.
LEMMA DecodeAt ==
  ASSUME NEW text \in Seq(0..Other), NEW M \in Nat \ {0}, Len(text) = M * 4
  PROVE  /\ pads(text) \in 0..2
         /\ \A k \in 1..(M * 4) : DigitAt(text, k) \in Digits
         /\ decode(text) \in Seq(Bytes) /\ Len(decode(text)) = M * 3 - pads(text)
         /\ \A q \in Nat, j \in 1..3 : 3 * q + j <= M * 3 - pads(text) =>
              decode(text)[3 * q + j] =
                byte(DigitAt(text, 4 * q + 1), DigitAt(text, 4 * q + 2),
                     DigitAt(text, 4 * q + 3), DigitAt(text, 4 * q + 4), j)
  <1> DEFINE d(k) == DigitAt(text, k)
             n == M * 3 - pads(text)
             group(i) == 4 * ((i - 1) \div 3)
             place(i) == ((i - 1) % 3) + 1
             char(i) == byte(d(group(i) + 1), d(group(i) + 2), d(group(i) + 3), d(group(i) + 4), place(i))
  <1>1. pads(text) \in 0..2
    BY DEF pads
  <1>2. n \in Nat /\ (Len(text) \div 4) * 3 - pads(text) = n
    BY <1>1
  <1>3. decode(text) = [i \in 1..n |-> char(i)]
    <2> HIDE DEF n
    <2> QED BY <1>2 DEF decode, DigitAt
  <1>4. \A k \in 1..(M * 4) : d(k) \in Digits
    <2> SUFFICES ASSUME NEW k \in 1..(M * 4) PROVE d(k) \in Digits
      OBVIOUS
    <2>1. text[k] \in 0..Other
      BY ElementOfSeq
    <2>2. Pad \in Nat /\ Pad > 0 /\ text[k] \in Nat
      BY <2>1, Sizes DEF Other, Pad
    <2>3. text[k] % Pad \in 0..(Pad - 1)
      BY <2>2
    <2> QED BY <2>3 DEF Digits, Pad, DigitAt
  <1>5. \A i \in 1..n : char(i) \in Bytes
    <2> SUFFICES ASSUME NEW i \in 1..n PROVE char(i) \in Bytes
      OBVIOUS
    <2>1. group(i) \in Nat /\ group(i) + 4 <= M * 4 /\ place(i) \in {1, 2, 3}
      BY <1>1
    <2>2. /\ d(group(i) + 1) \in Digits /\ d(group(i) + 2) \in Digits
          /\ d(group(i) + 3) \in Digits /\ d(group(i) + 4) \in Digits
      <3> HIDE DEF d, group
      <3> QED BY <1>4, <2>1
    <2> HIDE DEF d, group, place
    <2> QED BY <2>1, <2>2, GroupOfDigits
  <1>6. \A q \in Nat, j \in 1..3 : 3 * q + j <= n =>
          3 * q + j \in 1..n /\ group(3 * q + j) = 4 * q /\ place(3 * q + j) = j
    <2> HIDE DEF n
    <2> QED BY <1>2
  <1> HIDE DEF group, place, n
  <1>7. \A q \in Nat, j \in 1..3 : 3 * q + j <= n =>
          decode(text)[3 * q + j] = byte(d(4 * q + 1), d(4 * q + 2), d(4 * q + 3), d(4 * q + 4), j)
    BY <1>3, <1>6
  <1> HIDE DEF char
  <1>8. Len(decode(text)) = n /\ decode(text) \in Seq(Bytes)
    BY <1>2, <1>3, <1>5
  <1> QED BY <1>1, <1>4, <1>7, <1>8 DEF n

\* The digits that bytes after the end would make hold no bits of the others.
LEMMA NilDigits ==
  ASSUME NEW b1 \in Bytes, NEW b2 \in Bytes
  PROVE  /\ digit(b1, b2, 0, 4) = 0 /\ digit(b1, b2, 0, 3) % Radix = 0
         /\ digit(b1, 0, 0, 3) = 0 /\ digit(b1, 0, 0, 2) % Square = 0
  <1>1. /\ Radix \in Nat \ {0} /\ Square \in Nat \ {0} /\ Cube \in Nat \ {0}
        /\ 0 \div Cube = 0 /\ 0 % Cube = 0 /\ 0 \div Square = 0 /\ 0 % Square = 0
    BY Sizes
  <1>2. b1 % Radix \in Nat /\ b2 % Square \in Nat
    BY <1>1 DEF Bytes
  <1>3. /\ digit(b1, b2, 0, 4) = 0 /\ digit(b1, b2, 0, 3) = (b2 % Square) * Radix + 0
        /\ digit(b1, 0, 0, 3) = 0 * Radix + 0 /\ digit(b1, 0, 0, 2) = (b1 % Radix) * Square + 0
    BY <1>1 DEF digit
  <1>4. \A a \in Nat, q \in Nat \ {0} : (a * q + 0) % q = 0 /\ 0 * q + 0 = 0
    OBVIOUS
  <1> QED BY <1>1, <1>2, <1>3, <1>4

\* encode answers what the decoder takes: its padding is as long as the last
\* group is short, and its unused bits are zero.
LEMMA EncodingIsCanonical ==
  ASSUME NEW bytes \in Seq(Bytes), bytes # <<>>, NEW N \in Nat, N = (Len(bytes) + 2) \div 3
  PROVE  canonical(encode(bytes)) /\ pads(encode(bytes)) = N * 3 - Len(bytes)
  <1> DEFINE t == encode(bytes)
             n == Len(bytes)
             b(k) == ByteOrNil(bytes, k)
  <1>1. n \in Nat /\ n > 0
    BY EmptySeq
  <1>2. N > 0 /\ n <= N * 3 /\ N * 3 <= n + 2
    BY <1>1
  <1>3. /\ Len(t) = N * 4 /\ DOMAIN t = 1..(N * 4) /\ t \in Seq(0..Other)
        /\ \A q \in 0..(N - 1), j \in 1..4 :
             t[4 * q + j] = IF 3 * q + j > n + 1 THEN Pad
                            ELSE digit(b(3 * q + 1), b(3 * q + 2), b(3 * q + 3), j)
    BY EncodeAt
  <1>4. \A k \in Nat \ {0} : b(k) \in Bytes
    BY Sizes, ElementOfSeq DEF ByteOrNil
  <1> HIDE DEF t
  <1>5. \A q \in 0..(N - 1), j \in 1..4 :
          digit(b(3 * q + 1), b(3 * q + 2), b(3 * q + 3), j) \in Digits
    <2> SUFFICES ASSUME NEW q \in 0..(N - 1), NEW j \in 1..4
                 PROVE  digit(b(3 * q + 1), b(3 * q + 2), b(3 * q + 3), j) \in Digits
      OBVIOUS
    <2>1. b(3 * q + 1) \in Bytes /\ b(3 * q + 2) \in Bytes /\ b(3 * q + 3) \in Bytes
      BY <1>4
    <2> HIDE DEF b
    <2> QED BY <2>1, GroupOfBytes
  <1>6. \A d \in Digits : d # Pad
    BY Sizes DEF Digits, Pad
  <1> DEFINE l == N - 1
  <1>7. /\ l \in 0..(N - 1) /\ N * 4 = 4 * l + 4 /\ N * 4 - 1 = 4 * l + 3 /\ N * 4 - 2 = 4 * l + 2
        /\ 3 * l = N * 3 - 3
    BY <1>2
  <1>8. t[N * 4] = Pad <=> n < N * 3
    <2>1. 3 * l + 4 > n + 1 <=> n < N * 3
      BY <1>1, <1>2
    <2> HIDE DEF n, b, l
    <2>2. /\ t[4 * l + 4] = IF 3 * l + 4 > n + 1 THEN Pad
                             ELSE digit(b(3 * l + 1), b(3 * l + 2), b(3 * l + 3), 4)
          /\ digit(b(3 * l + 1), b(3 * l + 2), b(3 * l + 3), 4) \in Digits
      BY <1>3, <1>5, <1>7
    <2> QED BY <1>6, <1>7, <2>1, <2>2
  <1>9. t[N * 4 - 1] = Pad <=> n + 1 < N * 3
    <2>1. 3 * l + 3 > n + 1 <=> n + 1 < N * 3
      BY <1>1, <1>2
    <2> HIDE DEF n, b, l
    <2>2. /\ t[4 * l + 3] = IF 3 * l + 3 > n + 1 THEN Pad
                             ELSE digit(b(3 * l + 1), b(3 * l + 2), b(3 * l + 3), 3)
          /\ digit(b(3 * l + 1), b(3 * l + 2), b(3 * l + 3), 3) \in Digits
      BY <1>3, <1>5, <1>7
    <2> QED BY <1>6, <1>7, <2>1, <2>2
  <1>10. pads(t) = N * 3 - n
    BY <1>1, <1>2, <1>3, <1>8, <1>9 DEF pads
  <1>11. ASSUME NEW i \in DOMAIN t
         PROVE  t[i] \in (IF i > Len(t) - pads(t) THEN {Pad} ELSE Digits)
    <2>1. PICK q \in 0..(N - 1), j \in 1..4 : i = 4 * q + j
      <3>1. i \in 1..(N * 4)
        BY <1>3
      <3>2. (i - 1) \div 4 \in 0..(N - 1) /\ ((i - 1) % 4) + 1 \in 1..4
            /\ i = 4 * ((i - 1) \div 4) + (((i - 1) % 4) + 1)
        BY SMTT(30), <3>1
      <3> QED BY <3>2
    <2>2. 3 * q + j > n + 1 <=> i > N * 4 - (N * 3 - n)
      <3> HIDE DEF n
      <3> QED BY <1>1, <1>2, <2>1
    <2> HIDE DEF n, b
    <2> QED BY <1>3, <1>5, <1>10, <2>1, <2>2
  <1>12. b(3 * l + 1) \in Bytes /\ b(3 * l + 2) \in Bytes
    BY <1>2, <1>4
  <1>13. ASSUME pads(t) = 1 PROVE t[Len(t) - 1] % Radix = 0
    <2>1. n = N * 3 - 1
      BY <1>1, <1>10, <1>13
    <2>2. b(3 * l + 3) = 0
      BY <1>2, <2>1 DEF ByteOrNil
    <2>3. t[4 * l + 3] = digit(b(3 * l + 1), b(3 * l + 2), b(3 * l + 3), 3)
      <3>1. ~(3 * l + 3 > n + 1)
        BY <1>2, <2>1
      <3> HIDE DEF n, b, l
      <3> QED BY <1>3, <1>7, <3>1
    <2> HIDE DEF n, b, l
    <2>4. t[4 * l + 3] % Radix = 0
      BY <1>12, <2>2, <2>3, NilDigits
    <2> QED BY <1>3, <1>7, <2>4
  <1>14. ASSUME pads(t) = 2 PROVE t[Len(t) - 2] % Square = 0
    <2>1. n = N * 3 - 2
      BY <1>1, <1>10, <1>14
    <2>2. b(3 * l + 3) = 0 /\ b(3 * l + 2) = 0
      BY <1>2, <2>1 DEF ByteOrNil
    <2>3. t[4 * l + 2] = digit(b(3 * l + 1), b(3 * l + 2), b(3 * l + 3), 2)
      <3>1. ~(3 * l + 2 > n + 1)
        BY <1>2, <2>1
      <3> HIDE DEF n, b, l
      <3> QED BY <1>3, <1>7, <3>1
    <2> HIDE DEF n, b, l
    <2>4. t[4 * l + 2] % Square = 0
      BY <1>12, <2>2, <2>3, NilDigits
    <2> QED BY <1>3, <1>7, <2>4
  <1>15. t # <<>> /\ Len(t) % 4 = 0
    <2>1. N * 4 > 0 /\ (N * 4) % 4 = 0
      BY <1>2
    <2> QED BY <1>3, <2>1
  <1> HIDE DEF n, b, l
  <1> QED BY <1>10, <1>11, <1>13, <1>14, <1>15 DEF canonical, t, n

\* Bytes that a client encodes are decoded to the same bytes.
LEMMA DecodeEncode ==
  ASSUME NEW bytes \in Seq(Bytes), bytes # <<>>
  PROVE  canonical(encode(bytes)) /\ decode(encode(bytes)) = bytes
  <1> DEFINE t == encode(bytes)
             n == Len(bytes)
             b(k) == ByteOrNil(bytes, k)
  <1>1. n \in Nat /\ n > 0
    BY EmptySeq
  <1>2. PICK N \in Nat : N = (n + 2) \div 3 /\ N > 0 /\ n <= N * 3 /\ N * 3 <= n + 2
    <2> HIDE DEF n
    <2>1. (n + 2) \div 3 \in Nat
      BY <1>1
    <2> QED BY <1>1, <2>1
  <1>3. canonical(t) /\ pads(t) = N * 3 - n
    BY <1>2, EncodingIsCanonical
  <1>4. /\ Len(t) = N * 4 /\ t \in Seq(0..Other)
        /\ \A q \in 0..(N - 1), j \in 1..4 :
             t[4 * q + j] = IF 3 * q + j > n + 1 THEN Pad
                            ELSE digit(b(3 * q + 1), b(3 * q + 2), b(3 * q + 3), j)
    BY <1>2, EncodeAt
  <1>5. \A k \in Nat \ {0} : b(k) \in Bytes
    BY Sizes, ElementOfSeq DEF ByteOrNil
  <1> HIDE DEF t
  <1>6. /\ decode(t) \in Seq(Bytes) /\ Len(decode(t)) = N * 3 - pads(t)
        /\ \A q \in Nat, j \in 1..3 : 3 * q + j <= N * 3 - pads(t) =>
              decode(t)[3 * q + j] = byte(DigitAt(t, 4 * q + 1), DigitAt(t, 4 * q + 2),
                                          DigitAt(t, 4 * q + 3), DigitAt(t, 4 * q + 4), j)
    <2>1. N \in Nat \ {0} /\ Len(t) = N * 4 /\ t \in Seq(0..Other)
      BY <1>2, <1>4
    <2> QED BY <2>1, DecodeAt
  <1>7. Len(decode(t)) = n
    BY <1>1, <1>2, <1>3, <1>6
  <1>8. ASSUME NEW q \in 0..(N - 1), NEW j \in 1..4
        PROVE  DigitAt(t, 4 * q + j) = digit(b(3 * q + 1), b(3 * q + 2), b(3 * q + 3), j)
    <2>1. b(3 * q + 1) \in Bytes /\ b(3 * q + 2) \in Bytes /\ b(3 * q + 3) \in Bytes
      BY <1>5
    <2>2. CASE 3 * q + j > n + 1
      <3>1. DigitAt(t, 4 * q + j) = Pad % Pad
        <4> HIDE DEF n, b
        <4> QED BY <1>4, <2>2 DEF DigitAt
      <3>2. Pad % Pad = 0
        BY Sizes
      <3>3. j = 4 \/ (j = 3 /\ 3 * q + 2 > n)
        <4> HIDE DEF n
        <4> QED BY <1>1, <1>2, <2>2
      <3>4. b(3 * q + 3) = 0
        BY <2>2, <1>1 DEF ByteOrNil
      <3>5. 3 * q + 2 > n => b(3 * q + 2) = 0
        BY DEF ByteOrNil
      <3> HIDE DEF n, b
      <3> QED BY <2>1, <3>1, <3>2, <3>3, <3>4, <3>5, NilDigits
    <2>3. CASE ~(3 * q + j > n + 1)
      <3> HIDE DEF n, b
      <3>1. DigitAt(t, 4 * q + j) = digit(b(3 * q + 1), b(3 * q + 2), b(3 * q + 3), j) % Pad
        BY <1>4, <2>3 DEF DigitAt
      <3>2. digit(b(3 * q + 1), b(3 * q + 2), b(3 * q + 3), j) \in Digits
        BY <2>1, GroupOfBytes
      <3>3. \A d \in Digits : d % Pad = d
        BY Sizes DEF Digits, Pad
      <3> QED BY <3>1, <3>2, <3>3
    <2> QED BY <2>2, <2>3
  <1>9. ASSUME NEW i \in 1..n PROVE decode(t)[i] = bytes[i]
    <2>1. PICK q \in 0..(N - 1), j \in 1..3 : i = 3 * q + j
      <3> HIDE DEF n
      <3>1. /\ (i - 1) \div 3 \in 0..(N - 1) /\ ((i - 1) % 3) + 1 \in 1..3
            /\ i = 3 * ((i - 1) \div 3) + (((i - 1) % 3) + 1)
        BY <1>1, <1>2
      <3> QED BY <3>1
    <2> DEFINE d(k) == digit(b(3 * q + 1), b(3 * q + 2), b(3 * q + 3), k)
    <2>2. decode(t)[i] = byte(d(1), d(2), d(3), d(4), j)
      <3>1. 3 * q + j <= N * 3 - pads(t) /\ q \in Nat
        BY <1>1, <1>2, <1>3, <2>1
      <3>2. /\ DigitAt(t, 4 * q + 1) = d(1) /\ DigitAt(t, 4 * q + 2) = d(2)
            /\ DigitAt(t, 4 * q + 3) = d(3) /\ DigitAt(t, 4 * q + 4) = d(4)
        <4> HIDE DEF b
        <4> QED BY <1>8
      <3> HIDE DEF d
      <3> QED BY <1>6, <2>1, <3>1, <3>2
    <2>3. b(3 * q + 1) \in Bytes /\ b(3 * q + 2) \in Bytes /\ b(3 * q + 3) \in Bytes
      BY <1>5
    <2>4. byte(d(1), d(2), d(3), d(4), j) = b(3 * q + j)
      <3>1. j = 1 \/ j = 2 \/ j = 3
        OBVIOUS
      <3> HIDE DEF b
      <3> QED BY <2>3, <3>1, GroupOfBytes
    <2> QED BY <2>1, <2>2, <2>4 DEF ByteOrNil
  <1> QED BY <1>3, <1>6, <1>7, <1>9, SeqEqual DEF t

\* A group that ends in padding, with its unused bits zero, holds nothing in the
\* place of the bytes that are missing.
LEMMA NilBytes ==
  ASSUME NEW d1 \in Digits, NEW d2 \in Digits, NEW d3 \in Digits
  PROVE  /\ d3 % Radix = 0 => byte(d1, d2, d3, 0, 3) = 0
         /\ d2 % Square = 0 => byte(d1, d2, 0, 0, 2) = 0 /\ byte(d1, d2, 0, 0, 3) = 0
  <1>1. /\ Radix \in Nat \ {0} /\ Square \in Nat \ {0} /\ Cube \in Nat \ {0}
        /\ 0 \div Radix = 0 /\ 0 % Radix = 0 /\ 0 * Cube + 0 = 0 /\ 0 * Square + 0 = 0
    BY Sizes
  <1>2. /\ byte(d1, d2, d3, 0, 3) = (d3 % Radix) * Cube + 0
        /\ byte(d1, d2, 0, 0, 2) = (d2 % Square) * Square + (0 \div Radix)
        /\ byte(d1, d2, 0, 0, 3) = (0 % Radix) * Cube + 0
    BY DEF byte
  <1> QED BY <1>1, <1>2

\* A text that the decoder takes is the only encoding of its bytes.
LEMMA EncodeDecode ==
  ASSUME NEW t \in Seq(0..Other), canonical(t)
  PROVE  decode(t) \in Seq(Bytes) /\ decode(t) # <<>> /\ encode(decode(t)) = t
  <1> DEFINE c == decode(t)
             p == pads(t)
             b(k) == ByteOrNil(c, k)
             d(k) == DigitAt(t, k)
  <1>1. PICK M \in Nat \ {0} : Len(t) = M * 4
    <2>1. Len(t) \in Nat \ {0} /\ Len(t) % 4 = 0
      BY EmptySeq DEF canonical
    <2>2. Len(t) \div 4 \in Nat \ {0} /\ Len(t) = (Len(t) \div 4) * 4
      BY <2>1
    <2> QED BY <2>2
  <1>2. /\ p \in 0..2 /\ \A k \in 1..(M * 4) : d(k) \in Digits
        /\ c \in Seq(Bytes) /\ Len(c) = M * 3 - p
        /\ \A q \in Nat, j \in 1..3 : 3 * q + j <= M * 3 - p =>
             c[3 * q + j] = byte(d(4 * q + 1), d(4 * q + 2), d(4 * q + 3), d(4 * q + 4), j)
    BY <1>1, DecodeAt
  <1>3. \A i \in 1..(M * 4) : t[i] \in (IF i > M * 4 - p THEN {Pad} ELSE Digits)
    BY <1>1, LenProperties DEF canonical
  <1>4. /\ p = 1 => t[M * 4 - 1] % Radix = 0
        /\ p = 2 => t[M * 4 - 2] % Square = 0
    BY <1>1 DEF canonical
  <1> HIDE DEF c, p
  <1>5. ASSUME NEW k \in 1..(M * 4)
        PROVE  IF k > M * 4 - p THEN d(k) = 0 ELSE d(k) = t[k]
    <2>1. Pad % Pad = 0 /\ \A x \in Digits : x % Pad = x
      BY Sizes DEF Digits, Pad
    <2> QED BY <1>3, <2>1 DEF DigitAt
  <1>6. M = (Len(c) + 2) \div 3
    BY <1>2
  <1> HIDE DEF d
  <1>7. ASSUME NEW q \in 0..(M - 1), NEW j \in 1..3
        PROVE  b(3 * q + j) = byte(d(4 * q + 1), d(4 * q + 2), d(4 * q + 3), d(4 * q + 4), j)
    <2>1. CASE 3 * q + j <= M * 3 - p
      <3>1. b(3 * q + j) = c[3 * q + j]
        BY <1>2, <2>1 DEF ByteOrNil
      <3>2. q \in Nat
        OBVIOUS
      <3> HIDE DEF b
      <3> QED BY <1>2, <2>1, <3>1, <3>2
    <2>2. CASE ~(3 * q + j <= M * 3 - p)
      <3>1. b(3 * q + j) = 0
        BY <1>2, <2>2 DEF ByteOrNil
      <3>2. q = M - 1 /\ p > 0 /\ (j = 3 \/ (j = 2 /\ p = 2))
        BY <1>2, <2>2
      <3>3. /\ 4 * q + 1 \in 1..(M * 4) /\ 4 * q + 2 \in 1..(M * 4)
            /\ 4 * q + 3 \in 1..(M * 4) /\ 4 * q + 4 \in 1..(M * 4)
            /\ 4 * q + 4 > M * 4 - p /\ 4 * q + 3 = M * 4 - 1 /\ 4 * q + 2 = M * 4 - 2
            /\ p = 1 => ~(4 * q + 3 > M * 4 - p)
            /\ p = 2 => 4 * q + 3 > M * 4 - p /\ ~(4 * q + 2 > M * 4 - p)
            /\ p = 1 \/ p = 2
        BY <1>2, <3>2
      <3>4. /\ d(4 * q + 4) = 0 /\ d(4 * q + 1) \in Digits /\ d(4 * q + 2) \in Digits /\ d(4 * q + 3) \in Digits
        BY <1>2, <1>5, <3>3
      <3>5. p = 1 => d(4 * q + 3) % Radix = 0
        BY <1>4, <1>5, <3>3
      <3>6. p = 2 => d(4 * q + 3) = 0 /\ d(4 * q + 2) % Square = 0
        BY <1>4, <1>5, <3>3
      <3>7. CASE p = 1
        BY <3>1, <3>2, <3>4, <3>5, <3>7, NilBytes
      <3>8. CASE p = 2
        BY <3>1, <3>2, <3>4, <3>6, <3>8, NilBytes
      <3> QED BY <3>3, <3>7, <3>8
    <2> QED BY <2>1, <2>2
  <1>8. /\ Len(encode(c)) = M * 4 /\ encode(c) \in Seq(0..Other)
        /\ \A q \in 0..(M - 1), j \in 1..4 :
             encode(c)[4 * q + j] = IF 3 * q + j > Len(c) + 1 THEN Pad
                                    ELSE digit(b(3 * q + 1), b(3 * q + 2), b(3 * q + 3), j)
    <2>1. M \in Nat
      BY <1>1
    <2> QED BY <1>2, <1>6, <2>1, EncodeAt
  <1> HIDE DEF b
  <1>9. ASSUME NEW i \in 1..(M * 4) PROVE encode(c)[i] = t[i]
    <2>1. PICK q \in 0..(M - 1), j \in 1..4 : i = 4 * q + j
      <3>1. /\ (i - 1) \div 4 \in 0..(M - 1) /\ ((i - 1) % 4) + 1 \in 1..4
            /\ i = 4 * ((i - 1) \div 4) + (((i - 1) % 4) + 1)
        BY <1>1
      <3> QED BY <3>1
    <2>2. 3 * q + j > Len(c) + 1 <=> i > M * 4 - p
      BY <1>1, <1>2, <2>1
    <2>3. CASE i > M * 4 - p
      BY <1>3, <1>8, <2>1, <2>2, <2>3
    <2>4. CASE ~(i > M * 4 - p)
      <3>1. encode(c)[i] = digit(b(3 * q + 1), b(3 * q + 2), b(3 * q + 3), j)
        BY <1>8, <2>1, <2>2, <2>4
      <3>2. /\ 4 * q + 1 \in 1..(M * 4) /\ 4 * q + 2 \in 1..(M * 4)
            /\ 4 * q + 3 \in 1..(M * 4) /\ 4 * q + 4 \in 1..(M * 4)
        BY <1>1
      <3>3. /\ d(4 * q + 1) \in Digits /\ d(4 * q + 2) \in Digits
            /\ d(4 * q + 3) \in Digits /\ d(4 * q + 4) \in Digits
        BY <1>2, <3>2
      <3> DEFINE x(k) == byte(d(4 * q + 1), d(4 * q + 2), d(4 * q + 3), d(4 * q + 4), k)
      <3>4. b(3 * q + 1) = x(1) /\ b(3 * q + 2) = x(2) /\ b(3 * q + 3) = x(3)
        BY <1>7
      <3>5. digit(x(1), x(2), x(3), j) = d(4 * q + j)
        <4>1. j = 1 \/ j = 2 \/ j = 3 \/ j = 4
          OBVIOUS
        <4> QED BY <3>3, <4>1, GroupOfDigits
      <3>6. d(4 * q + j) = t[i]
        BY <1>5, <2>1, <2>4
      <3> HIDE DEF x
      <3> QED BY <3>1, <3>4, <3>5, <3>6
    <2> QED BY <2>3, <2>4
  <1>10. encode(c) = t
    BY <1>1, <1>8, <1>9, SeqEqual
  <1>11. c # <<>>
    BY <1>2
  <1> QED BY <1>2, <1>10, <1>11 DEF c

\* A base64 field that was accepted is shown as the text that was sent, and that
\* is accepted again.
LEMMA ByteFieldTwice ==
  ASSUME NEW raw \in Seq(0..Other), NEW max \in Nat, base64_field(raw, max) # Refused
  PROVE  /\ encode(base64_field(raw, max)) = raw
         /\ base64_field(encode(base64_field(raw, max)), max) = base64_field(raw, max)
  <1>1. canonical(raw) /\ base64_field(raw, max) = decode(raw)
    BY DEF base64_field
  <1> QED BY <1>1, EncodeDecode

\* Bytes that a client encodes are stored as they are, or refused for their number.
LEMMA BytesArrive ==
  ASSUME NEW bytes \in Seq(Bytes), NEW max \in Nat
  PROVE  /\ base64_field(encode(bytes), max) \in {bytes, Refused}
         /\ Len(bytes) \in 1..max => base64_field(encode(bytes), max) = bytes
  <1>1. CASE bytes # <<>>
    BY <1>1, DecodeEncode DEF base64_field
  <1>2. CASE bytes = <<>>
    <2>1. Len(bytes) = 0 /\ (0 + 2) \div 3 = 0
      BY <1>2
    <2>2. Len(encode(bytes)) = 0 /\ encode(bytes) \in Seq(0..Other)
      <3>1. 0 \in Nat /\ 0 = (Len(bytes) + 2) \div 3 /\ 0 * 4 = 0
        BY <2>1
      <3>2. Len(encode(bytes)) = 0 * 4 /\ encode(bytes) \in Seq(0..Other)
        BY <3>1, EncodeAt, Zenon
      <3> QED BY <3>1, <3>2
    <2>3. ~canonical(encode(bytes))
      BY <2>2 DEF canonical
    <2> QED BY <2>1, <2>3 DEF base64_field
  <1> QED BY <1>1, <1>2

\* What a response shows of an accepted field, the server takes again and stores
\* the same, and a base64 field is shown as it was sent.
THEOREM RoundTrips ==
  InputsSpec => []FieldsSurviveTheRoundTrip
  <1> DEFINE name == field.name
             sent == field.sent
             held == field.held
             stored == field.stored
  <1>1. FieldInv => FieldsSurviveTheRoundTrip
    <2> SUFFICES ASSUME FieldInv PROVE FieldsSurviveTheRoundTrip
      OBVIOUS
    <2>1. CASE field = NoField
      BY <2>1 DEF NoField, FieldsSurviveTheRoundTrip, ByteFields, Refused
    <2>2. CASE name = "email" /\ sent \in Addresses /\ stored = check(name, sent)
      <3>1. sent \in Seq(Characters)
        BY <2>2, InputsAssumption
      <3>2. stored = email(sent) /\ check(name, shown(name, stored)) = email(stored)
        BY <2>2 DEF check, shown, ByteFields
      <3>3. stored # Refused => email(stored) = stored
        BY <3>1, <3>2, EmailTwice
      <3> QED BY <2>2, <3>2, <3>3 DEF FieldsSurviveTheRoundTrip, ByteFields
    <2>3. CASE name \in TextFields /\ sent \in Texts /\ stored = check(name, sent)
      <3>1. sent \in Seq(Characters)
        BY <2>3, InputsAssumption
      <3>2. trim(trim(sent)) = trim(sent)
        BY <3>1, TrimTwice
      <3>3. \A max : bounded(sent, max) # Refused => bounded(bounded(sent, max), max) = bounded(sent, max)
        BY <3>2 DEF bounded
      <3>4. shown(name, stored) = stored /\ name \notin ByteFields
        BY <2>3 DEF shown, TextFields, ByteFields
      <3>5. stored # Refused /\ name # "password" => check(name, stored) = stored
        <4>1. CASE name = "title"
          BY <2>3, <3>3, <4>1 DEF check, title
        <4>2. CASE name = "label"
          BY <2>3, <3>3, <4>2 DEF check, label
        <4>3. CASE name = "model"
          BY <2>3, <3>3, <4>3 DEF check, model
        <4>4. CASE name = "role"
          BY <2>3, <4>4 DEF check, message_role
        <4>5. CASE name = "algorithm"
          BY <2>3, <3>2, <4>5 DEF check, algorithm
        <4> QED BY <2>3, <4>1, <4>2, <4>3, <4>4, <4>5 DEF TextFields
      <3> QED BY <3>4, <3>5 DEF FieldsSurviveTheRoundTrip
    <2>4. CASE /\ name \in ByteFields /\ stored = check(name, sent)
               /\ \/ sent \in Encodings /\ held = <<>>
                  \/ held \in ByteStrings /\ sent = encode(held)
      <3> DEFINE max == CASE name = "ciphertext" -> MAX_CIPHERTEXT_BYTES
                          [] name = "nonce" -> NONCE_LEN
                          [] name = "public_key" -> PUBLIC_KEY_LEN
                 fits(bytes) ==
                   \/ name = "ciphertext"
                   \/ Len(bytes) = max /\ (name = "public_key" => bytes \in PublicKeys)
      <3>1. max \in Nat /\ (name = "ciphertext" => max = MAX_CIPHERTEXT_BYTES)
        BY <2>4, ValidateAssumption DEF ByteFields
      <3>2. \A raw : check(name, raw) = IF fits(base64_field(raw, max)) THEN base64_field(raw, max) ELSE Refused
        BY <2>4 DEF check, public_key, exactly, ByteFields, Refused
      <3>3. shown(name, stored) = encode(stored)
        BY <2>4 DEF shown
      <3>4. sent \in Seq(0..Other)
        <4>1. CASE sent \in Encodings
          BY <4>1, InputsAssumption
        <4>2. CASE held \in ByteStrings /\ sent = encode(held)
          <5>1. held \in Seq(Bytes)
            BY <4>2, InputsAssumption
          <5>2. \A n \in Nat : (n + 2) \div 3 \in Nat
            OBVIOUS
          <5>3. (Len(held) + 2) \div 3 \in Nat
            BY <5>1, <5>2, LenProperties
          <5> QED BY <4>2, <5>1, <5>3, EncodeAt
        <4> QED BY <2>4, <4>1, <4>2
      <3> HIDE DEF max
      <3>5. stored # Refused => encode(stored) = sent /\ check(name, encode(stored)) = stored
        <4> SUFFICES ASSUME stored # Refused
                     PROVE  encode(stored) = sent /\ check(name, encode(stored)) = stored
          OBVIOUS
        <4>1. stored = base64_field(sent, max)
          BY <2>4, <3>2
        <4>2. encode(stored) = sent
          BY <3>1, <3>4, <4>1, ByteFieldTwice
        <4> QED BY <2>4, <4>2
      <3>6. held = <<>> \/ stored \in {held, Refused}
        <4>1. CASE held \in ByteStrings /\ sent = encode(held)
          <5>1. held \in Seq(Bytes)
            BY <4>1, InputsAssumption
          <5>2. base64_field(sent, max) \in {held, Refused}
            BY <3>1, <4>1, <5>1, BytesArrive
          <5> QED BY <2>4, <3>2, <5>2
        <4> QED BY <2>4, <4>1
      <3>7. name = "ciphertext" /\ Len(held) \in 1..MAX_CIPHERTEXT_BYTES => stored = held
        <4> SUFFICES ASSUME name = "ciphertext", Len(held) \in 1..MAX_CIPHERTEXT_BYTES
                     PROVE  stored = held
          OBVIOUS
        <4>1. held # <<>>
          BY ValidateAssumption
        <4>2. held \in Seq(Bytes) /\ sent = encode(held)
          BY <2>4, <4>1, InputsAssumption
        <4>3. base64_field(sent, max) = held
          BY <3>1, <4>2, BytesArrive
        <4> QED BY <2>4, <3>2, <4>3
      <3> QED BY <2>4, <3>3, <3>5, <3>6, <3>7 DEF FieldsSurviveTheRoundTrip
    <2> QED BY <2>1, <2>2, <2>3, <2>4 DEF FieldInv
  <1> QED BY <1>1, FieldInvariance, PTL
=============================================================================
